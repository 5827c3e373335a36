--------------------------- MODULE SessionsProofs ---------------------------
(***************************************************************************)
(* Theorems about Sessions, for any number of sessions and of overlapping  *)
(* requests and any sliding and absolute expiry.                           *)
(***************************************************************************)
EXTENDS Sessions, SequenceTheorems, TLAPS

-----------------------------------------------------------------------------
(* The inductive invariant.  A record is written from a copy that was made  *)
(* some time before, so what is said of the stored records is also said of  *)
(* the copies the requests are about to write.                              *)

\* A copy that request q is about to write.
CopyOK(q) ==
    /\ q.copy.user # None
    /\ q.copy.absolute = born[q.id] + Absolute
    /\ q.copy.expires <= q.at + Sliding
    /\ Head(q.todo) = "mark" \/ marked[q.id] = "clean" => q.copy.verified
    /\ gone[q.id] # "clean"
    /\ Head(q.todo) # "create" =>
           q.at < born[q.id] + Absolute /\ q.at < used[q.id] + Sliding

\* A session is created once, by the first and only call of its request.
HandlerOK(q) ==
    q.todo # <<>> =>
        /\ q.at <= now
        /\ \A i \in 2..Len(q.todo) : q.todo[i] # "create"
        /\ Head(q.todo) = "create" <=> redis[q.id].rec.user = None
        /\ q.pc = "write" => CopyOK(q)

\* A record without a user was never written.
RecordOK(s) ==
    /\ redis[s].rec.user # None =>
           /\ redis[s].rec.absolute = born[s] + Absolute
           /\ redis[s].rec.expires <= used[s] + Sliding
    /\ redis[s].rec.user = None =>
           redis[s].until = 0 /\ gone[s] = "no" /\ marked[s] = "no" /\ cookie.id # s
    /\ redis[s].until = 0 \/ redis[s].rec.expires <= redis[s].until
    /\ gone[s] = "clean" => redis[s].until <= now
    /\ marked[s] = "clean" /\ redis[s].until > now => redis[s].rec.verified

\* Nobody else works on a session that is being created.
CreatedAlone ==
    \A r, q \in Requests :
        r # q /\ req[r].todo # <<>> /\ Head(req[r].todo) = "create" => req[q].id # req[r].id

SessionInv ==
    /\ TypeOK
    /\ \A s \in Ids : RecordOK(s)
    /\ \A r \in Requests : HandlerOK(req[r])
    /\ CreatedAlone

-----------------------------------------------------------------------------
(* Values *)

LEMMA Values ==
    /\ NoSession \in Session /\ NoSession.user = None /\ NoSession.expires = 0
    /\ Idle \in Request /\ Idle.todo = <<>> /\ Idle.id = None /\ Idle.pc = "call"
<1>1. NoSession \in Session /\ NoSession.user = None /\ NoSession.expires = 0
  BY DEF NoSession, Session
<1>2. <<>> \in Seq(Ops)
  OBVIOUS
<1> QED
  BY <1>1, <1>2 DEF Idle, Request

\* The calls of a page.  Only the login callback creates a session.
LEMMA Programs ==
    \A page \in {"me", "home", "show", "verify", "logout"} :
        /\ Program[page] \in Seq(Ops) /\ Program[page] # <<>>
        /\ \A i \in 1..Len(Program[page]) : Program[page][i] # "create"
<1>1. /\ <<"touch">> \in Seq(Ops) /\ <<"touch", "get">> \in Seq(Ops)
      /\ <<"touch", "turnstile", "mark">> \in Seq(Ops) /\ <<"delete">> \in Seq(Ops)
  BY DEF Ops
<1>2. /\ Program["me"] = <<"touch">> /\ Program["home"] = <<"touch", "get">>
      /\ Program["show"] = <<"touch", "get">>
      /\ Program["verify"] = <<"touch", "turnstile", "mark">>
      /\ Program["logout"] = <<"delete">>
  BY DEF Program
<1> SUFFICES ASSUME NEW page \in {"me", "home", "show", "verify", "logout"}
             PROVE  /\ Program[page] \in Seq(Ops) /\ Program[page] # <<>>
                    /\ \A i \in 1..Len(Program[page]) : Program[page][i] # "create"
  OBVIOUS
<1>3. CASE page = "me"
  BY <1>1, <1>2, <1>3
<1>4. CASE page \in {"home", "show"}
  <2>1. Program[page] = <<"touch", "get">>
    BY <1>2, <1>4
  <2>2. \A i \in 1..2 : i = 1 \/ i = 2
    OBVIOUS
  <2>3. <<"touch", "get">>[1] # "create" /\ <<"touch", "get">>[2] # "create"
        /\ Len(<<"touch", "get">>) = 2
    OBVIOUS
  <2> QED
    BY <1>1, <2>1, <2>2, <2>3
<1>5. CASE page = "verify"
  <2>1. Program[page] = <<"touch", "turnstile", "mark">>
    BY <1>2, <1>5
  <2> DEFINE p == <<"touch", "turnstile", "mark">>
  <2>2. \A i \in 1..3 : i = 1 \/ i = 2 \/ i = 3
    OBVIOUS
  <2>3. p[1] # "create" /\ p[2] # "create" /\ p[3] # "create" /\ Len(p) = 3 /\ p # <<>>
    OBVIOUS
  <2> HIDE DEF p
  <2>4. Program[page] = p /\ p \in Seq(Ops)
    BY <1>1, <2>1 DEF p
  <2> QED
    BY <2>2, <2>3, <2>4
<1>6. CASE page = "logout"
  BY <1>1, <1>2, <1>6
<1> QED
  BY <1>3, <1>4, <1>5, <1>6

\* What newSession and Touch compute: an expiry within the sliding time, and the
\* absolute expiry is never moved.
LEMMA NewSession ==
    ASSUME NEW u \in Users, NEW t \in Nat
    PROVE  /\ newSession(u, t) \in Session
           /\ newSession(u, t).user = u
           /\ newSession(u, t).absolute = t + Absolute
           /\ newSession(u, t).expires <= t + Sliding
           /\ newSession(u, t).verified = FALSE
  BY SessionAssumptions DEF newSession, Session, expiry, least

LEMMA RenewedRecord ==
    ASSUME NEW op, NEW rec \in Session, NEW t \in Nat
    PROVE  /\ Renewed(op, rec, t) \in Session
           /\ Renewed(op, rec, t).user = rec.user
           /\ Renewed(op, rec, t).absolute = rec.absolute
           /\ Renewed(op, rec, t).expires <= t + Sliding
           /\ Renewed(op, rec, t).verified = (rec.verified \/ op = "mark")
<1> DEFINE e == least(expiry(t, Sliding, rec.absolute - t), rec.absolute)
<1>1. e \in Nat /\ e <= t + Sliding
  BY SessionAssumptions DEF Session, least, expiry
<1>2. renewed(rec, t) = [rec EXCEPT !.expires = e]
  BY DEF renewed
<1> HIDE DEF e
<1>3. /\ renewed(rec, t) \in Session
      /\ renewed(rec, t).user = rec.user /\ renewed(rec, t).absolute = rec.absolute
      /\ renewed(rec, t).expires = e /\ renewed(rec, t).verified = rec.verified
  BY <1>1, <1>2 DEF Session
<1> DEFINE w == renewed(rec, t)
<1>4. Renewed(op, rec, t) = IF op = "mark" THEN [w EXCEPT !.verified = TRUE] ELSE w
  BY DEF Renewed
<1> HIDE DEF w
<1>5. /\ w \in Session /\ w.user = rec.user /\ w.absolute = rec.absolute
      /\ w.expires = e /\ w.verified = rec.verified /\ rec.verified \in BOOLEAN
  BY <1>3 DEF w, Session
<1>6. CASE op = "mark"
  BY <1>1, <1>4, <1>5, <1>6 DEF Session
<1>7. CASE op # "mark"
  BY <1>1, <1>4, <1>5, <1>7
<1> QED
  BY <1>6, <1>7

-----------------------------------------------------------------------------
(* Handlers *)

LEMMA TailFacts ==
    ASSUME NEW S, NEW t \in Seq(S), Len(t) > 1
    PROVE  /\ Tail(t) \in Seq(S) /\ Tail(t) # <<>> /\ Len(Tail(t)) = Len(t) - 1
           /\ \A i \in 1..Len(Tail(t)) : Tail(t)[i] = t[i + 1]
<1>1. t # <<>>
  OBVIOUS
<1>2. Tail(t) \in Seq(S) /\ Len(Tail(t)) = Len(t) - 1
  BY <1>1, HeadTailProperties
<1>3. Tail(t) # <<>>
  <2>1. Len(<<>>) = 0
    OBVIOUS
  <2>2. Len(t) \in Nat
    BY LenProperties
  <2>3. Len(Tail(t)) # 0
    BY <1>2, <2>2
  <2> QED
    BY <2>1, <2>3, Zenon
<1> QED
  BY <1>1, <1>2, <1>3, HeadTailProperties

LEMMA HandlerTypes ==
    ASSUME TypeOK, NEW r \in Requests
    PROVE  /\ req \in [Requests -> Request] /\ req[r] \in Request
           /\ req[r].todo \in Seq(Ops) /\ req[r].at \in Nat /\ req[r].copy \in Session
           /\ req[r].id \in Ids \cup {None} /\ req[r].pc \in {"call", "write", "drop"}
           /\ req[r].todo # <<>> =>
                  /\ req[r].id \in Ids /\ Head(req[r].todo) \in Ops
                  /\ Tail(req[r].todo) \in Seq(Ops)
                  /\ redis[req[r].id] \in [rec : Session, until : Nat]
                  /\ redis[req[r].id].rec \in Session
<1>1. req[r] \in Request
  BY DEF TypeOK
<1>2. req[r].todo \in Seq(Ops)
  BY <1>1 DEF Request
<1>3. ASSUME req[r].todo # <<>>
      PROVE  Head(req[r].todo) \in Ops /\ Tail(req[r].todo) \in Seq(Ops)
  BY <1>2, <1>3, HeadTailProperties
<1> QED
  BY <1>1, <1>2, <1>3 DEF TypeOK, Request

\* The request goes on with its next call, which creates no session.
LEMMA ContinueCases ==
    ASSUME SessionInv, NEW r \in Requests, req[r].todo # <<>>, Continue(r)
    PROVE  \/ req' = [req EXCEPT ![r] = Idle]
           \/ \E q \in Request :
                /\ req' = [req EXCEPT ![r] = q]
                /\ q.id = req[r].id /\ q.pc = "call" /\ q.at = now
                /\ q.todo # <<>> /\ \A i \in 1..Len(q.todo) : q.todo[i] # "create"
<1>1. CASE Len(req[r].todo) > 1
  <2> DEFINE t == Tail(req[r].todo)
  <2> DEFINE q == [id |-> req[r].id, todo |-> t, pc |-> "call", at |-> now, copy |-> NoSession]
  <2>1. t \in Seq(Ops) /\ t # <<>> /\ Len(t) = Len(req[r].todo) - 1
        /\ \A i \in 1..Len(t) : t[i] = req[r].todo[i + 1]
    BY <1>1, HandlerTypes, TailFacts DEF SessionInv
  <2>2. req' = [req EXCEPT ![r] = q]
    BY <1>1 DEF Continue
  <2>3. q \in Request
    <3>1. now \in Nat /\ req[r].id \in Ids \cup {None} /\ NoSession \in Session
      BY HandlerTypes, Values DEF SessionInv, TypeOK
    <3> HIDE DEF t
    <3> QED
      BY <2>1, <3>1 DEF Request
  <2>4. \A i \in 1..Len(t) : t[i] # "create"
    <3>1. \A i \in 2..Len(req[r].todo) : req[r].todo[i] # "create"
      BY DEF SessionInv, HandlerOK
    <3>2. Len(req[r].todo) \in Nat
      BY HandlerTypes, LenProperties DEF SessionInv
    <3> QED
      BY <2>1, <3>1, <3>2
  <2>5. q.id = req[r].id /\ q.pc = "call" /\ q.at = now /\ q.todo = t
    OBVIOUS
  <2> HIDE DEF q, t
  <2> QED
    BY <2>1, <2>2, <2>3, <2>4, <2>5
<1>2. CASE ~(Len(req[r].todo) > 1)
  BY <1>2 DEF Continue
<1> QED
  BY <1>1, <1>2

\* A step that only changes request r.
LEMMA OneRequest ==
    ASSUME SessionInv, NEW r \in Requests, NEW q \in Request,
           req' = [req EXCEPT ![r] = q],
           q.todo # <<>> => q.id \in Ids,
           q.id \in {None, req[r].id},
           HandlerOK(q),
           q.todo # <<>> => Head(q.todo) # "create",
           UNCHANGED <<now, redis, cookie, born, used, gone, marked>>
    PROVE  SessionInv'
<1>1. req' \in [Requests -> Request] /\ \A p \in Requests : req'[p] = IF p = r THEN q ELSE req[p]
  BY HandlerTypes DEF SessionInv
<1>2. TypeOK'
  BY <1>1 DEF SessionInv, TypeOK
<1>3. \A s \in Ids : RecordOK(s)'
  BY DEF SessionInv, RecordOK
<1>4. ASSUME NEW p \in Requests PROVE HandlerOK(req[p])'
  <2>1. HandlerOK(req'[p])
    BY <1>1 DEF SessionInv
  <2> QED
    BY <2>1 DEF HandlerOK, CopyOK
<1>5. CreatedAlone'
  <2> SUFFICES ASSUME NEW p1 \in Requests, NEW p2 \in Requests, p1 # p2,
                      req'[p1].todo # <<>>, Head(req'[p1].todo) = "create"
               PROVE  req'[p2].id # req'[p1].id
    BY DEF CreatedAlone
  <2>1. p1 # r /\ req'[p1] = req[p1]
    BY <1>1
  <2>2. req[p1].id \in Ids /\ None \notin Ids
    BY <2>1, HandlerTypes, SessionAssumptions DEF SessionInv
  <2> QED
    BY <1>1, <2>1, <2>2 DEF SessionInv, CreatedAlone
<1> QED
  BY <1>2, <1>3, <1>4, <1>5 DEF SessionInv

LEMMA AbortOK ==
    ASSUME SessionInv, NEW r \in Requests, Abort(r),
           UNCHANGED <<now, redis, cookie, born, used, gone, marked>>
    PROVE  SessionInv'
<1>1. HandlerOK(Idle)
  BY Values DEF HandlerOK
<1> QED
  BY <1>1, Values, OneRequest DEF Abort

LEMMA ContinueOK ==
    ASSUME SessionInv, NEW r \in Requests, req[r].todo # <<>>, Head(req[r].todo) # "create",
           Continue(r), UNCHANGED <<now, redis, cookie, born, used, gone, marked>>
    PROVE  SessionInv'
<1>1. CASE req' = [req EXCEPT ![r] = Idle]
  BY <1>1, AbortOK DEF Abort
<1>2. CASE req' # [req EXCEPT ![r] = Idle]
  <2>1. PICK q \in Request :
          /\ req' = [req EXCEPT ![r] = q]
          /\ q.id = req[r].id /\ q.pc = "call" /\ q.at = now
          /\ q.todo # <<>> /\ \A i \in 1..Len(q.todo) : q.todo[i] # "create"
    BY <1>2, ContinueCases
  <2>2. q.todo \in Seq(Ops) /\ Len(q.todo) \in Nat /\ Head(q.todo) = q.todo[1] /\ Len(q.todo) >= 1
    BY <2>1, HeadTailProperties, LenProperties DEF Request
  <2>3. Head(q.todo) # "create"
    BY <2>1, <2>2
  <2>4. redis[q.id].rec.user # None
    BY <2>1 DEF SessionInv, HandlerOK
  <2>5. HandlerOK(q)
    BY <2>1, <2>2, <2>3, <2>4 DEF HandlerOK, SessionInv, TypeOK
  <2>6. q.id \in Ids
    BY <2>1, HandlerTypes DEF SessionInv
  <2> QED
    BY <2>1, <2>3, <2>5, <2>6, OneRequest
<1> QED
  BY <1>1, <1>2

-----------------------------------------------------------------------------
(* One lemma per kind of step. *)

LEMMA SessionInit == Init => SessionInv
<1> SUFFICES ASSUME Init PROVE SessionInv
  OBVIOUS
<1>1. \A r \in Requests : req[r] = Idle
  BY DEF Init
<1>2. \A s \in Ids : redis[s].rec = NoSession /\ redis[s].until = 0
  BY DEF Init
<1>3. TypeOK
  <2>1. redis \in [Ids -> [rec : Session, until : Nat]]
    BY Values DEF Init
  <2>2. req \in [Requests -> Request]
    BY Values DEF Init
  <2>3. \A r \in Requests : req[r].todo = <<>>
    BY <1>1, Values
  <2> QED
    BY <2>1, <2>2, <2>3 DEF Init, TypeOK, Outcome
<1>4. \A s \in Ids : RecordOK(s)
  BY <1>2, Values, SessionAssumptions DEF Init, RecordOK
<1>5. \A r \in Requests : HandlerOK(req[r])
  BY <1>1, Values DEF HandlerOK
<1>6. CreatedAlone
  BY <1>1, Values DEF CreatedAlone
<1> QED
  BY <1>3, <1>4, <1>5, <1>6 DEF SessionInv

\* A page is requested with the cookie of a session that was written.
LEMMA ArriveOK ==
    ASSUME SessionInv, NEW r \in Requests,
           NEW page \in {"me", "home", "show", "verify", "logout"}, Arrive(r, page)
    PROVE  SessionInv'
<1> DEFINE q == [Idle EXCEPT !.id = cookie.id, !.todo = Program[page], !.at = now]
<1>1. /\ req' = [req EXCEPT ![r] = q]
      /\ UNCHANGED <<now, redis, cookie, born, used, gone, marked>>
      /\ req[r].todo = <<>> /\ cookie.id # None
  BY DEF Arrive
<1>2. cookie.id \in Ids /\ now \in Nat
  BY <1>1 DEF SessionInv, TypeOK
<1>3. /\ Program[page] \in Seq(Ops) /\ Program[page] # <<>>
      /\ \A i \in 1..Len(Program[page]) : Program[page][i] # "create"
  BY Programs
<1>4. q \in Request /\ q.id = cookie.id /\ q.todo = Program[page] /\ q.at = now /\ q.pc = "call"
  BY <1>2, <1>3, Values DEF Request
<1> HIDE DEF q
<1>5. /\ q.todo # <<>> /\ Head(q.todo) = q.todo[1] /\ Len(q.todo) \in Nat /\ Len(q.todo) >= 1
      /\ \A i \in 1..Len(q.todo) : q.todo[i] # "create"
  <2>1. q.todo \in Seq(Ops) /\ q.todo # <<>>
    BY <1>3, <1>4
  <2> QED
    BY <1>3, <1>4, <2>1, HeadTailProperties, LenProperties
<1>6. redis[q.id].rec.user # None
  BY <1>2, <1>4 DEF SessionInv, RecordOK
<1>7. HandlerOK(q)
  BY <1>2, <1>4, <1>5, <1>6 DEF HandlerOK
<1>8. req' \in [Requests -> Request] /\ \A p \in Requests : req'[p] = IF p = r THEN q ELSE req[p]
  BY <1>1, <1>4, HandlerTypes DEF SessionInv
<1>9. TypeOK'
  BY <1>1, <1>2, <1>4, <1>8 DEF SessionInv, TypeOK
<1>10. \A s \in Ids : RecordOK(s)'
  BY <1>1 DEF SessionInv, RecordOK
<1>11. ASSUME NEW p \in Requests PROVE HandlerOK(req[p])'
  <2>1. HandlerOK(req'[p])
    BY <1>7, <1>8 DEF SessionInv
  <2> QED
    BY <1>1, <2>1 DEF HandlerOK, CopyOK
<1>12. CreatedAlone'
  <2> SUFFICES ASSUME NEW p1 \in Requests, NEW p2 \in Requests, p1 # p2,
                      req'[p1].todo # <<>>, Head(req'[p1].todo) = "create"
               PROVE  req'[p2].id # req'[p1].id
    BY DEF CreatedAlone
  <2>1. Head(q.todo) # "create"
    BY <1>5
  <2>2. p1 # r /\ req'[p1] = req[p1]
    BY <1>8, <2>1
  <2>3. redis[req[p1].id].rec.user = None
    BY <2>2 DEF SessionInv, HandlerOK
  <2> QED
    BY <1>6, <1>8, <2>2, <2>3 DEF SessionInv, CreatedAlone
<1> QED
  BY <1>9, <1>10, <1>11, <1>12 DEF SessionInv

\* A login: nobody holds the new id.
LEMMA EstablishOK ==
    ASSUME SessionInv, NEW r \in Requests, NEW u \in Users, NEW s \in Ids, Establish(r, u, s)
    PROVE  SessionInv'
<1>1. Program["callback"] = <<"create">>
  BY DEF Program
<1>2. /\ born' = [born EXCEPT ![s] = now]
      /\ UNCHANGED <<now, redis, cookie, used, gone, marked>>
      /\ redis[s].rec = NoSession /\ \A p \in Requests : req[p].id # s
  BY DEF Establish
<1>3. now \in Nat /\ s # None
  BY SessionAssumptions DEF SessionInv, TypeOK
<1>4. PICK q \in Request :
        /\ req' = [req EXCEPT ![r] = q]
        /\ q.id = s /\ q.pc = "write" /\ q.at = now /\ q.copy = newSession(u, now)
        /\ q.todo # <<>> /\ Head(q.todo) = "create" /\ Len(q.todo) = 1
  <2> DEFINE new == [id |-> s, todo |-> <<"create">>, pc |-> "write", at |-> now,
                     copy |-> newSession(u, now)]
  <2>1. <<"create">> \in Seq(Ops)
    BY DEF Ops
  <2>2. newSession(u, now) \in Session
    BY <1>3, NewSession
  <2>3. new \in Request
    <3> DEFINE t == <<"create">>  c == newSession(u, now)
    <3>1. t \in Seq(Ops) /\ c \in Session
      BY <2>1, <2>2
    <3> HIDE DEF t, c
    <3>2. [id |-> s, todo |-> t, pc |-> "write", at |-> now, copy |-> c] \in Request
      BY <1>3, <3>1 DEF Request
    <3> QED
      BY <3>2 DEF t, c
  <2>4. req' = [req EXCEPT ![r] = new]
    BY <1>1 DEF Establish
  <2>5. /\ new.id = s /\ new.pc = "write" /\ new.at = now /\ new.copy = newSession(u, now)
        /\ new.todo # <<>> /\ Head(new.todo) = "create" /\ Len(new.todo) = 1
    OBVIOUS
  <2> HIDE DEF new
  <2> QED
    BY <2>3, <2>4, <2>5
<1>5. redis[s].rec.user = None
  BY <1>2, Values
<1>6. /\ gone[s] = "no" /\ marked[s] = "no" /\ born'[s] = now
      /\ \A x \in Ids : x # s => born'[x] = born[x]
  BY <1>2, <1>5 DEF SessionInv, RecordOK, TypeOK
<1>7. HandlerOK(q)'
  <2>1. /\ q.copy.user = u /\ q.copy.absolute = now + Absolute
        /\ q.copy.expires <= now + Sliding /\ u # None
    <3>1. u # None
      BY SessionAssumptions
    <3>2. now \in Nat /\ q.copy = newSession(u, now)
      BY <1>3, <1>4
    <3> DEFINE c == newSession(u, now)
    <3>3. c.user = u /\ c.absolute = now + Absolute /\ c.expires <= now + Sliding
      BY <3>2, NewSession
    <3>4. q.copy = c
      BY <3>2
    <3> HIDE DEF c
    <3> QED
      BY <3>1, <3>3, <3>4
  <2>2. CopyOK(q)'
    BY <1>2, <1>4, <1>6, <2>1 DEF CopyOK
  <2> QED
    BY <1>2, <1>3, <1>4, <1>5, <2>2 DEF HandlerOK
<1>8. req' \in [Requests -> Request] /\ \A p \in Requests : req'[p] = IF p = r THEN q ELSE req[p]
  BY <1>2, <1>4, HandlerTypes DEF SessionInv
<1>9. TypeOK'
  <2>1. born' \in [Ids -> Nat]
    BY <1>2, <1>3 DEF SessionInv, TypeOK
  <2> QED
    BY <1>2, <1>4, <1>8, <2>1 DEF SessionInv, TypeOK
<1>10. ASSUME NEW x \in Ids PROVE RecordOK(x)'
  <2>1. RecordOK(x)
    BY DEF SessionInv
  <2> QED
    BY <1>2, <1>5, <1>6, <2>1 DEF RecordOK
<1>11. ASSUME NEW p \in Requests PROVE HandlerOK(req[p])'
  <2>1. CASE p = r
    BY <1>7, <1>8, <2>1 DEF HandlerOK, CopyOK
  <2>2. CASE p # r
    <3>1. req'[p] = req[p] /\ HandlerOK(req[p]) /\ req[p].id # s
      BY <1>2, <1>8, <2>2 DEF SessionInv
    <3>2. CASE req[p].todo = <<>>
      BY <3>1, <3>2 DEF HandlerOK
    <3>3. CASE req[p].todo # <<>>
      <4>1. born'[req[p].id] = born[req[p].id]
        BY <1>6, <3>1, <3>3, HandlerTypes DEF SessionInv
      <4> QED
        BY <1>2, <3>1, <3>3, <4>1 DEF HandlerOK, CopyOK
    <3> QED
      BY <3>2, <3>3
  <2> QED
    BY <2>1, <2>2
<1>12. CreatedAlone'
  BY <1>2, <1>4, <1>8 DEF SessionInv, CreatedAlone
<1> QED
  BY <1>9, <1>10, <1>11, <1>12 DEF SessionInv

\* A record that Get found and accepted: the copy made of it may be written.
LEMMA AcceptedCopy ==
    ASSUME SessionInv, NEW r \in Requests, req[r].todo # <<>>,
           Head(req[r].todo) \in {"touch", "mark"}, Stored(req[r].id),
           validAt(redis[req[r].id].rec, req[r].at),
           NEW q \in Request, q.id = req[r].id, q.todo = req[r].todo, q.at = req[r].at,
           q.copy = Renewed(Head(req[r].todo), redis[req[r].id].rec, req[r].at)
    PROVE  CopyOK(q)
<1> DEFINE s == req[r].id  rec == redis[s].rec  op == Head(req[r].todo)  t == req[r].at
<1>1. s \in Ids /\ rec \in Session /\ t \in Nat
  BY HandlerTypes DEF SessionInv
<1>2. /\ q.copy.user = rec.user /\ q.copy.absolute = rec.absolute
      /\ q.copy.expires <= t + Sliding /\ q.copy.verified = (rec.verified \/ op = "mark")
  BY <1>1, RenewedRecord
<1>3. rec.user # None
  BY DEF SessionInv, HandlerOK
<1>4. RecordOK(s) /\ born[s] \in Nat /\ used[s] \in Nat /\ redis[s].until \in Nat /\ now \in Nat
  BY <1>1 DEF SessionInv, TypeOK
<1>5. rec.absolute = born[s] + Absolute /\ rec.expires <= used[s] + Sliding
  BY <1>3, <1>4 DEF RecordOK
<1>6. gone[s] # "clean" /\ (marked[s] = "clean" => rec.verified)
  BY <1>4 DEF RecordOK, Stored
<1>7. t < rec.expires /\ t < rec.absolute /\ rec.expires \in Nat /\ rec.absolute \in Nat
  BY <1>1 DEF validAt, Session
<1>8. t < born[s] + Absolute /\ t < used[s] + Sliding
  <2>1. Sliding \in Nat /\ Absolute \in Nat
    BY SessionAssumptions
  <2> HIDE DEF s, rec, op, t
  <2> QED
    BY <1>1, <1>4, <1>5, <1>7, <2>1
<1>9. q.id = s /\ q.todo = req[r].todo /\ q.at = t
  OBVIOUS
<1>10. op = "mark" \/ marked[s] = "clean" => q.copy.verified
  BY <1>2, <1>6
<1> HIDE DEF s, rec, op, t
<1>11. Head(q.todo) = op
  BY <1>9 DEF op
<1> QED
  BY <1>2, <1>3, <1>5, <1>6, <1>8, <1>9, <1>10, <1>11 DEF CopyOK

LEMMA GetOK ==
    ASSUME SessionInv, NEW r \in Requests, Get(r)
    PROVE  SessionInv'
<1>1. /\ req[r].todo # <<>> /\ Head(req[r].todo) \in {"touch", "get", "mark"}
      /\ UNCHANGED <<now, redis, cookie, born, used, gone, marked>>
  BY DEF Get, Op
<1>2. /\ req[r] \in Request /\ req \in [Requests -> Request] /\ req[r].id \in Ids
      /\ redis[req[r].id].rec \in Session /\ req[r].at \in Nat
  BY <1>1, HandlerTypes DEF SessionInv
<1>3. HandlerOK(req[r])
  BY DEF SessionInv
<1>4. CASE ~Stored(req[r].id)
  BY <1>1, <1>4, AbortOK DEF Get
<1>5. CASE Stored(req[r].id) /\ ~validAt(redis[req[r].id].rec, req[r].at)
  <2>1. req' = [req EXCEPT ![r].pc = "drop"]
    BY <1>5 DEF Get, Found
  <2>2. PICK q \in Request : /\ req' = [req EXCEPT ![r] = q] /\ q.id = req[r].id
                             /\ q.todo = req[r].todo /\ q.at = req[r].at /\ q.pc = "drop"
    <3> DEFINE new == [req[r] EXCEPT !.pc = "drop"]
    <3>1. /\ new \in Request /\ new.id = req[r].id /\ new.todo = req[r].todo
          /\ new.at = req[r].at /\ new.pc = "drop"
      BY <1>2 DEF Request
    <3>2. req' = [req EXCEPT ![r] = new]
      BY <2>1
    <3> HIDE DEF new
    <3> QED
      BY <3>1, <3>2
  <2>3. HandlerOK(q)
    BY <1>3, <2>2 DEF HandlerOK
  <2> QED
    BY <1>1, <1>2, <2>2, <2>3, OneRequest
<1>6. CASE /\ Stored(req[r].id) /\ validAt(redis[req[r].id].rec, req[r].at)
           /\ Head(req[r].todo) = "get"
  <2>1. Continue(r)
    BY <1>6 DEF Get, Found, Op
  <2> QED
    BY <1>1, <1>6, <2>1, ContinueOK
<1>7. CASE /\ Stored(req[r].id) /\ validAt(redis[req[r].id].rec, req[r].at)
           /\ Head(req[r].todo) # "get"
  <2> DEFINE c == Renewed(Head(req[r].todo), redis[req[r].id].rec, req[r].at)
  <2>1. req' = [req EXCEPT ![r].pc = "write", ![r].copy = c]
    BY <1>7 DEF Get, Found, Op
  <2>2. c \in Session
    BY <1>2, RenewedRecord
  <2>3. PICK q \in Request : /\ req' = [req EXCEPT ![r] = q] /\ q.id = req[r].id
                             /\ q.todo = req[r].todo /\ q.at = req[r].at /\ q.copy = c
    <3> HIDE DEF c
    <3> DEFINE new == [req[r] EXCEPT !.pc = "write", !.copy = c]
    <3>1. /\ new \in Request /\ new.id = req[r].id /\ new.todo = req[r].todo
          /\ new.at = req[r].at /\ new.copy = c
      BY <1>2, <2>2 DEF Request
    <3>2. req' = [req EXCEPT ![r] = new]
      BY <2>1
    <3> HIDE DEF new
    <3> QED
      BY <3>1, <3>2
  <2>4. CopyOK(q)
    BY <1>1, <1>7, <2>3, AcceptedCopy
  <2>5. HandlerOK(q)
    BY <1>3, <2>3, <2>4 DEF HandlerOK
  <2> QED
    BY <1>1, <1>2, <2>3, <2>5, OneRequest
<1> QED
  BY <1>4, <1>5, <1>6, <1>7

\* A step that changes request r and the records, but moves no record's user:
\* what the other requests rely on is kept by the hypotheses.
LEMMA OtherHandlers ==
    ASSUME SessionInv, NEW r \in Requests, NEW q \in Request,
           req' = [req EXCEPT ![r] = q],
           q.id \in {None, req[r].id}, q.todo # <<>> => Head(q.todo) # "create"
    PROVE  /\ req' \in [Requests -> Request]
           /\ \A p \in Requests : req'[p] = IF p = r THEN q ELSE req[p]
           /\ CreatedAlone'
<1>1. req' \in [Requests -> Request] /\ \A p \in Requests : req'[p] = IF p = r THEN q ELSE req[p]
  BY HandlerTypes DEF SessionInv
<1>2. CreatedAlone'
  <2> SUFFICES ASSUME NEW p1 \in Requests, NEW p2 \in Requests, p1 # p2,
                      req'[p1].todo # <<>>, Head(req'[p1].todo) = "create"
               PROVE  req'[p2].id # req'[p1].id
    BY DEF CreatedAlone
  <2>1. p1 # r /\ req'[p1] = req[p1]
    BY <1>1
  <2>2. req[p1].id \in Ids /\ None \notin Ids
    BY <2>1, HandlerTypes, SessionAssumptions DEF SessionInv
  <2> QED
    BY <1>1, <2>1, <2>2 DEF SessionInv, CreatedAlone
<1> QED
  BY <1>1, <1>2

\* The key of a session is removed, by Get or by a logout.
LEMMA RemovedOK ==
    ASSUME SessionInv, NEW r \in Requests, req[r].todo # <<>>, Abort(r),
           redis' = [redis EXCEPT ![req[r].id].until = 0],
           cookie' \in {cookie, [id |-> None, until |-> 0]},
           gone' = gone \/
               /\ redis[req[r].id].rec.user # None
               /\ gone' = [gone EXCEPT ![req[r].id] = IF Racing(r, req[r].id) THEN "raced" ELSE "clean"],
           UNCHANGED <<now, born, used, marked>>
    PROVE  SessionInv'
<1> DEFINE s == req[r].id
<1>1. s \in Ids /\ s # None
  BY HandlerTypes, SessionAssumptions DEF SessionInv
<1>2. /\ req' \in [Requests -> Request]
      /\ \A p \in Requests : req'[p] = IF p = r THEN Idle ELSE req[p]
      /\ CreatedAlone'
  BY Values, OtherHandlers DEF Abort
<1>3. /\ redis' \in [Ids -> [rec : Session, until : Nat]]
      /\ redis'[s].until = 0 /\ redis'[s].rec = redis[s].rec
      /\ \A x \in Ids : x # s => redis'[x] = redis[x]
  <2> DEFINE new == [redis[s] EXCEPT !.until = 0]
  <2>1. redis \in [Ids -> [rec : Session, until : Nat]]
    BY DEF SessionInv, TypeOK
  <2>2. redis[s] \in [rec : Session, until : Nat]
    BY <1>1, <2>1
  <2>3. new \in [rec : Session, until : Nat] /\ new.until = 0 /\ new.rec = redis[s].rec
    BY <2>2
  <2>4. redis' = [redis EXCEPT ![s] = new]
    OBVIOUS
  <2> HIDE DEF new, s
  <2>5. redis' \in [Ids -> [rec : Session, until : Nat]]
    BY <1>1, <2>1, <2>3, <2>4
  <2>6. redis'[s] = new /\ \A x \in Ids : x # s => redis'[x] = redis[x]
    BY <1>1, <2>1, <2>4
  <2> QED
    BY <2>3, <2>5, <2>6
<1>4. /\ gone' \in [Ids -> Outcome]
      /\ \A x \in Ids : x # s => gone'[x] = gone[x]
      /\ gone'[s] = "clean" => gone[s] = "clean" \/ ~Racing(r, s)
      /\ gone'[s] # gone[s] => redis[s].rec.user # None
  BY <1>1 DEF SessionInv, TypeOK, Outcome
<1>5. cookie' \in [id : Ids \cup {None}, until : Nat] /\ cookie'.id \in {None, cookie.id}
  BY DEF SessionInv, TypeOK
<1>6. TypeOK'
  <2>1. \A p \in Requests : req'[p].todo # <<>> => req'[p].id \in Ids
    BY <1>2, Values, HandlerTypes DEF SessionInv
  <2> QED
    BY <1>2, <1>3, <1>4, <1>5, <2>1 DEF SessionInv, TypeOK
<1>7. ASSUME NEW x \in Ids PROVE RecordOK(x)'
  <2>1. RecordOK(x) /\ now \in Nat /\ None \notin Ids
    BY SessionAssumptions DEF SessionInv, TypeOK
  <2>2. CASE x = s
    BY <1>3, <1>4, <1>5, <2>1, <2>2 DEF RecordOK
  <2>3. CASE x # s
    BY <1>3, <1>4, <1>5, <2>1, <2>3 DEF RecordOK
  <2> QED
    BY <2>2, <2>3
<1>8. ASSUME NEW p \in Requests PROVE HandlerOK(req[p])'
  <2>1. CASE p = r
    <3>1. req'[p].todo = <<>>
      BY <1>2, <2>1, Values
    <3> QED
      BY <3>1 DEF HandlerOK
  <2>2. CASE p # r
    <3>1. req'[p] = req[p] /\ HandlerOK(req[p])
      BY <1>2, <2>2 DEF SessionInv
    <3>2. CASE req[p].todo = <<>>
      BY <3>1, <3>2 DEF HandlerOK
    <3>3. CASE req[p].todo # <<>>
      <4>1. req[p].id \in Ids /\ redis'[req[p].id].rec = redis[req[p].id].rec
        BY <1>3, <3>3, HandlerTypes DEF SessionInv
      <4>2. ASSUME req[p].pc = "write" PROVE gone'[req[p].id] # "clean"
        <5>1. gone[req[p].id] # "clean"
          BY <3>1, <3>3, <4>2 DEF HandlerOK, CopyOK
        <5>2. CASE req[p].id = s
          <6>1. Racing(r, s)
            BY <2>2, <3>3, <4>2, <5>2 DEF Racing, Pending
          <6> QED
            BY <1>4, <5>1, <5>2, <6>1
        <5>3. CASE req[p].id # s
          BY <1>4, <4>1, <5>1, <5>3
        <5> QED
          BY <5>2, <5>3
      <4> QED
        BY <3>1, <3>3, <4>1, <4>2 DEF HandlerOK, CopyOK
    <3> QED
      BY <3>2, <3>3
  <2> QED
    BY <2>1, <2>2
<1> QED
  BY <1>2, <1>6, <1>7, <1>8 DEF SessionInv

LEMMA DropExpiredOK ==
    ASSUME SessionInv, NEW r \in Requests, DropExpired(r)
    PROVE  SessionInv'
  BY RemovedOK DEF DropExpired

LEMMA LogoutOK ==
    ASSUME SessionInv, NEW r \in Requests, Logout(r)
    PROVE  SessionInv'
<1>1. /\ req[r].todo # <<>> /\ Head(req[r].todo) = "delete" /\ Abort(r)
      /\ cookie' = [id |-> None, until |-> 0] /\ UNCHANGED <<now, born, used, marked>>
  BY DEF Logout, Op
<1>2. redis[req[r].id].rec.user # None
  BY <1>1 DEF SessionInv, HandlerOK
<1>3. CASE redis' = [redis EXCEPT ![req[r].id].until = 0]
  BY <1>1, <1>2, <1>3, RemovedOK DEF Logout
<1>4. CASE redis' = redis /\ gone' = gone
  <2>1. /\ req' \in [Requests -> Request]
        /\ \A p \in Requests : req'[p] = IF p = r THEN Idle ELSE req[p]
        /\ CreatedAlone'
    BY <1>1, Values, OtherHandlers DEF Abort
  <2>2. \A p \in Requests : req'[p].todo # <<>> => req'[p] = req[p]
    BY <2>1, Values
  <2>3. cookie' \in [id : Ids \cup {None}, until : Nat] /\ cookie'.id = None
    BY <1>1
  <2>4. TypeOK'
    BY <1>1, <1>4, <2>1, <2>2, <2>3 DEF SessionInv, TypeOK
  <2>5. ASSUME NEW x \in Ids PROVE RecordOK(x)'
    <3>1. RecordOK(x) /\ x # None
      BY SessionAssumptions DEF SessionInv
    <3> QED
      BY <1>1, <1>4, <2>3, <3>1 DEF RecordOK
  <2>6. ASSUME NEW p \in Requests PROVE HandlerOK(req[p])'
    <3>1. req'[p].todo # <<>> => HandlerOK(req'[p])
      BY <2>2 DEF SessionInv
    <3> QED
      BY <1>1, <1>4, <3>1 DEF HandlerOK, CopyOK
  <2> QED
    BY <2>1, <2>4, <2>5, <2>6 DEF SessionInv
<1> QED
  BY <1>3, <1>4 DEF Logout

LEMMA TurnstileOK ==
    ASSUME SessionInv, NEW r \in Requests, Turnstile(r)
    PROVE  SessionInv'
  BY AbortOK, ContinueOK DEF Turnstile, Op

LEMMA FailOK ==
    ASSUME SessionInv, NEW r \in Requests, Fail(r)
    PROVE  SessionInv'
  BY AbortOK DEF Fail

LEMMA TickOK ==
    ASSUME SessionInv, Tick
    PROVE  SessionInv'
<1>1. now \in Nat /\ now' = now + 1 /\ UNCHANGED <<redis, cookie, req, born, used, gone, marked>>
  BY DEF Tick, SessionInv, TypeOK
<1>2. TypeOK'
  BY <1>1 DEF SessionInv, TypeOK
<1>3. ASSUME NEW x \in Ids PROVE RecordOK(x)'
  <2>1. RecordOK(x) /\ redis[x].until \in Nat
    BY DEF SessionInv, TypeOK
  <2> QED
    BY <1>1, <2>1 DEF RecordOK
<1>4. ASSUME NEW p \in Requests PROVE HandlerOK(req[p])'
  <2>1. HandlerOK(req[p]) /\ req[p].at \in Nat
    BY HandlerTypes DEF SessionInv
  <2> QED
    BY <1>1, <2>1 DEF HandlerOK, CopyOK
<1>5. CreatedAlone'
  BY <1>1 DEF SessionInv, CreatedAlone
<1> QED
  BY <1>2, <1>3, <1>4, <1>5 DEF SessionInv

\* What a SET leaves of the request: it ends, or goes on with its next call.
LEMMA AfterSave ==
    ASSUME SessionInv, NEW r \in Requests, req[r].todo # <<>>, Continue(r) \/ Abort(r)
    PROVE  \E q \in Request :
             /\ req' = [req EXCEPT ![r] = q]
             /\ q.id \in {None, req[r].id}
             /\ q.todo # <<>> => /\ q.id = req[r].id /\ q.pc = "call" /\ q.at = now
                                /\ Head(q.todo) # "create"
                                /\ \A i \in 2..Len(q.todo) : q.todo[i] # "create"
<1>1. CASE req' = [req EXCEPT ![r] = Idle]
  BY <1>1, Values
<1>2. CASE req' # [req EXCEPT ![r] = Idle]
  <2>1. PICK q \in Request :
          /\ req' = [req EXCEPT ![r] = q]
          /\ q.id = req[r].id /\ q.pc = "call" /\ q.at = now
          /\ q.todo # <<>> /\ \A i \in 1..Len(q.todo) : q.todo[i] # "create"
    BY <1>2, ContinueCases DEF Abort
  <2>2. q.todo \in Seq(Ops) /\ Len(q.todo) \in Nat /\ Head(q.todo) = q.todo[1] /\ Len(q.todo) >= 1
    BY <2>1, HeadTailProperties, LenProperties DEF Request
  <2>3. Head(q.todo) # "create" /\ \A i \in 2..Len(q.todo) : q.todo[i] # "create"
    BY <2>1, <2>2
  <2> QED
    BY <2>1, <2>3
<1> QED
  BY <1>1, <1>2

\* A SET: the copy becomes the record, and the time to live covers its expiry.
LEMMA SaveOK ==
    ASSUME SessionInv, NEW r \in Requests, Save(r)
    PROVE  SessionInv'
<1> DEFINE s == req[r].id  c == req[r].copy  t == req[r].at  op == Head(req[r].todo)
           u == now + (c.expires - t)
<1>1. /\ req[r].todo # <<>> /\ req[r].pc = "write" /\ c.expires - t > 0
      /\ redis' = [redis EXCEPT ![s] = [rec |-> c, until |-> u]]
      /\ used' = [used EXCEPT ![s] = greatest(used[s], t)]
      /\ marked' = [marked EXCEPT ![s] = IF op # "mark" THEN marked[s]
                        ELSE IF RacingUnverified(r, s) THEN "raced" ELSE "clean"]
      /\ Continue(r) \/ Abort(r)
      /\ cookie' \in {cookie, [id |-> s, until |-> greatest(c.expires, now + 1)]}
      /\ UNCHANGED <<now, born, gone>>
  BY DEF Save, ttl, Op
<1>2. s \in Ids /\ c \in Session /\ t \in Nat /\ now \in Nat /\ born[s] \in Nat /\ used[s] \in Nat
  BY <1>1, HandlerTypes DEF SessionInv, TypeOK
<1>3. c.expires \in Nat /\ u \in Nat
  BY <1>1, <1>2 DEF Session
<1>4. CopyOK(req[r]) /\ t <= now
  BY <1>1 DEF SessionInv, HandlerOK
<1>5. PICK q \in Request :
        /\ req' = [req EXCEPT ![r] = q]
        /\ q.id \in {None, req[r].id}
        /\ q.todo # <<>> => /\ q.id = req[r].id /\ q.pc = "call" /\ q.at = now
                           /\ Head(q.todo) # "create"
                           /\ \A i \in 2..Len(q.todo) : q.todo[i] # "create"
  BY <1>1, AfterSave
<1>6. /\ req' \in [Requests -> Request]
      /\ \A p \in Requests : req'[p] = IF p = r THEN q ELSE req[p]
      /\ CreatedAlone'
  BY <1>5, OtherHandlers
<1>7. /\ redis' \in [Ids -> [rec : Session, until : Nat]]
      /\ redis'[s].rec = c /\ redis'[s].until = u
      /\ \A x \in Ids : x # s => redis'[x] = redis[x]
  <2>1. redis \in [Ids -> [rec : Session, until : Nat]]
    BY DEF SessionInv, TypeOK
  <2> HIDE DEF s, c, u
  <2> QED
    BY <1>1, <1>2, <1>3, <2>1
<1>8. /\ used' \in [Ids -> Nat] /\ used'[s] = greatest(used[s], t)
      /\ \A x \in Ids : x # s => used'[x] = used[x]
  <2>1. used \in [Ids -> Nat] /\ greatest(used[s], t) \in Nat
    BY <1>2 DEF SessionInv, TypeOK, greatest
  <2> HIDE DEF s, t
  <2> QED
    BY <1>1, <1>2, <2>1
<1>9. used'[s] \in Nat /\ used'[s] >= t /\ used'[s] >= used[s]
  BY <1>2, <1>8 DEF greatest
<1>10. /\ marked' \in [Ids -> Outcome]
       /\ \A x \in Ids : x # s => marked'[x] = marked[x]
       /\ marked'[s] = "clean" =>
              \/ op # "mark" /\ marked[s] = "clean"
              \/ op = "mark" /\ ~RacingUnverified(r, s)
  <2>1. marked \in [Ids -> Outcome]
    BY DEF SessionInv, TypeOK
  <2> HIDE DEF s, op
  <2> QED
    BY <1>1, <1>2, <2>1 DEF Outcome
<1>11. cookie' \in [id : Ids \cup {None}, until : Nat] /\ cookie'.id \in {cookie.id, s}
  <2>1. greatest(c.expires, now + 1) \in Nat
    BY <1>2, <1>3 DEF greatest
  <2>2. cookie \in [id : Ids \cup {None}, until : Nat]
    BY DEF SessionInv, TypeOK
  <2> HIDE DEF s, c
  <2> QED
    BY <1>1, <1>2, <2>1, <2>2
<1>12. TypeOK'
  <2>1. \A p \in Requests : req'[p].todo # <<>> => req'[p].id \in Ids
    BY <1>2, <1>5, <1>6, HandlerTypes DEF SessionInv
  <2> QED
    BY <1>1, <1>6, <1>7, <1>8, <1>10, <1>11, <2>1 DEF SessionInv, TypeOK
<1>13. /\ c.user # None /\ c.absolute = born[s] + Absolute /\ c.expires <= t + Sliding
       /\ gone[s] # "clean" /\ (op = "mark" \/ marked[s] = "clean" => c.verified)
  BY <1>4 DEF CopyOK
<1>14. c.expires <= used'[s] + Sliding /\ c.expires <= u
  <2>1. Sliding \in Nat
    BY SessionAssumptions
  <2>2. c.expires <= u
    BY <1>2, <1>3, <1>4
  <2> HIDE DEF s, c, t, u
  <2> QED
    BY <1>2, <1>3, <1>9, <1>13, <2>1, <2>2
<1>15. marked'[s] = "clean" => c.verified
  <2> HIDE DEF s, c, op
  <2> QED
    BY <1>10, <1>13
<1>16. ASSUME NEW x \in Ids PROVE RecordOK(x)'
  <2>1. CASE x = s
    <3> HIDE DEF s, c, t, op, u
    <3> QED
      BY <1>1, <1>7, <1>13, <1>14, <1>15, <2>1 DEF RecordOK
  <2>2. CASE x # s
    <3>1. RecordOK(x)
      BY DEF SessionInv
    <3> HIDE DEF s, c, t, op, u
    <3> QED
      BY <1>1, <1>7, <1>8, <1>10, <1>11, <2>2, <3>1 DEF RecordOK
  <2> QED
    BY <2>1, <2>2
<1>17. ASSUME NEW p \in Requests PROVE HandlerOK(req[p])'
  <2>1. CASE p = r
    <3>1. req'[p] = q
      BY <1>6, <2>1
    <3>2. CASE q.todo = <<>>
      BY <3>1, <3>2 DEF HandlerOK
    <3>3. CASE q.todo # <<>>
      <4>1. q.id = s /\ q.pc = "call" /\ q.at = now /\ Head(q.todo) # "create"
            /\ \A i \in 2..Len(q.todo) : q.todo[i] # "create"
        BY <1>5, <3>3
      <4> HIDE DEF s, c, t, op, u
      <4> QED
        BY <1>1, <1>2, <1>7, <1>13, <3>1, <4>1 DEF HandlerOK
    <3> QED
      BY <3>2, <3>3
  <2>2. CASE p # r /\ req[p].todo = <<>>
    BY <1>6, <2>2 DEF HandlerOK
  <2>3. CASE p # r /\ req[p].todo # <<>>
    <3>1. req'[p] = req[p] /\ HandlerOK(req[p]) /\ req[p].id \in Ids /\ req[p].at \in Nat
      BY <1>6, <2>3, HandlerTypes DEF SessionInv
    <3>2. CASE req[p].id # s
      <4>1. /\ redis'[req[p].id] = redis[req[p].id] /\ used'[req[p].id] = used[req[p].id]
            /\ marked'[req[p].id] = marked[req[p].id]
        BY <1>7, <1>8, <1>10, <3>1, <3>2
      <4> QED
        BY <1>1, <2>3, <3>1, <4>1 DEF HandlerOK, CopyOK
    <3>3. CASE req[p].id = s
      <4>1. op # "create"
        BY <1>1, <2>3, <3>3 DEF SessionInv, CreatedAlone
      <4>2. redis[s].rec.user # None
        BY <1>1, <4>1 DEF SessionInv, HandlerOK
      <4>3. Head(req[p].todo) # "create" /\ req[p].at <= now
            /\ \A i \in 2..Len(req[p].todo) : req[p].todo[i] # "create"
        BY <2>3, <3>1, <3>3, <4>2 DEF HandlerOK
      <4>4. ASSUME req[p].pc = "write" PROVE CopyOK(req[p])'
        <5>1. CopyOK(req[p])
          BY <2>3, <3>1, <4>4 DEF HandlerOK
        <5>2. marked'[s] = "clean" => req[p].copy.verified
          <6>1. op = "mark" /\ ~RacingUnverified(r, s) => req[p].copy.verified
            BY <2>3, <3>3, <4>4 DEF RacingUnverified, Pending
          <6>2. marked[s] = "clean" => req[p].copy.verified
            BY <3>3, <5>1 DEF CopyOK
          <6> HIDE DEF s, op
          <6> QED
            BY <1>10, <6>1, <6>2
        <5>3. req[p].at < used'[s] + Sliding
          <6>1. req[p].at < used[s] + Sliding /\ Sliding \in Nat
            BY <3>3, <4>3, <5>1, SessionAssumptions DEF CopyOK
          <6> HIDE DEF s, t
          <6> QED
            BY <1>2, <1>9, <3>1, <6>1
        <5>4. Head(req[p].todo) # "mark" \/ req[p].copy.verified
          BY <5>1 DEF CopyOK
        <5> HIDE DEF s, c, t, op, u
        <5> QED
          BY <1>1, <3>1, <3>3, <5>1, <5>2, <5>3, <5>4 DEF CopyOK
      <4> HIDE DEF s, c, t, op, u
      <4> QED
        BY <1>1, <1>7, <1>13, <2>3, <3>1, <3>3, <4>3, <4>4 DEF HandlerOK
    <3> QED
      BY <3>2, <3>3
  <2> QED
    BY <2>1, <2>2, <2>3
<1> QED
  BY <1>6, <1>12, <1>16, <1>17 DEF SessionInv

LEMMA SessionNext == SessionInv /\ [Next]_vars => SessionInv'
<1> SUFFICES ASSUME SessionInv, [Next]_vars PROVE SessionInv'
  OBVIOUS
<1>1. CASE UNCHANGED vars
  BY <1>1 DEF vars, SessionInv, TypeOK, RecordOK, HandlerOK, CopyOK, CreatedAlone
<1>2. ASSUME NEW r \in Requests,
             \/ me(r) \/ home(r) \/ showHomeVerification(r) \/ verifyHome(r)
             \/ \E token \in Ids : logout(r, token)
      PROVE  SessionInv'
  BY <1>2, ArriveOK DEF me, home, showHomeVerification, verifyHome, logout
<1>3. ASSUME NEW r \in Requests, NEW u \in Users, NEW s \in Ids, Establish(r, u, s)
      PROVE  SessionInv'
  BY <1>3, EstablishOK
<1>4. ASSUME NEW r \in Requests,
             Get(r) \/ DropExpired(r) \/ Save(r) \/ Logout(r) \/ Turnstile(r) \/ Fail(r)
      PROVE  SessionInv'
  BY <1>4, GetOK, DropExpiredOK, SaveOK, LogoutOK, TurnstileOK, FailOK
<1>5. CASE Tick
  BY <1>5, TickOK
<1> QED
  BY <1>1, <1>2, <1>3, <1>4, <1>5 DEF Next

LEMMA SessionInvariant == Spec => []SessionInv
  BY SessionInit, SessionNext, PTL DEF Spec

-----------------------------------------------------------------------------
(* Theorems *)

\* The records of the store, the requests and the bookkeeping keep their types.
THEOREM TypeCorrect == Spec => []TypeOK
<1>1. SessionInv => TypeOK
  BY DEF SessionInv
<1> QED
  BY <1>1, SessionInvariant, PTL

\* A confirmed Delete is final unless a request had read the record before:
\* whatever the overlap of Touch, MarkHomeVerified and logout, no other write
\* brings the session back.
THEOREM LogoutIsFinal == Spec => []LogoutFinal
<1>1. SessionInv => LogoutFinal
  BY DEF SessionInv, RecordOK, LogoutFinal, Stored, TypeOK
<1> QED
  BY <1>1, SessionInvariant, PTL

\* What MarkHomeVerified wrote stays in the session as long as it is stored,
\* unless an older copy was in flight when it was written.
THEOREM VerificationKept == Spec => []VerifiedKept
<1>1. SessionInv => VerifiedKept
  BY DEF SessionInv, RecordOK, VerifiedKept, Stored
<1> QED
  BY <1>1, SessionInvariant, PTL

\* However the renewals of a session overlap, none is accepted later than
\* Absolute after its creation.
THEOREM AgeBounded == Spec => []AbsoluteBound
<1>1. SessionInv => AbsoluteBound
  BY DEF SessionInv, HandlerOK, CopyOK, AbsoluteBound, Accepted, Pending, Op
<1> QED
  BY <1>1, SessionInvariant, PTL

\* ... nor when the last written use of the session is Sliding or more ago.
THEOREM IdleTimeBounded == Spec => []IdleBound
<1>1. SessionInv => IdleBound
  BY DEF SessionInv, HandlerOK, CopyOK, IdleBound, Accepted, Pending, Op
<1> QED
  BY <1>1, SessionInvariant, PTL

\* The time to live that save computes from an earlier clock reading never lets
\* Redis drop a key before the expiry of its record.
THEOREM KeysOutlive == Spec => []KeyOutlivesExpiry
<1>1. SessionInv => KeyOutlivesExpiry
  <2> SUFFICES ASSUME SessionInv, NEW s \in Ids, redis[s].until # 0, now < redis[s].rec.expires
               PROVE  redis[s].until > now
    BY DEF KeyOutlivesExpiry, Stored
  <2>1. redis[s].rec.expires <= redis[s].until
    BY DEF SessionInv, RecordOK
  <2>2. redis[s] \in [rec : Session, until : Nat] /\ now \in Nat
    BY DEF SessionInv, TypeOK
  <2>3. redis[s].rec.expires \in Nat /\ redis[s].until \in Nat
    BY <2>2 DEF Session
  <2> QED
    BY <2>1, <2>2, <2>3
<1> QED
  BY <1>1, SessionInvariant, PTL
=============================================================================
