------------------------------ MODULE Sessions ------------------------------
(***************************************************************************)
(* Browser sessions of the portal: the Redis store                         *)
(* (internal/session/redis.go), the cookie handler on top of it            *)
(* (internal/session/http.go) and the pages that use it.                   *)
(*                                                                         *)
(* Touch and MarkHomeVerified are a GET followed by a SET of the changed   *)
(* record; nothing ties the two together, so another request may come      *)
(* between them.  A call carries the time its handler read from the clock  *)
(* before the call (at); Redis expires keys by its own clock (now).        *)
(***************************************************************************)
EXTENDS Integers, Sequences

CONSTANTS
    Ids,        \* session ids (256 random bits, never generated twice)
    Users,      \* subjects
    Requests,   \* HTTP requests that may be in flight at the same time
    None,       \* no session id, no subject
    Sliding,    \* RedisStore.Sliding
    Absolute,   \* RedisStore.Absolute
    MaxTime     \* bound: the last instant

ASSUME SessionAssumptions ==
    /\ None \notin Ids \cup Users
    /\ {Sliding, Absolute, MaxTime} \subseteq Nat
    /\ Sliding > 0 /\ Absolute > 0

VARIABLES
    now,     \* the clock
    redis,   \* id -> stored record; until is when Redis drops the key
    cookie,  \* the session cookie of the browser and when the browser drops it
    req,     \* the requests in flight
    born,    \* id -> when its session was created
    used,    \* id -> the latest use that was written
    gone,    \* id -> whether a logout of it was confirmed
    marked   \* id -> whether its verification was written

vars == <<now, redis, cookie, req, born, used, gone, marked>>

-----------------------------------------------------------------------------
(* Values *)

Session == [user : Users \cup {None}, verified : BOOLEAN, expires : Nat, absolute : Nat]
NoSession == [user |-> None, verified |-> FALSE, expires |-> 0, absolute |-> 0]

\* What happened to an id: nothing; the operation was written while no other
\* request could write back an older record; one could.
Outcome == {"no", "clean", "raced"}

\* The store calls of each page, and the challenge of the verification form.
\* "me" stands for every page that only asks who is logged in.
Program == [callback |-> <<"create">>,
            me       |-> <<"touch">>,
            home     |-> <<"touch", "get">>,
            show     |-> <<"touch", "get">>,
            verify   |-> <<"touch", "turnstile", "mark">>,
            logout   |-> <<"delete">>]

Ops == {"create", "touch", "get", "turnstile", "mark", "delete"}
Request == [id : Ids \cup {None}, todo : Seq(Ops),
            pc : {"call", "write", "drop"}, at : Nat, copy : Session]
Idle == [id |-> None, todo |-> <<>>, pc |-> "call", at |-> 0, copy |-> NoSession]

TypeOK ==
    /\ now \in Nat
    /\ redis \in [Ids -> [rec : Session, until : Nat]]
    /\ cookie \in [id : Ids \cup {None}, until : Nat]
    /\ req \in [Requests -> Request]
    /\ \A r \in Requests : req[r].todo # <<>> => req[r].id \in Ids
    /\ born \in [Ids -> Nat]
    /\ used \in [Ids -> Nat]
    /\ gone \in [Ids -> Outcome]
    /\ marked \in [Ids -> Outcome]

Init ==
    /\ now = 0
    /\ redis = [s \in Ids |-> [rec |-> NoSession, until |-> 0]]
    /\ cookie = [id |-> None, until |-> 0]
    /\ req = [r \in Requests |-> Idle]
    /\ born = [s \in Ids |-> 0]
    /\ used = [s \in Ids |-> 0]
    /\ gone = [s \in Ids |-> "no"]
    /\ marked = [s \in Ids |-> "no"]

-----------------------------------------------------------------------------
(* The record *)

least(m, n) == IF m < n THEN m ELSE n
greatest(m, n) == IF m < n THEN n ELSE m

expiryBackwards(t, sliding, absolute) == least(t - sliding, t + absolute)
\* expiry(now, sliding, absolute)
expiry(t, sliding, absolute) == least(t + sliding, t + absolute)

validAtAbsolute(rec, t) == t < rec.absolute
\* validAt(session, now)
validAt(rec, t) == t < rec.expires /\ t < rec.absolute

newSession(u, t) ==
    [user |-> u, verified |-> FALSE, expires |-> expiry(t, Sliding, Absolute),
     absolute |-> t + Absolute]

renewedWhole(rec, t) ==
    [newSession(rec.user, t) EXCEPT !.verified = rec.verified]
\* The expiry of a session used at t: AbsoluteExpiresAt.Sub(now) is what remains,
\* and the result is capped again.
renewed(rec, t) ==
    [rec EXCEPT !.expires = least(expiry(t, Sliding, rec.absolute - t), rec.absolute)]

RenewedFresh(op, rec, t) ==
    [renewed(rec, t) EXCEPT !.verified = (op = "mark")]
\* The record that Touch and MarkHomeVerified write back.
Renewed(op, rec, t) ==
    IF op = "mark" THEN [renewed(rec, t) EXCEPT !.verified = TRUE] ELSE renewed(rec, t)

ttlRounded(rec, t) == greatest(1, rec.expires - t - 1)
\* The time to live save gives to Redis.
ttl(rec, t) == rec.expires - t

Stored(s) == redis[s].until > now
Pending(r, s) == req[r].todo # <<>> /\ req[r].id = s /\ req[r].pc = "write"

-----------------------------------------------------------------------------
(* Requests *)

Op(r) == Head(req[r].todo)

\* The call is over: the next one starts, with a new reading of the clock.
Continue(r) ==
    req' = [req EXCEPT ![r] =
        IF Len(req[r].todo) > 1
        THEN [id |-> req[r].id, todo |-> Tail(req[r].todo), pc |-> "call", at |-> now,
              copy |-> NoSession]
        ELSE Idle]

\* The handler answers with an error, a redirect to the login or a refusal.
Abort(r) == req' = [req EXCEPT ![r] = Idle]

\* A request of the browser with its cookie.
Arrive(r, page) ==
    /\ req[r].todo = <<>>
    /\ cookie.id # None /\ now < cookie.until
    /\ req' = [req EXCEPT ![r] = [Idle EXCEPT !.id = cookie.id, !.todo = Program[page], !.at = now]]
    /\ UNCHANGED <<now, redis, cookie, born, used, gone, marked>>

\* CSRF.Verify: the token of the form was made for the session of the cookie.
csrfValid(s, token) == token = s

me(r) == Arrive(r, "me")
home(r) == Arrive(r, "home")
showHomeVerification(r) == Arrive(r, "show")
verifyHome(r) == Arrive(r, "verify")
logout(r, token) == csrfValid(cookie.id, token) /\ Arrive(r, "logout")

\* The login callback: Establish calls Create with a new id.
Establish(r, u, s) ==
    /\ req[r].todo = <<>>
    /\ redis[s].rec = NoSession /\ \A q \in Requests : req[q].id # s
    /\ born' = [born EXCEPT ![s] = now]
    /\ req' = [req EXCEPT ![r] = [id |-> s, todo |-> Program["callback"], pc |-> "write",
                                  at |-> now, copy |-> newSession(u, now)]]
    /\ UNCHANGED <<now, redis, cookie, used, gone, marked>>

\* What Get does with a record it found: it is used, or dropped if it expired.
Found(r, rec) ==
    IF ~validAt(rec, req[r].at) THEN req' = [req EXCEPT ![r].pc = "drop"]
    ELSE IF Op(r) = "get" THEN Continue(r)
    ELSE req' = [req EXCEPT ![r].pc = "write", ![r].copy = Renewed(Op(r), rec, req[r].at)]

GetIgnoringMiss(r) ==
    /\ req[r].todo # <<>> /\ Op(r) \in {"touch", "get", "mark"} /\ req[r].pc = "call"
    /\ Found(r, redis[req[r].id].rec)
    /\ UNCHANGED <<now, redis, cookie, born, used, gone, marked>>
\* Get, and the first half of Touch and MarkHomeVerified.
Get(r) ==
    /\ req[r].todo # <<>> /\ Op(r) \in {"touch", "get", "mark"} /\ req[r].pc = "call"
    /\ IF Stored(req[r].id) THEN Found(r, redis[req[r].id].rec) ELSE Abort(r)
    /\ UNCHANGED <<now, redis, cookie, born, used, gone, marked>>

\* Get removes a record that is no longer valid.
DropExpired(r) ==
    /\ req[r].todo # <<>> /\ req[r].pc = "drop"
    /\ redis' = [redis EXCEPT ![req[r].id].until = 0]
    /\ Abort(r)
    /\ UNCHANGED <<now, cookie, born, used, gone, marked>>

\* Another request is going to write the record of s back.
Racing(r, s) == \E q \in Requests \ {r} : Pending(q, s)
RacingUnverified(r, s) == \E q \in Requests \ {r} : Pending(q, s) /\ ~req[q].copy.verified

\* save.  The SET may take effect and its answer be lost.
Save(r) ==
    LET s == req[r].id  copy == req[r].copy  life == ttl(copy, req[r].at)
    IN  /\ req[r].todo # <<>> /\ req[r].pc = "write"
        /\ life > 0
        /\ redis' = [redis EXCEPT ![s] = [rec |-> copy, until |-> now + life]]
        /\ used' = [used EXCEPT ![s] = greatest(@, req[r].at)]
        /\ marked' = [marked EXCEPT ![s] =
               IF Op(r) # "mark" THEN @
               ELSE IF RacingUnverified(r, s) THEN "raced" ELSE "clean"]
        /\ \/ /\ Continue(r)
              /\ cookie' = IF Op(r) = "create"
                           THEN [id |-> s, until |-> greatest(copy.expires, now + 1)]
                           ELSE cookie
           \/ Abort(r) /\ UNCHANGED cookie
        /\ UNCHANGED <<now, born, gone>>

\* Logout deletes the session and clears the cookie, whatever Redis answers.
\* Only a confirmed deletion is reported to the user.
Logout(r) ==
    LET s == req[r].id
    IN  /\ req[r].todo # <<>> /\ Op(r) = "delete"
        /\ cookie' = [id |-> None, until |-> 0]
        /\ \/ /\ redis' = [redis EXCEPT ![s].until = 0]
              /\ gone' = [gone EXCEPT ![s] = IF Racing(r, s) THEN "raced" ELSE "clean"]
           \/ redis' \in {redis, [redis EXCEPT ![s].until = 0]} /\ UNCHANGED gone
        /\ Abort(r)
        /\ UNCHANGED <<now, born, used, marked>>

\* The token of the form and then turnstile.Verify accept the request or not.
Turnstile(r) ==
    /\ req[r].todo # <<>> /\ Op(r) = "turnstile"
    /\ Continue(r) \/ Abort(r)
    /\ UNCHANGED <<now, redis, cookie, born, used, gone, marked>>

\* A call fails without effect, or the browser goes away and cancels it.  The
\* deletion is detached from the request (context.WithoutCancel).
Fail(r) ==
    /\ req[r].todo # <<>> /\ Op(r) # "delete"
    /\ Abort(r)
    /\ UNCHANGED <<now, redis, cookie, born, used, gone, marked>>

Tick ==
    /\ now < MaxTime
    /\ now' = now + 1
    /\ UNCHANGED <<redis, cookie, req, born, used, gone, marked>>

Next ==
    \/ \E r \in Requests :
        \/ me(r) \/ home(r) \/ showHomeVerification(r) \/ verifyHome(r)
        \/ \E token \in Ids : logout(r, token)
        \/ \E u \in Users, s \in Ids : Establish(r, u, s)
        \/ Get(r) \/ DropExpired(r) \/ Save(r) \/ Logout(r) \/ Turnstile(r) \/ Fail(r)
    \/ Tick

Spec == Init /\ [][Next]_vars

-----------------------------------------------------------------------------
(* Properties *)

\* A session that was logged out stays logged out: once Delete is confirmed the
\* id is not readable again, except through a request that had read the record
\* before the deletion and writes it back after (Touch, MarkHomeVerified).
LogoutFinal == \A s \in Ids : gone[s] = "clean" => ~Stored(s)

\* The verification of the home page is kept as long as the session: it is lost
\* only to a Touch that had read the record before MarkHomeVerified wrote it.
VerifiedKept == \A s \in Ids : marked[s] = "clean" /\ Stored(s) => redis[s].rec.verified

Accepted(r) == Pending(r, req[r].id) /\ Op(r) # "create"

\* No request is accepted later than Absolute after the login, however often and
\* with whatever overlap the session was renewed.
AbsoluteBound == \A r \in Requests : Accepted(r) => req[r].at < born[req[r].id] + Absolute

\* No request is accepted when the session was not used for Sliding, also when
\* overlapping requests wrote their renewals out of order.
IdleBound == \A r \in Requests : Accepted(r) => req[r].at < used[req[r].id] + Sliding

\* Redis does not drop a session that is still valid: the time to live counts
\* from the SET, the expiry from the clock reading before the GET.
KeyOutlivesExpiry ==
    \A s \in Ids : redis[s].until # 0 /\ now < redis[s].rec.expires => Stored(s)

\* The browser keeps the cookie of a session that is used and still valid.
CookieKept ==
    cookie.id # None /\ Stored(cookie.id) /\ validAt(redis[cookie.id].rec, now)
        => now < cookie.until
=============================================================================
