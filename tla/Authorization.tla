--------------------------- MODULE Authorization ---------------------------
(***************************************************************************)
(* Authorizing one application: the login callback, the consent form and   *)
(* userinfo.  LoginService, ConsentService and UserInfoService             *)
(* (internal/oauth) and the functions that compose them with               *)
(* DiscourseConnect and the session (cmd/connect/main.go,                  *)
(* internal/httpserver/connect.go, internal/oauth/http.go).                *)
(*                                                                         *)
(* A flow is one authorization request at Hydra, from its login challenge  *)
(* over its consent challenge to its token.  Every call that reads or      *)
(* changes state elsewhere is a step of its own.  What makes the           *)
(* application unavailable is modelled in AppLifecycle, what the portal    *)
(* keeps of a member in Identity, the session records in Sessions and the  *)
(* expiry of login states in OneTime; here they are single steps.          *)
(***************************************************************************)
EXTENDS Integers, Sequences, FiniteSets

CONSTANTS
    Users,       \* subjects
    Flows,       \* authorization requests
    Requests,    \* HTTP requests that may be in flight at the same time
    Scopes,      \* what a request or a form may ask for
    Asked,       \* the sets of scopes that requests and forms name
    None,        \* no user, no flow
    MaxArrivals  \* bound: requests ever made to the portal

allowedScopes == {"openid", "profile", "email", "community", "offline_access"}

ASSUME AuthorizationAssumptions ==
    /\ None \notin Users \cup Flows
    /\ Asked \subseteq SUBSET Scopes
    /\ MaxArrivals \in Nat

VARIABLES
    flow,      \* Hydra: the authorization requests
    client,    \* Hydra: the application's client exists
    app,       \* status of the application's row
    able,      \* user -> CanAuthenticate of the member in Discourse
    session,   \* the subject of the browser's session
    pending,   \* flow (None: a login to the portal only) -> open login states
    consents,  \* user -> scopes of the row of table consents; {} if there is none
    req,       \* the requests in flight
    arrivals,  \* number of requests so far
    allowed,   \* flow -> the decisions that were submitted for it
    undone,    \* user -> a consent was removed after a failed acceptance
    broken     \* user -> a consent was left behind by a fault

vars == <<flow, client, app, able, session, pending, consents, req, arrivals,
          allowed, undone, broken>>
ghosts == <<allowed, undone, broken>>
world == <<client, app, able>>

-----------------------------------------------------------------------------
(* Values *)

FlowStates == {"none", "login", "accepted", "consent", "granted", "denied", "token"}
\* hint is the subject Hydra remembers from an earlier login, granted the scopes
\* of the accepted consent.
Flow == [state : FlowStates, hint : Users \cup {None}, subject : Users \cup {None},
         scope : SUBSET Scopes, granted : SUBSET Scopes]
NoFlow == [state |-> "none", hint |-> None, subject |-> None, scope |-> {}, granted |-> {}]

ProgramGrantFirst ==
    [callback |-> <<"status", "login", "status", "acceptLogin", "establish">>,
     enter    |-> <<"status", "establish">>,
     allow    |-> <<"request", "request", "status", "acceptConsent", "put">>,
     deny     |-> <<"request", "rejectConsent">>,
     userinfo |-> <<"introspect", "app", "status", "claims">>]
\* The calls of each handler, in order.  Request and CurrentStatus are made twice
\* where the handler and the service both make them.
Program == [callback |-> <<"status", "login", "status", "acceptLogin", "establish">>,
            enter    |-> <<"status", "establish">>,
            allow    |-> <<"request", "request", "status", "put", "acceptConsent">>,
            deny     |-> <<"request", "rejectConsent">>,
            userinfo |-> <<"introspect", "app", "status", "claims">>]

Ops == {"status", "login", "acceptLogin", "establish", "request", "put", "acceptConsent",
        "rollback", "rejectConsent", "introspect", "app", "claims"}

\* form: the scopes the form names; approved, ableNow: the application was
\* approved, the member able, at some moment since the request started.
Request == [todo : Seq(Ops), flow : Flows \cup {None}, user : Users \cup {None},
            form : SUBSET Scopes, approved : BOOLEAN, ableNow : BOOLEAN]
Idle == [todo |-> <<>>, flow |-> None, user |-> None, form |-> {},
         approved |-> FALSE, ableNow |-> FALSE]

Decision == [user : Users, scopes : SUBSET Scopes]

TypeOK ==
    /\ flow \in [Flows -> Flow]
    /\ client \in BOOLEAN
    /\ app \in {"approved", "revoked", "deleted"}
    /\ able \in [Users -> BOOLEAN]
    /\ session \in Users \cup {None}
    /\ pending \in [Flows \cup {None} -> Nat]
    /\ consents \in [Users -> SUBSET allowedScopes]
    /\ req \in [Requests -> Request]
    /\ \A r \in Requests : req[r].todo # <<>> => req[r].user \in Users
    /\ arrivals \in 0..MaxArrivals
    /\ allowed \in [Flows -> SUBSET Decision]
    /\ undone \in [Users -> BOOLEAN]
    /\ broken \in [Users -> BOOLEAN]

Init ==
    /\ flow = [f \in Flows |-> NoFlow]
    /\ client = TRUE /\ app = "approved"
    /\ able = [u \in Users |-> TRUE]
    /\ session = None
    /\ pending = [f \in Flows \cup {None} |-> 0]
    /\ consents = [u \in Users |-> {}]
    /\ req = [r \in Requests |-> Idle]
    /\ arrivals = 0
    /\ allowed = [f \in Flows |-> {}]
    /\ undone = [u \in Users |-> FALSE]
    /\ broken = [u \in Users |-> FALSE]

-----------------------------------------------------------------------------
(* Hydra, the application and the members *)

\* The browser comes to Hydra with an authorization request.
Authorize(f, hint, scope) ==
    /\ client /\ flow[f].state = "none"
    /\ flow' = [flow EXCEPT ![f] =
           [NoFlow EXCEPT !.state = "login", !.hint = hint, !.scope = scope]]
    /\ UNCHANGED <<world, session, pending, consents, req, arrivals, ghosts>>

\* The browser follows the redirect of an accepted challenge, which uses it up.
Follow(f) ==
    /\ client
    /\ \/ flow[f].state = "accepted" /\ flow' = [flow EXCEPT ![f].state = "consent"]
       \/ flow[f].state = "granted" /\ flow' = [flow EXCEPT ![f].state = "token"]
    /\ UNCHANGED <<world, session, pending, consents, req, arrivals, ghosts>>

\* A challenge may be answered until its redirect is followed.
loginOpen(f) == client /\ flow[f].state \in {"login", "accepted"}
consentOpen(f) == client /\ flow[f].state \in {"consent", "granted", "denied"}

\* Every request sees that the application or the member was acceptable.
Witness(nowApproved, nowAble) ==
    [r \in Requests |->
        IF req[r].todo = <<>> THEN req[r]
        ELSE [req[r] EXCEPT !.approved = @ \/ nowApproved, !.ableNow = @ \/ nowAble[req[r].user]]]

\* The status of a member changes in Discourse.
ChangeMember(u) ==
    /\ able' = [able EXCEPT ![u] = ~@]
    /\ req' = Witness(FALSE, able')
    /\ UNCHANGED <<flow, client, app, session, pending, consents, arrivals, ghosts>>

\* Revoke and Delete of the application: first the client, then the row; a
\* deleted row takes its consents with it.
RetireApp ==
    /\ \/ client /\ client' = FALSE /\ UNCHANGED <<app, consents>>
       \/ ~client /\ app = "approved" /\ app' = "revoked" /\ UNCHANGED <<client, consents>>
       \/ /\ app = "revoked" /\ app' = "deleted"
          /\ consents' = [u \in Users |-> {}]
          /\ UNCHANGED client
    /\ UNCHANGED <<flow, able, session, pending, req, arrivals, ghosts>>

-----------------------------------------------------------------------------
(* Requests *)

At(r, op) == req[r].todo # <<>> /\ Head(req[r].todo) = op
Next1(r) ==
    IF Len(req[r].todo) > 1 THEN [req[r] EXCEPT !.todo = Tail(@)] ELSE Idle
Continue(r) == req' = [req EXCEPT ![r] = Next1(r)]
Abort(r) == req' = [req EXCEPT ![r] = Idle]

Arrive(r, page, f, u, form) ==
    /\ req[r].todo = <<>>
    /\ arrivals < MaxArrivals /\ arrivals' = arrivals + 1
    /\ req' = [req EXCEPT ![r] =
           [todo |-> Program[page], flow |-> f, user |-> u, form |-> form,
            approved |-> app = "approved", ableNow |-> able[u]]]

\* FilterScopes succeeds.
FilterScopes(scopes) == scopes \subseteq allowedScopes /\ "openid" \in scopes

validLogin(f) == loginOpen(f) /\ app # "deleted" /\ FilterScopes(flow[f].scope)

\* /connect/login with a challenge: LoginService.Begin, then sso.Begin.  It does
\* not ask for the status of the application.
BeginLogin(f) ==
    /\ validLogin(f) /\ pending[f] = 0 /\ arrivals < MaxArrivals
    /\ pending' = [pending EXCEPT ![f] = @ + 1]
    /\ UNCHANGED <<flow, world, session, consents, req, arrivals, ghosts>>

\* /connect/login with a path; also where the consent form sends a browser that
\* has no session.
BeginSessionLogin ==
    /\ pending[None] = 0 /\ arrivals < MaxArrivals
    /\ pending' = [pending EXCEPT ![None] = @ + 1]
    /\ UNCHANGED <<flow, world, session, consents, req, arrivals, ghosts>>

CompleteLoginUnchecked(r, f, u) ==
    /\ pending' = [pending EXCEPT ![f] = @ - 1]
    /\ Arrive(r, IF f = None THEN "enter" ELSE "callback", f, u, {})
    /\ UNCHANGED <<flow, world, session, consents, ghosts>>
\* /connect/callback: sso.Complete takes the login state; u is whoever is logged
\* in to Discourse, and EnsureShadowUser knows or creates its subject.
CompleteLogin(r, f, u) ==
    /\ pending[f] > 0
    /\ pending' = [pending EXCEPT ![f] = @ - 1]
    /\ Arrive(r, IF f = None THEN "enter" ELSE "callback", f, u, {})
    /\ UNCHANGED <<flow, world, session, consents, ghosts>>

\* Hydra has issued the consent challenge of f.
ConsentKnown(f) == flow[f].state \in {"consent", "granted", "denied", "token"}

\* /connect/consent is submitted with the session of the browser.  A form without
\* scopes stands for all that were requested.
submitted(f, form) == IF form = {} THEN flow[f].scope ELSE form
Consent(r, f, form) ==
    /\ session # None /\ ConsentKnown(f)
    /\ Arrive(r, "allow", f, session, submitted(f, form))
    /\ allowed' = [allowed EXCEPT ![f] =
           @ \cup {[user |-> session, scopes |-> submitted(f, form)]}]
    /\ UNCHANGED <<flow, world, session, pending, consents, undone, broken>>

Deny(r, f) ==
    /\ session # None /\ ConsentKnown(f)
    /\ Arrive(r, "deny", f, session, {})
    /\ UNCHANGED <<flow, world, session, pending, consents, ghosts>>

\* The application asks /userinfo with the token of f.
UserInfo(r, f) ==
    /\ flow[f].state = "token"
    /\ Arrive(r, "userinfo", f, flow[f].subject, {})
    /\ UNCHANGED <<flow, world, session, pending, consents, ghosts>>

Logout ==
    /\ session # None /\ session' = None
    /\ UNCHANGED <<flow, world, pending, consents, req, arrivals, ghosts>>

-----------------------------------------------------------------------------
(* Calls that read *)

requestAllowedAnyUser(r) ==
    LET f == req[r].flow
    IN  consentOpen(f) /\ FilterScopes(flow[f].scope) /\ app = "approved"
\* ConsentService.Request, and the comparison with the subject of the challenge
\* that the handler and Accept make after it.
requestAllowed(r) ==
    LET f == req[r].flow
    IN  /\ consentOpen(f) /\ FilterScopes(flow[f].scope)
        /\ app = "approved"
        /\ flow[f].subject = req[r].user

CanAuthenticateAlways(u) == TRUE
CanAuthenticate(u) == able[u]

loginAllowedAnyUser(r) == validLogin(req[r].flow)
\* LoginService.Begin again, and the comparison with the remembered subject.
loginAllowed(r) ==
    LET f == req[r].flow
    IN  validLogin(f) /\ flow[f].hint \in {None, req[r].user}

readAllowed(r) ==
    \/ At(r, "status") /\ CanAuthenticate(req[r].user)
    \/ At(r, "login") /\ loginAllowed(r)
    \/ At(r, "request") /\ requestAllowed(r)
    \/ At(r, "introspect") /\ client
    \/ At(r, "app") /\ app = "approved"
    \/ At(r, "claims") /\ FilterScopes(flow[req[r].flow].granted)

Read(r) ==
    /\ \E op \in {"status", "login", "request", "introspect", "app", "claims"} : At(r, op)
    /\ IF readAllowed(r) THEN Continue(r) ELSE Abort(r)
    /\ UNCHANGED <<flow, world, session, pending, consents, arrivals, ghosts>>

-----------------------------------------------------------------------------
(* Calls that write *)

\* AcceptLogin.  A lost answer ends the callback like a refusal.
AcceptLogin(r) ==
    LET f == req[r].flow
        accepted == [flow EXCEPT ![f].state = "accepted", ![f].subject = req[r].user]
    IN  /\ At(r, "acceptLogin")
        /\ \/ loginOpen(f) /\ flow' = accepted /\ Continue(r)
           \/ loginOpen(f) /\ flow' = accepted /\ Abort(r)
           \/ ~loginOpen(f) /\ Abort(r) /\ UNCHANGED flow
        /\ UNCHANGED <<world, session, pending, consents, arrivals, ghosts>>

Establish(r) ==
    /\ At(r, "establish")
    /\ session' = req[r].user
    /\ Continue(r)
    /\ UNCHANGED <<flow, world, pending, consents, arrivals, ghosts>>

\* Accept checks the scopes of the form and stores the consent; the row must
\* still exist.  The INSERT may take effect and its answer be lost.
Put(r) ==
    LET u == req[r].user  selected == req[r].form
        stored == [consents EXCEPT ![u] = selected]
    IN  /\ At(r, "put")
        /\ IF FilterScopes(selected) /\ selected \subseteq flow[req[r].flow].scope /\ app # "deleted"
           THEN \/ consents' = stored /\ Continue(r) /\ UNCHANGED broken
                \/ /\ consents' = stored /\ Abort(r)
                   /\ broken' = [broken EXCEPT ![u] = TRUE]
           ELSE Abort(r) /\ UNCHANGED <<consents, broken>>
        /\ UNCHANGED <<flow, world, session, pending, arrivals, allowed, undone>>

RollbackSkipped(r) == req' = [req EXCEPT ![r] = Idle]
\* Accept goes on to its rollback.
Rollback(r) == req' = [req EXCEPT ![r].todo = <<"rollback">>]

AcceptConsent(r) ==
    LET f == req[r].flow
        accepted == [flow EXCEPT ![f].state = "granted", ![f].granted = req[r].form]
    IN  /\ At(r, "acceptConsent")
        /\ \/ consentOpen(f) /\ flow' = accepted /\ Continue(r)
           \/ consentOpen(f) /\ flow' \in {flow, accepted} /\ Rollback(r)
           \/ ~consentOpen(f) /\ Rollback(r) /\ UNCHANGED flow
        /\ UNCHANGED <<world, session, pending, consents, arrivals, ghosts>>

\* The consent is deleted, whoever stored it.
RollbackDelete(r) ==
    LET u == req[r].user
    IN  /\ At(r, "rollback")
        /\ consents' = [consents EXCEPT ![u] = {}]
        /\ undone' = [undone EXCEPT ![u] = TRUE]
        /\ Abort(r)
        /\ UNCHANGED <<flow, world, session, pending, arrivals, allowed, broken>>

RejectConsent(r) ==
    LET f == req[r].flow
    IN  /\ At(r, "rejectConsent")
        /\ \/ consentOpen(f) /\ flow' = [flow EXCEPT ![f].state = "denied", ![f].granted = {}]
           \/ ~consentOpen(f) /\ UNCHANGED flow
        /\ Abort(r)
        /\ UNCHANGED <<world, session, pending, consents, arrivals, ghosts>>

\* The row of u may stay although its request ends here.
LeavesConsent(r, u) ==
    req[r].user = u /\ (At(r, "acceptConsent") \/ At(r, "rollback"))

\* A call fails without effect.  AcceptConsent has its own outcome for that.
Fail(r) ==
    /\ req[r].todo # <<>> /\ ~At(r, "acceptConsent")
    /\ Abort(r)
    /\ broken' = [u \in Users |-> broken[u] \/ LeavesConsent(r, u)]
    /\ UNCHANGED <<flow, world, session, pending, consents, arrivals, allowed, undone>>

\* The portal is restarted: requests and login states are lost.
Restart ==
    /\ req' = [r \in Requests |-> Idle]
    /\ pending' = [f \in Flows \cup {None} |-> 0]
    /\ broken' = [u \in Users |-> broken[u] \/ \E r \in Requests : LeavesConsent(r, u)]
    /\ UNCHANGED <<flow, world, session, consents, arrivals, allowed, undone>>

-----------------------------------------------------------------------------
Next ==
    \/ \E f \in Flows :
        \/ \E hint \in Users \cup {None}, scope \in Asked : Authorize(f, hint, scope)
        \/ Follow(f) \/ BeginLogin(f)
    \/ \E u \in Users : ChangeMember(u)
    \/ RetireApp \/ BeginSessionLogin \/ Logout \/ Restart
    \/ \E r \in Requests :
        \/ \E f \in Flows \cup {None}, u \in Users : CompleteLogin(r, f, u)
        \/ \E f \in Flows :
            \/ \E form \in Asked \cup {{}} : Consent(r, f, form)
            \/ Deny(r, f) \/ UserInfo(r, f)
        \/ Read(r) \/ AcceptLogin(r) \/ Establish(r) \/ Put(r) \/ AcceptConsent(r)
        \/ RollbackDelete(r) \/ RejectConsent(r) \/ Fail(r)

Spec == Init /\ [][Next]_vars

-----------------------------------------------------------------------------
(* Properties *)

Granted(f) == flow[f].state \in {"granted", "token"}

\* A token carries only scopes that its own subject allowed, for this request, in
\* the consent form: not what another user of the same browser submitted, nor what
\* was requested and not allowed.
GrantedByOwner ==
    \A f \in Flows : Granted(f) =>
        \E d \in allowed[f] : d.user = flow[f].subject /\ flow[f].granted \subseteq d.scopes

\* A login is accepted at Hydra only for the subject Hydra remembers, if it does.
LoginAsRemembered ==
    \A f \in Flows : flow[f].subject # None => flow[f].hint \in {None, flow[f].subject}

\* A request gets to change Hydra, store a consent or release claims only if the
\* member could authenticate, and for consents and claims the application was
\* approved, at some moment while the request was served.
ServedWhileAllowed ==
    \A r \in Requests :
        /\ At(r, "acceptLogin") \/ At(r, "put") \/ At(r, "claims") => req[r].ableNow
        /\ At(r, "put") \/ At(r, "claims") => req[r].approved

\* A grant at Hydra has its consent in the database, as long as the application
\* exists and no acceptance of the same user ever failed: a failed one deletes the
\* row, also if it belongs to an earlier grant.
ConsentRecorded ==
    app # "deleted" =>
        \A f \in Flows : Granted(f) /\ ~undone[flow[f].subject] => consents[flow[f].subject] # {}

\* A consent in the database has a grant at Hydra or one its user denied again,
\* or the request that stored it still runs; otherwise a fault hit that request
\* between the two.
ConsentBacked ==
    \A u \in Users : consents[u] # {} =>
        \/ \E f \in Flows : flow[f].subject = u /\ (Granted(f) \/ flow[f].state = "denied")
        \/ \E r \in Requests : LeavesConsent(r, u)
        \/ broken[u]
=============================================================================
