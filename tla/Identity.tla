------------------------------ MODULE Identity ------------------------------
(***************************************************************************)
(* What the portal knows of one Discourse member.  The plugin publishes a  *)
(* signed event for each change of the member (publisher.rb); the portal's *)
(* EventConsumer applies it (internal/identity/events.go).  CurrentStatus  *)
(* (status.go) and EnsureShadowUser (sso.go) fetch the member from         *)
(* Discourse and store what they got; CurrentLevelProgress                 *)
(* (level_progress.go) keeps a snapshot in a cache that events invalidate. *)
(*                                                                         *)
(* The states of the member are numbered: version v is History[v], and     *)
(* what the portal stores is the version it was made from.  Every store or *)
(* HTTP call of a handler is a step of its own.                            *)
(***************************************************************************)
EXTENDS Integers, Sequences, FiniteSets, LevelProgress

CONSTANTS
    History,    \* the successive states of the member in Discourse
    Subjects,   \* subjects newSubject may generate
    Requests,   \* portal requests that may be in flight at the same time
    None,       \* no subject
    MaxEvents,  \* bound: events ever published
    MaxFaults   \* bound: lost, duplicated and failing calls

ASSUME IdentityAssumptions ==
    /\ History \in Seq(Member) /\ Len(History) > 0
    /\ \A v \in 1..Len(History) : History[v].id = History[1].id
    /\ None \notin Subjects
    /\ {MaxEvents, MaxFaults} \subseteq Nat

VARIABLES
    truth,     \* the version of the member in Discourse
    jobs,      \* queued jobs connect_identity_publish_status
    sent,      \* the version each published event carries; the index is its id
    net,       \* events on their way to the portal
    waiting,   \* events whose job waits for the answer
    nonces,    \* events whose signature was verified (the stored nonces)
    eventIDs,  \* the stored event ids
    row,       \* the member's row of table users
    cache,     \* the member's cached level progress
    req,       \* the portal's requests in flight
    faults,    \* number of faults so far
    known,     \* subjects that were returned to a login
    regressed, \* the row was overwritten with an older version
    failed,    \* an event was answered with an error, and the job ended
    dropped    \* version the last invalidation answered for (0: a fill raced it)

vars == <<truth, jobs, sent, net, waiting, nonces, eventIDs, row, cache, req, faults,
          known, regressed, failed, dropped>>
portal == <<row, cache, req, known, regressed, dropped>>
plugin == <<truth, jobs, sent>>

-----------------------------------------------------------------------------
(* Values *)

Versions == 1..Len(History)
NoRow == [subject |-> None, ver |-> 0]
NoSnapshot == [state |-> "none", ver |-> 0]

EventSteps == {"nonce", "eventid", "lookup", "apply", "invalidate"}
Steps == EventSteps \cup {"idle", "fetch", "find", "insert", "refresh", "persist",
                          "cached", "discard", "progress", "fill"}

\* A request: ev is the event it handles, ver the version it holds, subject the
\* row it works on, since the version of the member when it started.
Request == [pc : Steps, ev : Nat, ver : Nat, subject : Subjects \cup {None}, since : Nat]
Idle == [pc |-> "idle", ev |-> 0, ver |-> 0, subject |-> None, since |-> 0]

TypeOK ==
    /\ truth \in Versions
    /\ jobs \in Nat
    /\ sent \in Seq(Versions)
    /\ net \subseteq DOMAIN sent /\ waiting \subseteq DOMAIN sent
    /\ nonces \subseteq DOMAIN sent /\ eventIDs \subseteq nonces
    /\ row \in [subject : Subjects, ver : Versions] \cup {NoRow}
    /\ cache \in [state : {"none", "old", "snapshot"}, ver : Nat]
    /\ req \in [Requests -> Request]
    /\ faults \in Nat
    /\ known \subseteq Subjects
    /\ regressed \in BOOLEAN /\ failed \in BOOLEAN
    /\ dropped \in Nat

\* The cache may hold a snapshot an older release wrote.
Init ==
    /\ truth = 1 /\ jobs = 0 /\ sent = <<>> /\ net = {} /\ waiting = {}
    /\ nonces = {} /\ eventIDs = {}
    /\ row = NoRow
    /\ cache \in {NoSnapshot, [state |-> "old", ver |-> 0]}
    /\ req = [r \in Requests |-> Idle]
    /\ faults = 0
    /\ known = {} /\ regressed = FALSE /\ failed = FALSE /\ dropped = 0

-----------------------------------------------------------------------------
(* The plugin *)

\* The member changes; on(:user_updated) enqueues a job.
Change ==
    /\ truth < Len(History)
    /\ truth' = truth + 1
    /\ jobs' = jobs + 1
    /\ UNCHANGED <<sent, net, waiting, nonces, eventIDs, faults, failed, portal>>

publishUnnumbered ==
    /\ jobs > 0 /\ Len(sent) < MaxEvents
    /\ jobs' = jobs - 1
    /\ sent' = Append(sent, truth)
    /\ net' = net \cup {Len(sent') + 1}
    /\ waiting' = waiting \cup {Len(sent')}
    /\ UNCHANGED <<truth, nonces, eventIDs, faults, failed, portal>>
\* The job reads the member and posts a new event with its present state.
publish ==
    /\ jobs > 0 /\ Len(sent) < MaxEvents
    /\ jobs' = jobs - 1
    /\ sent' = Append(sent, truth)
    /\ net' = net \cup {Len(sent')}
    /\ waiting' = waiting \cup {Len(sent')}
    /\ UNCHANGED <<truth, nonces, eventIDs, faults, failed, portal>>

NoAnswerDropped(e) ==
    /\ faults < MaxFaults /\ faults' = faults + 1
    /\ e \in waiting /\ waiting' = waiting \ {e}
    /\ net' \in {net, net \ {e}}
    /\ UNCHANGED <<truth, jobs, sent, nonces, eventIDs, failed, portal>>
\* The job gets no answer: http.request raises, Sidekiq runs the job again.  The
\* request may still arrive.
NoAnswer(e) ==
    /\ faults < MaxFaults /\ faults' = faults + 1
    /\ e \in waiting /\ waiting' = waiting \ {e}
    /\ net' \in {net, net \ {e}}
    /\ jobs' = jobs + 1
    /\ UNCHANGED <<truth, sent, nonces, eventIDs, failed, portal>>

\* The same request arrives once more.
Duplicate(e) ==
    /\ faults < MaxFaults /\ faults' = faults + 1
    /\ e \in DOMAIN sent \ net /\ net' = net \cup {e}
    /\ UNCHANGED <<plugin, waiting, nonces, eventIDs, failed, portal>>

-----------------------------------------------------------------------------
(* Steps of the portal's requests *)

At(r, pc) == req[r].pc = pc
Goto(r, pc) == req' = [req EXCEPT ![r].pc = pc]
Return(r) == req' = [req EXCEPT ![r] = Idle]

\* The answer to an event: the job ends whatever it says.
Answer(e, ok) ==
    /\ waiting' = waiting \ {e}
    /\ failed' = (failed \/ (~ok /\ e \in waiting))

\* A request starts, for event e or with the row of s and the member at version v.
Start(r, pc, e, s, v) ==
    /\ At(r, "idle")
    /\ req' = [req EXCEPT ![r] = [pc |-> pc, ev |-> e, ver |-> 0, subject |-> s, since |-> v]]

upsertableAlways(subject) == TRUE
\* Upsert: a row of the subject is replaced; a second subject for the same
\* discourse_id violates its UNIQUE constraint.
upsertable(subject) == row.subject \in {None, subject}
Upsert(subject, ver) ==
    /\ row' = [subject |-> subject, ver |-> ver]
    /\ regressed' = (regressed \/ ver < row.ver)

-----------------------------------------------------------------------------
(* EventConsumer.ServeHTTP *)

Deliver(r, e) ==
    /\ e \in net /\ net' = net \ {e}
    /\ Start(r, "nonce", e, None, 0)
    /\ UNCHANGED <<plugin, waiting, nonces, eventIDs, faults, failed,
                   row, cache, known, regressed, dropped>>

\* Verifier.Verify: a nonce is accepted once (module OneTime).
VerifyNonce(r) ==
    LET e == req[r].ev
    IN  /\ At(r, "nonce")
        /\ nonces' = nonces \cup {e}
        /\ IF e \in nonces THEN Return(r) /\ Answer(e, FALSE)
                           ELSE Goto(r, "eventid") /\ UNCHANGED <<waiting, failed>>
        /\ UNCHANGED <<plugin, net, eventIDs, faults, row, cache, known, regressed, dropped>>

StoreEventID(r) ==
    LET e == req[r].ev
    IN  /\ At(r, "eventid")
        /\ eventIDs' = eventIDs \cup {e}
        /\ IF e \in eventIDs THEN Return(r) /\ Answer(e, FALSE)
                             ELSE Goto(r, "lookup") /\ UNCHANGED <<waiting, failed>>
        /\ UNCHANGED <<plugin, net, nonces, faults, row, cache, known, regressed, dropped>>

LookupMember(r) ==
    /\ At(r, "lookup")
    /\ IF row.subject = None
       THEN Return(r) /\ Answer(req[r].ev, FALSE)
       ELSE /\ req' = [req EXCEPT ![r].pc = "apply", ![r].subject = row.subject]
            /\ UNCHANGED <<waiting, failed>>
    /\ UNCHANGED <<plugin, net, nonces, eventIDs, faults, row, cache, known, regressed, dropped>>

\* The event's status replaces the row; occurred_at plays no part.
ApplyEvent(r) ==
    /\ At(r, "apply")
    /\ upsertable(req[r].subject)
    /\ Upsert(req[r].subject, sent[req[r].ev])
    /\ Goto(r, "invalidate")
    /\ UNCHANGED <<plugin, net, waiting, nonces, eventIDs, faults, failed, cache, known, dropped>>

\* The version the cache answers for after an invalidation: none if a fill that
\* fetched before is still going to store its snapshot.
FillsPending(r) == \E q \in Requests \ {r} : At(q, "fill")
InvalidatedFor(r) == IF FillsPending(r) THEN 0 ELSE sent[req[r].ev]

InvalidateSkipped(r) ==
    /\ At(r, "invalidate")
    /\ dropped' = InvalidatedFor(r)
    /\ Return(r) /\ Answer(req[r].ev, TRUE)
    /\ UNCHANGED <<plugin, net, nonces, eventIDs, faults, row, cache, known, regressed>>
\* The cache is invalidated; a failure of that is only logged.
InvalidateCache(r) ==
    /\ At(r, "invalidate")
    /\ \/ cache' = NoSnapshot /\ dropped' = InvalidatedFor(r) /\ UNCHANGED faults
       \/ /\ faults < MaxFaults /\ faults' = faults + 1
          /\ UNCHANGED <<cache, dropped>>
    /\ Return(r) /\ Answer(req[r].ev, TRUE)
    /\ UNCHANGED <<plugin, net, nonces, eventIDs, row, known, regressed>>

-----------------------------------------------------------------------------
(* CurrentStatus and EnsureShadowUser *)

local == <<plugin, net, waiting, nonces, eventIDs, faults, failed>>

\* A page, a login, a userinfo request or a role check asks for the member's
\* status: GetBySubject finds the row.
CurrentStatus(r) ==
    /\ row.subject # None
    /\ Start(r, "refresh", 0, row.subject, truth)
    /\ UNCHANGED <<local, row, cache, known, regressed, dropped>>

\* The login callback maps the member to a subject.
EnsureShadowUser(r) ==
    /\ Start(r, "fetch", 0, None, 0)
    /\ UNCHANGED <<local, row, cache, known, regressed, dropped>>

FetchForLogin(r) ==
    /\ At(r, "fetch")
    /\ req' = [req EXCEPT ![r].pc = "find", ![r].ver = truth]
    /\ UNCHANGED <<local, row, cache, known, regressed, dropped>>

\* The subject of the row, or a new one if there is no row.
FindOrCreateSubject(r) ==
    /\ At(r, "find")
    /\ \E s \in Subjects :
        /\ IF row.subject = None THEN \A q \in Requests : req[q].subject # s ELSE s = row.subject
        /\ req' = [req EXCEPT ![r].pc = "insert", ![r].subject = s]
    /\ UNCHANGED <<local, row, cache, known, regressed, dropped>>

\* The row is stored and the subject returned, or the login fails.
StoreShadowUser(r) ==
    /\ At(r, "insert")
    /\ IF upsertable(req[r].subject)
       THEN Upsert(req[r].subject, req[r].ver) /\ known' = known \cup {req[r].subject}
       ELSE UNCHANGED <<row, regressed, known>>
    /\ Return(r)
    /\ UNCHANGED <<local, cache, dropped>>

FetchUserStored(r) ==
    /\ At(r, "refresh")
    /\ req' = [req EXCEPT ![r].pc = "persist", ![r].ver = row.ver]
    /\ UNCHANGED <<local, row, cache, known, regressed, dropped>>
FetchUser(r) ==
    /\ At(r, "refresh")
    /\ req' = [req EXCEPT ![r].pc = "persist", ![r].ver = truth]
    /\ UNCHANGED <<local, row, cache, known, regressed, dropped>>

\* What was fetched replaces the row and is returned.
PersistStatus(r) ==
    /\ At(r, "persist")
    /\ upsertable(req[r].subject)
    /\ Upsert(req[r].subject, req[r].ver)
    /\ Return(r)
    /\ UNCHANGED <<local, cache, known, dropped>>

-----------------------------------------------------------------------------
(* CurrentLevelProgress *)

CurrentLevelProgress(r) ==
    /\ row.subject # None
    /\ Start(r, "cached", 0, None, 0)
    /\ UNCHANGED <<local, row, cache, known, regressed, dropped>>

\* ValidateFor of the snapshot the plugin makes of each version; a snapshot of an
\* older release has another schema.
progressValid == [v \in Versions |-> ValidateFor(to_h(History[v]), History[1].id)]
cachedValid(c) == c.state = "snapshot" /\ progressValid[c.ver]

ReadCache(r) ==
    /\ At(r, "cached")
    /\ IF cache.state = "none" THEN Goto(r, "progress")
       ELSE IF cachedValid(cache) THEN Return(r)
       ELSE Goto(r, "discard")
    /\ UNCHANGED <<local, row, cache, known, regressed, dropped>>

\* An invalid snapshot is removed; a failure of that is ignored.
DiscardCached(r) ==
    /\ At(r, "discard")
    /\ cache' \in {NoSnapshot, cache}
    /\ Goto(r, "progress")
    /\ UNCHANGED <<local, row, known, regressed, dropped>>

\* The plugin serializes the member; the portal validates the result.
FetchLevelProgress(r) ==
    /\ At(r, "progress")
    /\ IF progressValid[truth]
       THEN req' = [req EXCEPT ![r].pc = "fill", ![r].ver = truth]
       ELSE Return(r)
    /\ UNCHANGED <<local, row, cache, known, regressed, dropped>>

FillCache(r) ==
    /\ At(r, "fill")
    /\ cache' = [state |-> "snapshot", ver |-> req[r].ver]
    /\ Return(r)
    /\ UNCHANGED <<local, row, known, regressed, dropped>>

CacheNeverExpires == FALSE /\ UNCHANGED vars
\* Set gives every snapshot a time to live.
CacheExpires ==
    /\ cache.state # "none"
    /\ cache' = NoSnapshot
    /\ UNCHANGED <<local, row, req, known, regressed, dropped>>

\* A call of a request fails.  An event is then answered with an error.
Fail(r) ==
    /\ faults < MaxFaults /\ faults' = faults + 1
    /\ ~At(r, "idle") /\ ~At(r, "invalidate")
    /\ Return(r)
    /\ IF req[r].pc \in EventSteps THEN Answer(req[r].ev, FALSE) ELSE UNCHANGED <<waiting, failed>>
    /\ UNCHANGED <<plugin, net, nonces, eventIDs, row, cache, known, regressed, dropped>>

-----------------------------------------------------------------------------
Step(r) ==
    \/ VerifyNonce(r) \/ StoreEventID(r) \/ LookupMember(r) \/ ApplyEvent(r) \/ InvalidateCache(r)
    \/ FetchForLogin(r) \/ FindOrCreateSubject(r) \/ StoreShadowUser(r)
    \/ FetchUser(r) \/ PersistStatus(r)
    \/ ReadCache(r) \/ DiscardCached(r) \/ FetchLevelProgress(r) \/ FillCache(r)

Next ==
    \/ Change \/ publish \/ CacheExpires
    \/ \E e \in DOMAIN sent : NoAnswer(e) \/ Duplicate(e)
    \/ \E r \in Requests :
        \/ CurrentStatus(r) \/ EnsureShadowUser(r) \/ CurrentLevelProgress(r)
        \/ \E e \in DOMAIN sent : Deliver(r, e)
        \/ Step(r) \/ Fail(r)

\* Sidekiq runs queued jobs, the HTTP server starts a handler for every request
\* that arrives (its slots here are a bound of the model), a call returns or
\* fails, and Redis expires keys.
Fairness ==
    /\ WF_vars(publish) /\ WF_vars(CacheExpires)
    /\ \A e \in 1..MaxEvents : SF_vars(\E r \in Requests : Deliver(r, e))
    /\ \A r \in Requests : WF_vars(Step(r))

Spec == Init /\ [][Next]_vars
FairSpec == Spec /\ Fairness

-----------------------------------------------------------------------------
(* Properties *)

\* A subject that a login returned stays the subject of the member: two first
\* logins at the same time do not give the member two subjects, and no event or
\* status lookup replaces it.
SubjectStable == \A s \in known : row.subject = s

\* CurrentStatus decides on a state the member was in during the request, also
\* when events are lost, late or out of order and the row is old.
FreshDecision == \A r \in Requests : At(r, "persist") => req[r].ver >= req[r].since

\* A snapshot older than an applied event is not served after the event's
\* invalidation, unless a request that fetched it before stores it after.
InvalidatedStaysOut ==
    cache.state = "snapshot" => cache.ver >= dropped

\* The portal accepts every snapshot the plugin serializes.
ProgressAccepted == progressValid[truth]

\* Every change reaches the row of a member who has one: jobs that got no answer
\* publish again.  What the code does not repair is an event answered with an
\* error (the job ends, publisher.rb does not look at the answer) and an older
\* status that arrives after a newer one.
ChangesArrive == <>[](row = NoRow \/ row.ver = truth \/ failed \/ regressed)

\* A snapshot that was stored too late does not stay: in the end the cache is
\* empty or holds the member's present progress.
StaleProgressEnds == <>[](cache = NoSnapshot \/ (cache.state = "snapshot" /\ cache.ver = truth))
=============================================================================
