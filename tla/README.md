# PureConnect: TLA+ verification

PureConnect (the repository `open-xai-connect`) is a portal on which members of a
Discourse community register OAuth applications. PostgreSQL keeps the
applications, Redis the sessions, and an Ory Hydra server the OAuth clients. This
directory holds TLA+ models of the portal, the TLC configurations that check
them, and TLAPS proofs of what holds for any number of applications, requests and
faults.

## Inventory

| Part | State | Operations | What must hold |
|---|---|---|---|
| Application service (`internal/apps/service.go`) | rows of `applications` | CreateDraft, UpdateDraft, Submit, ViewSecret, RotateSecret, Revoke, Delete | statuses follow the state machine; Hydra and the row agree; nothing is left behind |
| Review service (`internal/reviews/service.go`) | the same rows, `outbox_events` | Approve, Reject, RequestChanges | independent reviewer; an approved application is provisioned |
| Provisioner (`internal/apps/provisioner.go`) | `outbox_events`, credentials in memory | RunOnce, retry | one client per application; every event is handled |
| PostgreSQL store (`internal/store/postgres`) | tables, constraints | Create, Get, Transition, Save, Delete, Enqueue, ClaimNext, Complete, Retry, Append | only Transition has a condition on what it replaces |
| Secret box (`internal/secrets`) | none | Encrypt, Decrypt | a ciphertext opens with the data it was sealed with |
| Hydra client (`internal/hydra`) | clients in Hydra | CreateClient, UpdateClient (PUT), DeleteClient; login and consent calls | a lost answer is an error although the call took effect |
| Sessions (`internal/session`) | sessions in Redis, the browser's cookie | Create, Get, Touch, MarkHomeVerified, Delete | a deleted session stays deleted, idle time and age are bounded |
| Identity (`internal/identity`) | table `users` | status events, CurrentStatus, EnsureShadowUser | one subject per member; decisions rest on fresh data; changes arrive |
| One-time tokens (`discourseconnect.go`, `redis_nonce.go`, `events.go`, `sso.go`) | nonces and event ids in Redis, login states in memory | Verify, CheckAndStore, Begin, Complete | each is used once |
| OAuth (`internal/oauth`, `internal/httpserver/connect.go`) | table `consents`, flows in Hydra | login callback, consent Accept and Reject, userinfo | a grant is what its own user allowed; database and Hydra agree |
| Level progress (`internal/identity/level_progress*.go`) | cache in Redis | CurrentLevelProgress, ValidateFor, Get, Set, Invalidate | an invalidated snapshot is not served; every snapshot of the plugin is accepted |
| Discourse plugin (`discourse-plugin`) | Sidekiq jobs | publish, serialize the level progress | a change of a member reaches the portal |
| HTTP handlers, pages, assets, Turnstile, configuration | none or files | | |

The parts interact by calls. HTTP handlers run concurrently, one goroutine per
request; the provisioner is one goroutine that ticks every second
(`cmd/connect/main.go`). They share the tables and Hydra, and no handler holds a
lock or a transaction over more than one store call. A review decision or a
submission hands an application to the worker through the outbox. Eligibility and
the roles of users come from Discourse, which the portal asks through CurrentStatus
on every request that depends on them; the plugin additionally posts signed events.
The browser joins the rest: its cookie names a session, the session a subject, and
the login and consent challenges of Hydra travel through it.

What is hard here: handlers save whole rows from copies they read earlier; each
operation is several calls, any of which may fail or lose its answer after it took
effect; the process may restart between two calls; PostgreSQL and Hydra have no
common transaction; session records and cached snapshots are read, changed and
written back with nothing in between to notice another writer; clocks are read some
time before the store is reached. `PROJECT.json` lists each hazard at its line.

## Modules

| Module | Contents |
|---|---|
| `Application` | the statuses, `validTransition`, `IsOpen` (`internal/domain/application.go`) |
| `AppStatus` | abstract specification: one application moves along `validTransition`, is not deleted while provisioning, and its id is not used again |
| `AppLifecycle` | the service, the reviews, the worker, the store and Hydra's clients, composed |
| `AppSync` | history variables over `AppLifecycle`: which requests ran undisturbed, and which applications they settled |
| `Sessions` | the Redis session store, the cookie handler and the pages that use them |
| `LevelProgress` | pure operators: the plugin's serializer (`to_h`) and the portal's `ValidateFor` |
| `Identity` | the plugin's publisher, the event consumer, CurrentStatus, EnsureShadowUser and the level progress cache, composed, for one member; uses `LevelProgress` |
| `OneTime` | nonces, event ids and login states, with clocks and expiry |
| `Authorization` | login callback, consent form and userinfo, composed with Hydra's flows, the application and the members |
| `AppLifecycleProofs`, `AppSyncProofs`, `SessionsProofs`, `IdentityProofs` (with `LevelProgress`), `OneTimeProofs`, `AuthorizationProofs` | theorems about the module of that name |
| `AppReviewProofs`, `AppSequentialProofs` | more about `AppLifecycle`: reviews and deletions under any interleaving; one request at a time |
| `MCAppLifecycle`, `MCAppSync`, `MCSessions`, `MCIdentity`, `MCOneTime`, `MCAuthorization` | the modules for TLC, with symmetry and the values of structured constants |

### How AppLifecycle corresponds to the code

`apps`, `outbox` and `audit` are tables; `hydra` is the sequence of clients Hydra
ever created, in which the index is the client id; `cred` is
`Provisioner.credentials`; `prov` is the `RunOnce` in progress; `req` are the
handlers in flight. `secrets` numbers generated secrets, so a larger number is a
newer secret. A row keeps the owner, the status, the profile (all the owner may
edit, one value), the client id, the sealed secret and the reviewer. `review_note`,
`secret_version` and the timestamps decide nothing and are left out.

A handler starts with a read and its checks (`CreateDraft` ... `RequestChanges`).
It then has a list of calls to make, `todo`, and its copy of the row, `copy`. The
calls are the actions `StoreCreate` ... `DeleteClient`, one atomic step each, and
everything else may happen between two of them. A request that is refused by its
first checks changes nothing and is no step. When a call fails, `OnError` says how
the handler goes on: it returns, except that `startProvisioning` saves the row it
had before when the enqueue fails.

The worker's calls are the actions of `RunOnce` and `ClaimNext`. Its program
counter also tells the two uses of `Complete` apart: after a save, and for an
application that is no longer provisioning.

Faults, each counted against `MaxFaults`: `"fail"`, a call fails without effect;
`"lost"`, a call takes effect and its caller gets an error (a broken connection, or
`Transition`, whose lists may fail to load after the UPDATE); `"crash"`, the
process restarts and loses handlers and `cred`.

Abstractions worth knowing:

- `Get` is one atomic read, although the callbacks and domains come from further
  queries.
- `Transition` is its conditional UPDATE, which decides. The SELECT before it is a
  step of its own where its result matters: in `startProvisioning`, whose rollback
  saves that row.
- Audit rows are kept for `application.deleted` only, the one a property looks at;
  all audit calls are made and can be refused by the foreign key or fail.
- Reviewers and administrators do not change during a behaviour. Eligibility and
  the recent confirmation for secrets only refuse requests.
- `Revoke` has no HTTP route at this commit; the service offers it and the model
  includes it.
- Hydra is external. What the model says of it is what the calls in
  `internal/hydra/ory.go` rely on: a PUT replaces the configuration and fails for
  a missing client, and so does a DELETE.

### How AppSync looks at AppLifecycle

An edit or a rotation writes Hydra's client and the row in two calls, and so do a
revocation and a deletion. Two of them may overlap, or the second call may fail;
then client and row disagree, which `FindingRotationUndone` shows. `AppSync` states
what is left when every overlap and every fault may happen. It adds no step and no
guard to `AppLifecycle`, only three history variables:

- `alone`: the requests during whose whole work so far nobody else worked on their
  application, neither another request nor the worker;
- `fresh`: the worker is about to save a client it created in this attempt, and no
  request has come to the application since;
- `settled`: the applications whose last writer ran undisturbed. `Settles` (the save
  of an approved row by a request in `alone`) and `WorkerSettles` put an application
  in, whatever had happened to it before; `Disturbs` (two requests at work on it, or
  a fault that hits one) takes it out.

`SettledInSync` is then a statement of repair: one undisturbed edit, rotation or
provisioning puts Hydra and the row in agreement after any history of races and
failures, and the agreement lasts until requests overlap again or one is hit by a
fault. `SettledSecretStays` bounds the finding in the same way: a replaced secret
comes back only in an application that was disturbed since it was settled.

### How Sessions corresponds to the code

`redis` maps an id to its record and to the time at which Redis drops the key;
`cookie` is what the browser holds. A page is a list of store calls (`Program`):
`home` reads the session twice, `verifyHome` calls Turnstile between two store
calls. Touch and MarkHomeVerified are two steps each, `Get` and `Save`, since the
code is a GET and a SET; `Get` also drops a record it found expired
(`DropExpired`). Each call carries the clock reading of its handler (`at`); `Save`
gives Redis a time to live from that reading, but Redis counts it from the moment
of the SET. Logout clears the cookie whatever Redis answers, and its deletion is
detached from the request, so it does not fail with the browser's connection. An id
is generated once; that is what 256 random bits amount to.

`gone` and `marked` record whether a logout or a verification was written with
another request between its GET and its SET ("raced") or not ("clean"). The races
are real: such a request writes the session it read back and undoes the deletion or
the verification. The properties say that nothing else does.

### How Identity corresponds to the code

The states of the member are numbered (`History`), and what the portal or an event
holds is the number of the state it was made from; order is then comparison. `jobs`,
`sent`, `net` and `waiting` are the plugin and the network: a job reads the member
when it runs, posts once, and runs again only when the request raises. `nonces` and
`eventIDs` are the two stores of the consumer; their expiry is in `OneTime`. `row` is
the member's row of `users`, with `Upsert` and the UNIQUE constraint on
`discourse_id` (`upsertable`). A request's `pc` is the next call of its handler: an
event goes through `nonce`, `eventid`, `lookup`, `apply`, `invalidate`; a login
through `fetch`, `find`, `insert`; CurrentStatus through `refresh`, `persist`; the
level progress through `cached`, perhaps `discard`, `progress`, `fill`. A failing
call ends the request, and an event is answered with an error, except for the
invalidation of the cache, whose failure is only logged.

`regressed`, `failed` and `dropped` mark what the code does not prevent: an older
status stored over a newer one, an event that was answered with an error (the job
does not look at the answer), and an invalidation while a fill was in flight.

`LevelProgress` follows the Ruby serializer and the Go validation rule by rule,
without the labels. `progressValid` composes them for the member's states.

### How OneTime corresponds to the code

A call reads the clock (`at`), computes a time to live from a second reading
(`TimeLeft`, `time.Until`) and reaches Redis in a third step (`SetNX`). The sender's
clock is off by up to `MaxDrift`. A verified event goes on to the event ids in the
same call. Login states live in a map behind a mutex; Begin and Complete read the
clock before they take it, and both remove expired states. A restart loses the map
and the calls, not Redis. `Deadline` is the time up to which a token cannot have
expired: the promise of one use ends there, since the code forgets the token then.

### How Authorization corresponds to the code

A flow is one authorization request at Hydra, from the login challenge to the token.
Hydra is external: a challenge can be answered until the browser has followed its
redirect, and everything about it is gone when the client is deleted. `Program`
lists the calls of each handler in order, with the checks both the handler and the
service make; each call is a step, so the member, the application, the session and
other requests may change between any two. `CompleteLogin` starts the callback for
whoever is logged in to Discourse at that moment. `Put` and `AcceptConsent` may take
effect and lose their answer; Accept's rollback deletes the consent
(`RollbackDelete`), and a restart loses requests and login states.

The module takes single steps for what other modules show in detail: `RetireApp` for
Revoke and Delete of `AppLifecycle`, `ChangeMember` and `CanAuthenticate` for
`Identity`, whose `FreshDecision` is what justifies that a status check sees the
member as it is, `session` for `Sessions`, `pending` for `OneTime`.

## What the runs check

Deadlock is not checked: with the bounds used up, or with every application deleted
or revoked, every session gone and every event handled, nothing remains to be done.

| Run | Setting | Shows |
|---|---|---|
| `OverlappingRequests` | 1 application, 2 overlapping requests, 1 fault of any kind | types; `StoredSecretOpens`; `IndependentReview`; `DeletionAudited`; `SettledInSync`, `SettledSecretStays` |
| `SelfServiceFailure` | 2 applications without review, 1 failing call | `NoStrandedProvisioning`, `AtMostOneClient`, `NoOrphanClient`, `ClientBelongsToApp` |
| `SequentialFaults` | 1 application, 1 request at a time, 2 faults of any kind, fairness | the stored statuses implement `AppStatus`; `NoCredentialsBeforeApproval`; `DeleteLeavesNothing`; `EventsDrain`, `ProvisioningCompletes` |

Reviews are required in `OverlappingRequests` and `SequentialFaults`, not in
`SelfServiceFailure`. `cmd/connect/main.go` leaves `RequireReview` unset, so the
deployed portal runs as in the latter; the theorems on the properties of
`OverlappingRequests`, and that on `NoCredentialsBeforeApproval`, cover both. The gated
flow is what the review service, its routes and the tests
(`internal/integration/integration_test.go`, `internal/apps/service_test.go`) are
written for. `StatusMachine` and `ProvisioningCompletes` speak of the gated flow: in
the deployed one the rollback of `startProvisioning` is no transition of the domain,
and an enqueue that fails puts the application back instead of completing it
(`NoStrandedProvisioning`).

The other components, one run each:

| Run | Setting | Shows |
|---|---|---|
| `OverlappingSessions` | 1 session, 3 overlapping requests, sliding expiry 2, absolute 3, 4 instants | a clean logout is final, a clean verification is kept; bounds on idle time and age; Redis does not drop a valid record |
| `StatusSync` | a member promoted from level 2 to 3, 2 possible subjects, 2 overlapping requests, 2 events, 1 fault, fairness | one subject; fresh decisions; invalidation; accepted snapshots; changes arrive; old snapshots go |
| `OneTimeTokens` | 1 event, 1 login state, 2 calls, skew 2, event ids kept for 5, window 2, drift up to 2, 6 instants, restarts | each token is used once |
| `ConsentAndClaims` | 2 users, 1 flow, 2 overlapping requests of 3, any number of faults and restarts | grants belong to their users; logins match what Hydra remembers; checks hold while a request is served; database and Hydra agree |

The bounds of `AppLifecycle`: two requests are enough for every race between two handlers, with the
worker as a third actor; two applications for mixing up credentials; two fault
occurrences for a fault during the handling of a fault. `MaxClients` and
`MaxSecrets` leave room for one creation more than the correct number and for a
rotation. In `OverlappingRequests` two secrets are enough for an edit that overlaps a
rotation, or for a second client; two rotations that overlap need `MaxSecrets = 3`, with which the
run takes three times as long and passes as well. It has one profile: an edit writes profile and secret with the same two calls, and a
client that an edit did not reach shows by the secret after a rotation that failed. The
theorem is for any set of profiles.

The bounds of the others: three requests on one session are a logout or a
verification with one that races it and one that uses the result; 4 instants pass
both the sliding and the absolute expiry, with a renewal before. Sessions do not
interact, so one id is enough. In `StatusSync` two versions and two events are a
change whose event is repeated or overtaken, and two subjects are two first logins
at once; the levels the promotion passes have the longest list of requirements and
level 3's manual mode. In `OneTimeTokens` the drift is as large as the skew and the
life of an event id larger than twice the skew, as in the code (five minutes and a
day); two calls meet in every step. In `ConsentAndClaims` three requests are a login,
a consent and a second consent, denial or userinfo by either user, and the set of
scopes without `openid` is one that is refused.

Some properties hold only with less than the code may meet, and what lies beyond is
a limit of the code:

- The properties of `SelfServiceFailure`, and `NoCredentialsBeforeApproval`,
  `DeleteLeavesNothing` and `StatusMachine` in `SequentialFaults`, are for one request at a time. Overlapping
  requests break most of them; lost answers or a restart break most of those of
  `SelfServiceFailure`. Two of the findings are such cases; `NoStrandedProvisioning`
  also fails when the answer of a transition or an enqueue is lost, for which the
  code has no recovery.
- `LogoutFinal` and `VerifiedKept` speak of a logout or a verification that no other
  request raced; a request between its GET and its SET undoes it. `AbsoluteBound` and
  `IdleBound` make no such exception: the session that comes back ends in time.
- `InvalidatedStaysOut` excludes a fill in flight at the invalidation;
  `StaleProgressEnds` includes it and says that the snapshot goes with its expiry.
- `ChangesArrive` excludes a status that an older one overwrote and an event that was
  answered with an error; nothing repairs the row then until the member is looked at
  again. `FreshDecision` has no exception: decisions do not rest on the row.
- `ConsentRecorded` does not speak of a user one of whose acceptances failed: its
  rollback deletes the row, also that of an earlier grant. `ConsentBacked` allows a
  row that a fault between `Put` and `AcceptConsent`, or in the rollback, left behind.

### Findings

Each of these runs ends in a violation, of a sentence in the repository's
documents or comments. `PROJECT.json` quotes them.

- `FindingDuplicateClient`: a restart between creating a client and saving it
  creates a second client.
- `FindingApprovalNotAtomic`: a failing call in `Approve` leaves the application in
  provisioning, with no event, and `Delete` refuses it.
- `FindingRotationUndone`: an edit that overlaps a rotation makes the old secret
  valid again.
- `FindingOpenLimit`: two creations that overlap both count before either inserts, and
  the owner has more open applications than the documents allow. With one request at
  a time the limit is passed as well: a rejected application that is edited or
  resubmitted becomes open again, and `CountOpenByOwner` is not called.
- `FindingCookieNotRenewed`: the cookie's lifetime is fixed at the login, so the
  browser drops it although the session was used and is still valid.

Two more differences came up while modelling and have no run of their own. A deletion
that overlaps a submission and a review removes a row that is being provisioned or
whose client is live, since it decides on a status it read earlier
(`DeleteLeavesNothing` is checked for one request at a time). A rotation replaces
the client by a PUT without token strategy and lifespans.

### Fairness

`WF(RunOnce)`: the worker's goroutine ticks every second and a call returns or
fails. `WF(RetryDelayPasses)`, `WF(ClaimTimesOut)`: the clock goes on.
`SF(ClaimNext(a))`: `ClaimNext` takes the oldest available event, so an event that
is again and again available is claimed. `WF(Step(r))`: a handler that was started
runs on. No fairness for the start of requests, and none for faults; they are
finitely many because `MaxFaults` bounds them.

In `Identity`: `WF(publish)`, as Sidekiq runs queued jobs; `SF` on the delivery of
each event, as the HTTP server starts a handler for every request that arrives and
the number of slots is only a bound of the model; `WF(Step(r))`, as a call returns
or fails; `WF(CacheExpires)`, as every snapshot is stored with a time to live. None
for changes of the member, for logins and lookups, or for duplicates. `Sessions`,
`OneTime` and `Authorization` have safety properties only and no fairness.

## What is proved

Every invariant, action property and refinement that a passing run checks is also
the statement of a theorem; the four liveness properties are not. The runs look at
small instances, the theorems hold for all values of the constants that satisfy the
named `ASSUME`s of the modules: bounds and durations are natural numbers, `None` and
`NoToken` are no values of the sets they extend, reviewers and administrators are
users, all states in a history belong to the same member. Where a theorem needs more,
it says so in its own `ASSUME`.

Each proof has the same outline. An inductive invariant says of every copy that is
still to be written what the property says of the stored state, and which calls a
handler can still have ahead; lemmas show it for the start of each operation, for
each call, for a failing or lost call and for each step of the worker; a temporal
step at the end combines them. TLC checked each invariant before it was proved.

### AppLifecycle, for any number of overlapping requests and faults

`AppLifecycleProofs`:

- `TypeCorrect`: `Spec => []TypeOK`. `TypeOK` is inductive. The lists of calls need
  their own lemmas (`CallTypes`, `TodoTypes`), so that the head of a list is a call
  of known shape.
- `CredentialSafety`: `Spec => []CredentialInv`.
- `SecretsOpen`, `ClientsBelong`: `StoredSecretOpens` and `ClientBelongsToApp`
  follow from it.

The two properties about rows are not inductive: a row is written from a copy that
was read long before. `CredentialInv` says the same of every copy in a handler that
is in flight, of the worker's copy and of `cred`. Each action then either keeps all
of these or builds a new copy from a sound one: a rotation seals the new secret with
the copy's client id, the worker with the id of the client it has just created; a
review decision never makes a copy approved; a transition makes a row revoked only
from approved. `HydraGrows` (no step removes a client's entry or gives it to another
application) carries the parts that do not change over to the next state.

`AppReviewProofs`: `ReviewsIndependent` (`IndependentReview`) and `DeletionsAudited`
(`DeletionAudited`), from `ReviewInv`. It rests on the order of a handler's calls
(`Ordered`): whatever may lead to the copy being saved follows a call that reads the
row, a deletion follows its audit event. A copy that may be saved has the owner of
the row and a reviewer who may decide for that owner; owners never change, because
an id that is being created is used by one handler only (`Alone`).

`AppSyncProofs`: `UpdatesSettle` (`SettledInSync`) and `SettledSecretsStay`
(`SettledSecretStays`), for any number of applications, requests and faults, with or
without reviews. Two invariants on top of `CredentialInv` and `ReviewInv`:

- `SecretInv`: no secret in Hydra, in the worker's credentials or in a copy is newer
  than the last one generated, so a rotation always moves forward.
- `SettleInv` says what the history variables stand for. A request in `alone` with an
  approved copy has an approved row under it and is about to update the client, or has
  updated it and is about to save the same values (`AloneOK`); a fresh worker's copy is
  what its client serves (`FreshOK`); at a settled application at most one request is
  at work, and it is at one of six points of an update, a revocation or a deletion
  (`HandlerSettled`). `SettledInSync` alone is not inductive, since between the two
  calls client and row do differ.

A request is recognised by the calls it still has to make (`Puts`, `Saves`, `Retires`,
...). `Moves` sums up in one disjunction how any step, with or without a fault, changes
one request; `Frame` says that a step leaves the row and the client of an application
alone unless a request at work on it, or the worker, makes the step. `NotTakenUp` shows
that the worker does not take up an application that is settled: it acts only on rows
in provisioning.

### AppLifecycle, one request at a time

`AppSequentialProofs`. The worker, the clock, failures and restarts are still
interleaved with the handler. `Sequential` says that `Requests` has at most one
element. Further assumptions say which faults a theorem admits; TLC finds the
property violated with the faults, or the overlap, that are left out, so they are
limits of the code and not of the proofs.

| Theorem | Property | Assumes besides `Sequential` | What breaks it otherwise |
|---|---|---|---|
| `CredentialsAfterApproval` | `NoCredentialsBeforeApproval` | nothing; `Sequential` only where reviews are required | a review that reads an approved row and saves it under another status |
| `StatusRefinement` | `StatusMachine` | reviews required, or calls neither fail nor lose answers | the rollback of `startProvisioning`, which is no transition of the domain |
| `DeletionLeavesNothing` | `DeleteLeavesNothing` | `NoLateRollback`: reviews required, or no lost answers | an enqueue whose answer is lost: the row is put back while the worker provisions it |
| `OneClientPerApplication` | `AtMostOneClient` | `FailuresOnly`: no lost answers, no restarts; or, instead of `Sequential`, `NoFaults` | `FindingDuplicateClient`; two requests and one call that fails |
| `ServedClientsKnown` | `NoOrphanClient` | `FailuresOnly` | `FindingDuplicateClient`; two requests |
| `ProvisioningIsPursued` | `NoStrandedProvisioning` | `Recoverable`: no fault, or no reviews and one failing call | `FindingApprovalNotAtomic`; a rollback whose own save fails |

The invariants, each on top of the ones before:

- `SeqInv` is about statuses: which statuses a row with an event has, when the worker
  may hold a copy, and that a copy about to be saved has the status of the row or one
  that may follow (`SaveOK`). The handler that starts the provisioning is alone until
  its event is in the outbox (`Quiet`). `Shape` and `Follow` fix the order of calls
  that this depends on. `OneRowMoves` says of each step that one row at most moves,
  and how; the refinement follows from it.
- `SelfInv`, without reviews and for any overlap: no handler changes the status of a
  copy it has read, so every copy that may be saved is free of credentials unless it
  is approved.
- `ClientInv` is about Hydra: at most one client per application, none before the
  approval but the one in the worker's credentials, none that is served after a
  revocation.
- `OnceInv`, without faults and for any overlap: an event that is done is not
  enqueued again, and the worker completes the event whose client it created before
  it claims another.
- `RetireInv` is the part of this that survives lost answers and restarts: the client
  a row names is not served once the row is revoked or Delete is past its
  `DeleteClient`.
- `StrandInv`: a row in provisioning without an event has a handler whose next calls
  enqueue it or put the row back, and an event is done only when the row is settled.

### The other components

`SessionsProofs`, for any number of sessions and overlapping requests: `TypeCorrect`,
`LogoutIsFinal`, `VerificationKept`, `AgeBounded`, `IdleTimeBounded`, `KeysOutlive`
(the five properties of the run), all from `SessionInv`. Of every copy that a request
is about to write it says what the properties say of the stored record: its absolute
expiry is the birth of the session plus `Absolute`, its expiry is within `Sliding` of
a use that was written, its time to live reaches the expiry. After a logout or a
verification that is "clean", no copy without it is in flight. `CreatedAlone`: nobody
else works on a session that is being created.

`OneTimeProofs`, for any number of events, login states and overlapping calls, any
skew, window, drift and life of an event id:

- `TypeCorrect`: `Spec => []TypeOK`.
- `EventsVerifiedOnce`, `EventsAppliedOnce`: `VerifiedOnce` and `AppliedOnce`. The
  counters alone are not inductive. The strengthening says that a counter is one only
  if the key is in Redis until the deadline of its token, and that a time to live
  computed by a call, added to the present time, reaches at least that deadline; time
  only moves it further. For event ids it also needs that a call in progress read its
  clock no earlier than the timestamp minus the skew.
- `LoginsOnce`: `LoginStateOnce`, which is inductive with the fact that a state that
  Begin is still to insert has completed nothing and is inserted by one call only.

`AuthorizationProofs`, for any number of users, flows, overlapping requests, faults
and restarts: `TypeCorrect`, `GrantsBelongToOwner`, `LoginsAsRemembered`,
`ServedOnlyWhileAllowed`, `GrantsRecorded` and `ConsentsBacked`, from `AuthInv`. It
says of a handler, by the calls it still has to make, what its checks have
established (the subject of the flow, the member and the application allowed at some
moment of the request, the scopes of a form for this flow), and of a flow that what
was granted is in `allowed` and its row is kept as long as the application exists.

About `LevelProgress`, in `IdentityProofs`: `SerializedAccepted`, `ValidateFor(to_h(m), m.id)` for every
member, whatever the counts and the site settings. The tables of requirements are
taken apart one level at a time.

`IdentityProofs`, for any history of the member, any number of subjects, events,
requests and faults:

- `TypeCorrect`: `Spec => []TypeOK`, from `TypeInv`, which adds what a request holds
  at each step (an event that was published, a subject, a version).
- `SubjectNeverChanges`: `SubjectStable`, by the constraint that `upsertable` models.
- `DecisionsAreFresh` and `InvalidationHolds`: `FreshDecision` and
  `InvalidatedStaysOut`, from `HoldInv`: the version a request started with, that of
  an event and that of the last invalidation are not newer than the member, so what is
  fetched later is not older than any of them; a fill in flight is not older than the
  last clean invalidation.
- `EverySnapshotAccepted`: `ProgressAccepted`, from `SerializedAccepted`.

### Only model-checked

The liveness properties `EventsDrain`, `ProvisioningCompletes`, `ChangesArrive` and
`StaleProgressEnds`: liveness under fairness, like `ENABLED`, is outside the prover's
reach. Induction over data and recursive operators are too; no module uses either.

## Not modelled

- The in-memory stores and the in-memory nonce store: test doubles that lack the
  schema's constraints; the models follow the deployed stores.
- The plugin's own check of the portal's requests (`signed_request.rb`): those
  requests only read.
- Assets (files and image checks), Web pages, configuration, and the forms of the
  HTTP handlers: no state the properties are about. The handlers of applications and
  reviews check session and token and call one operation of `AppLifecycle`.
- The discovery proxy (`internal/oauth/discovery.go`), which keeps no state, and
  `LoginService.Reject`, which nothing calls.
- The contents of a profile, of claims and of labels; the computation of signatures
  and hashes, which are right or refused.

## Plan

Done: `AppLifecycle`, `Sessions`, `Identity`, `OneTime`, `LevelProgress`,
`Authorization`, `AppSync` (what survives overlapping updates), and a theorem for every
safety property. What remains:

1. `AppLifecycle` with overlapping requests: the ways in which a status can leave the
   state machine, and what an overlapping deletion can leave behind.
2. `AtMostOneClient` and `NoOrphanClient` with lost answers and restarts: a bound on
   the number of clients by the number of faults.
3. A weaker limit on open applications: at most one more than the limit for each
   request that overlaps a creation, and for each reopening.
