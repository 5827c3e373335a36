------------------------------ MODULE OneTime ------------------------------
(***************************************************************************)
(* Tokens that may be used once and only for some time: the nonce and the  *)
(* event id of a signed status event, both kept in Redis                   *)
(* (internal/identity/discourseconnect.go, redis_nonce.go, events.go), and *)
(* the login states of DiscourseConnect, which SSOProvider keeps in memory *)
(* (sso.go).                                                               *)
(*                                                                         *)
(* A call reads the clock first and reaches the store later, so every      *)
(* reading is a step apart from the step that uses it.                     *)
(***************************************************************************)
EXTENDS Integers, FiniteSets

CONSTANTS
    Events,    \* signed events; each has its own nonce and event id
    States,    \* nonces of DiscourseConnect logins
    Handlers,  \* calls that may be in progress at the same time
    MaxSkew,   \* Verifier.maxSkew
    EventLife, \* how long the consumer keeps an event id
    Window,    \* SSOProvider.window
    MaxDrift,  \* bound: how far the sender's clock is ahead or behind
    MaxTime,   \* bound: the last instant
    NoToken    \* no event, no state

ASSUME OneTimeAssumptions ==
    /\ {MaxSkew, EventLife, Window, MaxDrift, MaxTime} \subseteq Nat
    /\ MaxSkew > 0 /\ Window > 0
    /\ Events \cap States = {} /\ NoToken \notin Events \cup States

VARIABLES
    now,      \* the clock
    stamp,    \* event -> timestamp of the signed request
    signed,   \* the events that were signed
    until,    \* store -> event -> when Redis drops its key
    pending,  \* login state -> ExpiresAt; 0 if it is not in the map
    begun,    \* the login states Begin created
    call,     \* the calls in progress
    passed,   \* store -> event -> times it was new within its Deadline
    done      \* login state -> times it completed a login

vars == <<now, stamp, signed, until, pending, begun, call, passed, done>>

Stores == {"nonce", "event"}
Tokens == Events \cup States
Steps == {"idle", "ttl", "setnx", "insert", "take"}
\* at is the clock reading of the call, ttl the time to live it computed.
Call == [pc : Steps, store : Stores, token : Tokens \cup {NoToken}, at : Nat, ttl : Int]
Idle == [pc |-> "idle", store |-> "nonce", token |-> NoToken, at |-> 0, ttl |-> 0]

TypeOK ==
    /\ now \in Nat
    /\ stamp \in [Events -> Int]
    /\ signed \subseteq Events
    /\ until \in [Stores -> [Events -> Int]]
    /\ pending \in [States -> Nat]
    /\ begun \subseteq States
    /\ call \in [Handlers -> Call]
    /\ \A h \in Handlers :
        /\ call[h].pc \in {"ttl", "setnx"} => call[h].token \in signed
        /\ call[h].pc \in {"insert", "take"} => call[h].token \in begun
    /\ passed \in [Stores -> [Events -> Nat]]
    /\ done \in [States -> Nat]

Init ==
    /\ now = 0
    /\ stamp = [e \in Events |-> 0] /\ signed = {}
    /\ until = [k \in Stores |-> [e \in Events |-> 0]]
    /\ pending = [s \in States |-> 0] /\ begun = {}
    /\ call = [h \in Handlers |-> Idle]
    /\ passed = [k \in Stores |-> [e \in Events |-> 0]]
    /\ done = [s \in States |-> 0]

\* A call reads the clock.
StartCall(h, pc, k, token) ==
    call' = [call EXCEPT ![h] = [pc |-> pc, store |-> k, token |-> token, at |-> now, ttl |-> 0]]
Return(h) == call' = [call EXCEPT ![h] = Idle]

-----------------------------------------------------------------------------
(* Signed events *)

\* The plugin signs an event with the time of its own clock.
Sign(e, drift) ==
    /\ e \notin signed /\ signed' = signed \cup {e}
    /\ stamp' = [stamp EXCEPT ![e] = now + drift]
    /\ UNCHANGED <<now, until, pending, begun, call, passed, done>>

\* The timestamp check of Verify.
withinSkew(e, t) == t - stamp[e] <= MaxSkew /\ stamp[e] - t <= MaxSkew

expiresAtFromNow(k, e, t) == IF k = "nonce" THEN t + MaxSkew ELSE t + EventLife
expiresAtShortID(k, e, t) == IF k = "nonce" THEN stamp[e] + MaxSkew ELSE t + MaxSkew
\* The expiry handed to CheckAndStore: timestamp.Add(maxSkew) for the nonce,
\* c.now().Add(24 h) for the event id; t is the clock reading of the call.
expiresAt(k, e, t) == IF k = "nonce" THEN stamp[e] + MaxSkew ELSE t + EventLife

CheckAndStore(h, k, e) == StartCall(h, "ttl", k, e)

\* A signed event arrives, for the first time or again.
Verify(h, e) ==
    /\ call[h].pc = "idle" /\ e \in signed
    /\ withinSkew(e, now)
    /\ CheckAndStore(h, "nonce", e)
    /\ UNCHANGED <<now, stamp, signed, until, pending, begun, passed, done>>

\* time.Until(expiresAt)
TimeLeft(h) ==
    LET c == call[h]  left == expiresAt(c.store, c.token, c.at) - now
    IN  /\ c.pc = "ttl"
        /\ IF left <= 0 THEN Return(h)
           ELSE call' = [call EXCEPT ![h].pc = "setnx", ![h].ttl = left]
        /\ UNCHANGED <<now, stamp, signed, until, pending, begun, passed, done>>

\* Until then a key of e that is in the store cannot have expired.
Deadline(k, e) == IF k = "nonce" THEN stamp[e] + MaxSkew ELSE stamp[e] - MaxSkew + EventLife

TakenKey(c) == until[c.store][c.token] > now

\* The key was not there.  A verified event goes on to the event ids; a new event
\* id is applied to the member (module Identity).
SetKey(h) ==
    LET c == call[h]
    IN  /\ ~TakenKey(c)
        /\ until' = [until EXCEPT ![c.store][c.token] = now + c.ttl]
        /\ passed' = IF now < Deadline(c.store, c.token)
                     THEN [passed EXCEPT ![c.store][c.token] = @ + 1] ELSE passed
        /\ IF c.store = "nonce" THEN CheckAndStore(h, "event", c.token) ELSE Return(h)

\* SETNX: the key is set; it was there (ErrReplay); or the answer is lost, after
\* the key was set or before.
SetNX(h) ==
    LET c == call[h]
    IN  /\ c.pc = "setnx"
        /\ \/ SetKey(h)
           \/ TakenKey(c) /\ Return(h) /\ UNCHANGED <<until, passed>>
           \/ /\ ~TakenKey(c) /\ Return(h) /\ UNCHANGED passed
              /\ until' \in {until, [until EXCEPT ![c.store][c.token] = now + c.ttl]}
        /\ UNCHANGED <<now, stamp, signed, pending, begun, done>>

-----------------------------------------------------------------------------
(* Login states *)

\* SSOProvider.Begin and Complete read the clock and then take the mutex.
Begin(h, s) ==
    /\ call[h].pc = "idle" /\ s \notin begun
    /\ begun' = begun \cup {s}
    /\ StartCall(h, "insert", "nonce", s)
    /\ UNCHANGED <<now, stamp, signed, until, pending, passed, done>>

\* cleanupLocked(t)
cleanupLocked(t) == [s \in States |-> IF pending[s] <= t THEN 0 ELSE pending[s]]

InsertBackwards(h) ==
    /\ call[h].pc = "insert"
    /\ pending' = [cleanupLocked(call[h].at) EXCEPT ![call[h].token] = call[h].at - Window]
    /\ Return(h)
    /\ UNCHANGED <<now, stamp, signed, until, begun, passed, done>>
Insert(h) ==
    /\ call[h].pc = "insert"
    /\ pending' = [cleanupLocked(call[h].at) EXCEPT ![call[h].token] = call[h].at + Window]
    /\ Return(h)
    /\ UNCHANGED <<now, stamp, signed, until, begun, passed, done>>

\* Begin returned: nothing is going to insert s.
Known(s) == s \in begun /\ \A g \in Handlers : call[g].pc = "insert" => call[g].token # s

\* The browser comes back from Discourse with the state, once or again.
Complete(h, s) ==
    /\ call[h].pc = "idle" /\ Known(s)
    /\ StartCall(h, "take", "nonce", s)
    /\ UNCHANGED <<now, stamp, signed, until, pending, begun, passed, done>>

TakeKeeping(h) ==
    LET s == call[h].token  live == cleanupLocked(call[h].at)
    IN  /\ call[h].pc = "take"
        /\ pending' = live
        /\ done' = [done EXCEPT ![s] = IF live[s] > 0 THEN @ + 1 ELSE @]
        /\ Return(h)
        /\ UNCHANGED <<now, stamp, signed, until, begun, passed>>
\* Under the mutex: expired states are removed and this one is taken out of the
\* map.  It completes the login if it was there.
Take(h) ==
    LET s == call[h].token  live == cleanupLocked(call[h].at)
    IN  /\ call[h].pc = "take"
        /\ pending' = [live EXCEPT ![s] = 0]
        /\ done' = [done EXCEPT ![s] = IF live[s] > 0 THEN @ + 1 ELSE @]
        /\ Return(h)
        /\ UNCHANGED <<now, stamp, signed, until, begun, passed>>

-----------------------------------------------------------------------------
\* The portal is restarted: the calls and the map of login states are lost,
\* Redis keeps its keys.
Restart ==
    /\ call' = [h \in Handlers |-> Idle]
    /\ pending' = [s \in States |-> 0]
    /\ UNCHANGED <<now, stamp, signed, until, begun, passed, done>>

Tick ==
    /\ now < MaxTime /\ now' = now + 1
    /\ UNCHANGED <<stamp, signed, until, pending, begun, call, passed, done>>

Next ==
    \/ \E e \in Events, drift \in -MaxDrift..MaxDrift : Sign(e, drift)
    \/ \E h \in Handlers :
        \/ \E e \in Events : Verify(h, e)
        \/ \E s \in States : Begin(h, s) \/ Complete(h, s)
        \/ TimeLeft(h) \/ SetNX(h) \/ Insert(h) \/ Take(h)
    \/ Restart \/ Tick

Spec == Init /\ [][Next]_vars

-----------------------------------------------------------------------------
(* Properties *)

\* A signed event passes Verify at most once while its timestamp is acceptable,
\* for every drift of the sender's clock and every delay between the timestamp
\* check and SETNX.
VerifiedOnce == \A e \in Events : passed["nonce"][e] <= 1

\* An event is applied at most once until its id may have expired, also if its
\* nonce was accepted a second time by a call that was delayed past the skew.
AppliedOnce == \A e \in Events : passed["event"][e] <= 1

\* A login state completes at most one login: two callbacks with the same state at
\* the same time, or one after the other, do not both find it.
LoginStateOnce ==
    \A s \in States : done[s] + (IF pending[s] > 0 THEN 1 ELSE 0) <= 1

=============================================================================
