--------------------------- MODULE OneTimeProofs ---------------------------
(***************************************************************************)
(* Proofs about OneTime: for any number of events, login states and        *)
(* concurrent calls, any skew, window, drift and delay.                    *)
(***************************************************************************)
EXTENDS OneTime, TLAPS

-----------------------------------------------------------------------------
(* Types *)

\* Every reachable state is well typed; a call in progress works on an event that
\* was signed or on a login state that was begun.
THEOREM TypeCorrect == Spec => []TypeOK
<1>1. Init => TypeOK
  BY OneTimeAssumptions DEF Init, TypeOK, Idle, Call, Steps, Stores, Tokens
<1>2. TypeOK /\ [Next]_vars => TypeOK'
  <2> SUFFICES ASSUME TypeOK, [Next]_vars PROVE TypeOK'
    OBVIOUS
  <2> USE OneTimeAssumptions DEF TypeOK, Call, Steps, Stores, Tokens
  <2>1. ASSUME NEW e \in Events, NEW drift \in -MaxDrift..MaxDrift, Sign(e, drift) PROVE TypeOK'
    BY <2>1 DEF Sign
  <2>2. ASSUME NEW h \in Handlers, NEW e \in Events, Verify(h, e) PROVE TypeOK'
    BY <2>2 DEF Verify, CheckAndStore, StartCall
  <2>3. ASSUME NEW h \in Handlers, NEW s \in States, Begin(h, s) PROVE TypeOK'
    <3>1. call' \in [Handlers -> Call] /\ call'[h].pc = "insert" /\ call'[h].token = s
          /\ \A g \in Handlers : g # h => call'[g] = call[g]
      BY <2>3 DEF Begin, StartCall
    <3> QED
      BY <2>3, <3>1 DEF Begin
  <2>4. ASSUME NEW h \in Handlers, NEW s \in States, Complete(h, s) PROVE TypeOK'
    <3>1. s \in begun
      BY <2>4 DEF Complete, Known
    <3> QED
      BY <2>4, <3>1 DEF Complete, StartCall
  <2>5. ASSUME NEW h \in Handlers, TimeLeft(h) PROVE TypeOK'
    <3>1. CASE Return(h)
      BY <2>5, <3>1 DEF TimeLeft, Return, Idle
    <3>2. CASE call' = [call EXCEPT ![h].pc = "setnx",
                                    ![h].ttl = expiresAt(call[h].store, call[h].token, call[h].at) - now]
      <4>1. call[h].token \in Events /\ call[h].store \in Stores /\ call[h].at \in Nat
        BY <2>5 DEF TimeLeft
      <4>2. expiresAt(call[h].store, call[h].token, call[h].at) - now \in Int
        BY <4>1 DEF expiresAt
      <4>3. call[h] \in Call /\ call[h].token \in signed /\ call[h].pc = "ttl"
        BY <2>5 DEF TimeLeft
      <4> DEFINE c == [call[h] EXCEPT !.pc = "setnx",
                                      !.ttl = expiresAt(call[h].store, call[h].token, call[h].at) - now]
      <4>4. c \in Call /\ c.pc = "setnx" /\ c.token \in signed
        BY <4>2, <4>3
      <4>5. call' = [call EXCEPT ![h] = c]
        BY <3>2
      <4> HIDE DEF c
      <4> QED
        BY <2>5, <4>4, <4>5 DEF TimeLeft
    <3> QED
      BY <2>5, <3>1, <3>2 DEF TimeLeft
  <2>6. ASSUME NEW h \in Handlers, SetNX(h) PROVE TypeOK'
    <3>1. call[h].store \in Stores /\ call[h].token \in Events /\ now + call[h].ttl \in Int
      BY <2>6 DEF SetNX
    <3>2. CASE SetKey(h)
      <4>1. until' \in [Stores -> [Events -> Int]]
        BY <2>6, <3>1, <3>2 DEF SetKey
      <4>2. passed' \in [Stores -> [Events -> Nat]]
        BY <2>6, <3>1, <3>2 DEF SetKey
      <4>3. call' \in [Handlers -> Call] /\ call'[h].token \in signed \cup {NoToken}
            /\ call'[h].pc \in {"ttl", "idle"}
            /\ (call'[h].pc = "ttl" => call'[h].token \in signed)
            /\ \A g \in Handlers : g # h => call'[g] = call[g]
        BY <2>6, <3>1, <3>2 DEF SetKey, SetNX, CheckAndStore, StartCall, Return, Idle
      <4> QED
        BY <2>6, <4>1, <4>2, <4>3 DEF SetNX
    <3>3. CASE /\ Return(h) /\ UNCHANGED passed
               /\ until' \in {until, [until EXCEPT ![call[h].store][call[h].token] = now + call[h].ttl]}
      BY <2>6, <3>1, <3>3 DEF SetNX, Return, Idle
    <3> QED
      BY <2>6, <3>2, <3>3 DEF SetNX
  <2>7. ASSUME NEW h \in Handlers, Insert(h) PROVE TypeOK'
    BY <2>7 DEF Insert, cleanupLocked, Return, Idle
  <2>8. ASSUME NEW h \in Handlers, Take(h) PROVE TypeOK'
    BY <2>8 DEF Take, cleanupLocked, Return, Idle
  <2>9. CASE Restart
    BY <2>9 DEF Restart, Idle
  <2>10. CASE Tick
    BY <2>10 DEF Tick
  <2>11. CASE UNCHANGED vars
    BY <2>11 DEF vars
  <2> QED
    BY <2>1, <2>2, <2>3, <2>4, <2>5, <2>6, <2>7, <2>8, <2>9, <2>10, <2>11 DEF Next
<1> QED
  BY <1>1, <1>2, PTL DEF Spec

-----------------------------------------------------------------------------
(* Signed events *)

\* A call on its way to Redis read the clock not before the timestamp less the
\* skew.
ReadInTime(c) ==
    c.pc \in {"ttl", "setnx"} => stamp[c.token] - MaxSkew <= c.at /\ c.at <= now

\* The key it is going to set outlives the deadline, however late SETNX arrives.
KeyWillLast(c) == c.pc = "setnx" => Deadline(c.store, c.token) <= now + c.ttl

\* The key of an event that passed outlives the deadline; nothing passed before
\* it was signed.
PassedOnce(k, e) ==
    /\ passed[k][e] <= 1
    /\ passed[k][e] > 0 => e \in signed /\ Deadline(k, e) <= until[k][e]

EventInv ==
    /\ \A h \in Handlers : ReadInTime(call[h]) /\ KeyWillLast(call[h])
    /\ \A k \in Stores, e \in Events : PassedOnce(k, e)

LEMMA EventInit == Init => EventInv
  BY DEF Init, EventInv, ReadInTime, KeyWillLast, PassedOnce, Idle, Stores

\* Steps that leave calls alone, end them, or start one that is not for Redis.
LEMMA EventFrame ==
    ASSUME TypeOK, EventInv, UNCHANGED <<stamp, signed, until, passed>>,
           now' \in Nat, now <= now',
           \A h \in Handlers : call'[h] = call[h] \/ call'[h].pc \notin {"ttl", "setnx"}
    PROVE  EventInv'
<1> USE OneTimeAssumptions DEF TypeOK, Call, Steps, Stores
<1>1. ASSUME NEW h \in Handlers PROVE ReadInTime(call[h])' /\ KeyWillLast(call[h])'
  <2>1. CASE call'[h].pc \notin {"ttl", "setnx"}
    BY <2>1 DEF ReadInTime, KeyWillLast
  <2>2. CASE call'[h] = call[h] /\ call[h].pc \in {"ttl", "setnx"}
    <3>1. call[h].token \in Events /\ call[h].store \in Stores /\ call[h].at \in Nat /\ call[h].ttl \in Int
      BY <2>2
    <3> QED
      BY <2>2, <3>1 DEF ReadInTime, KeyWillLast, EventInv, Deadline
  <2> QED
    BY <2>1, <2>2
<1>2. ASSUME NEW k \in Stores, NEW e \in Events PROVE PassedOnce(k, e)'
  BY DEF EventInv, PassedOnce, Deadline
<1> QED
  BY <1>1, <1>2 DEF EventInv

LEMMA EventSign ==
    ASSUME TypeOK, EventInv, NEW e \in Events, NEW drift \in -MaxDrift..MaxDrift, Sign(e, drift)
    PROVE  EventInv'
<1> USE OneTimeAssumptions DEF TypeOK, Call, Steps, Stores, Sign
<1>1. ASSUME NEW h \in Handlers PROVE ReadInTime(call[h])' /\ KeyWillLast(call[h])'
  <2>1. call[h].pc \in {"ttl", "setnx"} => stamp'[call[h].token] = stamp[call[h].token]
    OBVIOUS
  <2> QED
    BY <2>1 DEF ReadInTime, KeyWillLast, EventInv, Deadline
<1>2. ASSUME NEW k \in Stores, NEW x \in Events PROVE PassedOnce(k, x)'
  <2>1. CASE x = e
    BY <2>1 DEF EventInv, PassedOnce
  <2>2. CASE x # e
    BY <2>2 DEF EventInv, PassedOnce, Deadline
  <2> QED
    BY <2>1, <2>2
<1> QED
  BY <1>1, <1>2 DEF EventInv

LEMMA EventVerify ==
    ASSUME TypeOK, EventInv, NEW h \in Handlers, NEW e \in Events, Verify(h, e)
    PROVE  EventInv'
<1> USE OneTimeAssumptions DEF TypeOK, Call, Steps, Stores, Verify, CheckAndStore, StartCall
<1>1. ReadInTime(call[h])' /\ KeyWillLast(call[h])'
  BY DEF ReadInTime, KeyWillLast, withinSkew
<1>2. ASSUME NEW g \in Handlers, g # h PROVE ReadInTime(call[g])' /\ KeyWillLast(call[g])'
  BY <1>2 DEF EventInv, ReadInTime, KeyWillLast, Deadline
<1>3. ASSUME NEW k \in Stores, NEW x \in Events PROVE PassedOnce(k, x)'
  BY DEF EventInv, PassedOnce, Deadline
<1> QED
  BY <1>1, <1>2, <1>3 DEF EventInv

LEMMA EventTimeLeft ==
    ASSUME TypeOK, EventInv, NEW h \in Handlers, TimeLeft(h)
    PROVE  EventInv'
<1> USE OneTimeAssumptions DEF TypeOK, Call, Steps, Stores
<1>1. CASE Return(h)
  <2>1. \A g \in Handlers : call'[g] = call[g] \/ call'[g].pc \notin {"ttl", "setnx"}
    BY <1>1 DEF Return, Idle
  <2> QED
    BY <2>1, EventFrame DEF TimeLeft
<1>2. CASE call' = [call EXCEPT ![h].pc = "setnx",
                                ![h].ttl = expiresAt(call[h].store, call[h].token, call[h].at) - now]
  <2>1. call[h].token \in Events /\ call[h].store \in Stores /\ call[h].at \in Nat
    BY DEF TimeLeft
  <2>2. /\ call'[h].pc = "setnx" /\ call'[h].store = call[h].store
        /\ call'[h].token = call[h].token /\ call'[h].at = call[h].at
        /\ call'[h].ttl = expiresAt(call[h].store, call[h].token, call[h].at) - now
        /\ \A g \in Handlers : g # h => call'[g] = call[g]
    BY <1>2
  <2>3. stamp[call[h].token] - MaxSkew <= call[h].at /\ call[h].at <= now
    BY DEF EventInv, ReadInTime, TimeLeft
  <2>4. ReadInTime(call[h])' /\ KeyWillLast(call[h])'
    <3>1. ReadInTime(call[h])'
      BY <2>2, <2>3 DEF ReadInTime, TimeLeft
    <3>2. KeyWillLast(call[h])'
      BY <2>1, <2>2, <2>3 DEF KeyWillLast, Deadline, expiresAt, TimeLeft
    <3> QED
      BY <3>1, <3>2
  <2>5. ASSUME NEW g \in Handlers, g # h PROVE ReadInTime(call[g])' /\ KeyWillLast(call[g])'
    BY <2>2, <2>5 DEF EventInv, ReadInTime, KeyWillLast, Deadline, TimeLeft
  <2>6. ASSUME NEW k \in Stores, NEW x \in Events PROVE PassedOnce(k, x)'
    BY DEF EventInv, PassedOnce, Deadline, TimeLeft
  <2> QED
    BY <2>4, <2>5, <2>6 DEF EventInv
<1> QED
  BY <1>1, <1>2 DEF TimeLeft

LEMMA EventSetNX ==
    ASSUME TypeOK, EventInv, NEW h \in Handlers, SetNX(h)
    PROVE  EventInv'
<1> USE OneTimeAssumptions DEF TypeOK, Call, Steps, Stores
<1> DEFINE k == call[h].store
           e == call[h].token
<1>1. k \in Stores /\ e \in Events /\ e \in signed /\ call[h].ttl \in Int /\ call[h].at \in Nat
  BY DEF SetNX
<1>2. Deadline(k, e) <= now + call[h].ttl
  BY DEF SetNX, EventInv, KeyWillLast
<1>3. stamp[e] - MaxSkew <= now
  BY <1>1 DEF SetNX, EventInv, ReadInTime
<1>4. UNCHANGED <<now, stamp, signed>>
  BY DEF SetNX
<1>5. Deadline(k, e) \in Int
  BY <1>1 DEF Deadline
<1>6. \A g \in Handlers : ReadInTime(call[g])' /\ KeyWillLast(call[g])'
  <2>1. CASE Return(h)
    BY <1>4, <2>1 DEF Return, Idle, EventInv, ReadInTime, KeyWillLast, Deadline
  <2>2. CASE CheckAndStore(h, "event", e)
    <3>1. call'[h] = [pc |-> "ttl", store |-> "event", token |-> e, at |-> now, ttl |-> 0]
          /\ \A g \in Handlers : g # h => call'[g] = call[g]
      BY <2>2 DEF CheckAndStore, StartCall
    <3>2. ReadInTime(call[h])' /\ KeyWillLast(call[h])'
      BY <1>1, <1>3, <1>4, <3>1 DEF ReadInTime, KeyWillLast
    <3>3. ASSUME NEW g \in Handlers, g # h PROVE ReadInTime(call[g])' /\ KeyWillLast(call[g])'
      BY <1>4, <3>1, <3>3 DEF EventInv, ReadInTime, KeyWillLast, Deadline
    <3> QED
      BY <3>2, <3>3
  <2> QED
    BY <2>1, <2>2 DEF SetNX, SetKey
<1>7. ASSUME NEW x \in Stores, NEW y \in Events PROVE PassedOnce(x, y)'
  <2>1. PassedOnce(x, y) /\ Deadline(x, y)' = Deadline(x, y) /\ Deadline(x, y) \in Int
        /\ until[x][y] \in Int /\ passed[x][y] \in Nat
    BY <1>4 DEF EventInv, Deadline
  <2>2. CASE UNCHANGED <<until, passed>>
    BY <1>4, <2>1, <2>2 DEF PassedOnce
  <2>3. CASE ~TakenKey(call[h]) /\ until' = [until EXCEPT ![k][e] = now + call[h].ttl]
             /\ passed' \in {passed, IF now < Deadline(k, e) THEN [passed EXCEPT ![k][e] = @ + 1] ELSE passed}
    <3>1. CASE x = k /\ y = e
      <4>1. until[x][y] <= now
        BY <2>1, <2>3, <3>1 DEF TakenKey
      <4>2. until'[x][y] = now + call[h].ttl
        BY <1>1, <2>3, <3>1
      <4>3. passed'[x][y] = passed[x][y] \/ (now < Deadline(x, y) /\ passed'[x][y] = passed[x][y] + 1)
        BY <1>1, <2>3, <3>1
      <4> QED
        BY <1>1, <1>2, <1>4, <2>1, <3>1, <4>1, <4>2, <4>3 DEF PassedOnce
    <3>2. CASE x # k \/ y # e
      <4>1. until'[x][y] = until[x][y] /\ passed'[x][y] = passed[x][y]
        BY <1>1, <2>3, <3>2
      <4> QED
        BY <1>4, <2>1, <4>1 DEF PassedOnce
    <3> QED
      BY <3>1, <3>2
  <2> QED
    BY <2>2, <2>3 DEF SetNX, SetKey
<1> QED
  BY <1>6, <1>7 DEF EventInv

LEMMA EventStep == TypeOK /\ EventInv /\ [Next]_vars => EventInv'
<1> SUFFICES ASSUME TypeOK, EventInv, [Next]_vars PROVE EventInv'
  OBVIOUS
<1> USE DEF TypeOK
<1>1. ASSUME NEW e \in Events, NEW drift \in -MaxDrift..MaxDrift, Sign(e, drift) PROVE EventInv'
  BY <1>1, EventSign
<1>2. ASSUME NEW h \in Handlers, NEW e \in Events, Verify(h, e) PROVE EventInv'
  BY <1>2, EventVerify
<1>3. ASSUME NEW h \in Handlers, TimeLeft(h) PROVE EventInv'
  BY <1>3, EventTimeLeft
<1>4. ASSUME NEW h \in Handlers, SetNX(h) PROVE EventInv'
  BY <1>4, EventSetNX
<1>5. ASSUME NEW h \in Handlers, NEW s \in States, Begin(h, s) \/ Complete(h, s) PROVE EventInv'
  BY <1>5, EventFrame DEF Begin, Complete, StartCall
<1>6. ASSUME NEW h \in Handlers, Insert(h) \/ Take(h) PROVE EventInv'
  BY <1>6, EventFrame DEF Insert, Take, Return, Idle
<1>7. CASE Restart
  BY <1>7, EventFrame DEF Restart, Idle
<1>8. CASE Tick
  BY <1>8, EventFrame DEF Tick
<1>9. CASE UNCHANGED vars
  BY <1>9, EventFrame DEF vars
<1> QED
  BY <1>1, <1>2, <1>3, <1>4, <1>5, <1>6, <1>7, <1>8, <1>9 DEF Next

LEMMA EventInvariant == Spec => []EventInv
  BY EventInit, EventStep, TypeCorrect, PTL DEF Spec

\* VerifiedOnce for any number of concurrent and delayed calls, any drift of the
\* sender and any skew.
THEOREM EventsVerifiedOnce == Spec => []VerifiedOnce
<1>1. EventInv => VerifiedOnce
  BY DEF EventInv, PassedOnce, VerifiedOnce, Stores
<1> QED
  BY <1>1, EventInvariant, PTL

\* AppliedOnce under the same conditions: the id of an event is claimed by one
\* call at most, also when its nonce was accepted again.
THEOREM EventsAppliedOnce == Spec => []AppliedOnce
<1>1. EventInv => AppliedOnce
  BY DEF EventInv, PassedOnce, AppliedOnce, Stores
<1> QED
  BY <1>1, EventInvariant, PTL

-----------------------------------------------------------------------------
(* Login states *)

Inserting(h, s) == call[h].pc = "insert" /\ call[h].token = s

\* A state is new, waits to be inserted by one call, is in the map, or is over.
LoginInv ==
    /\ LoginStateOnce
    /\ \A s \in States : s \notin begun => done[s] = 0 /\ pending[s] = 0
    /\ \A h \in Handlers, s \in States : Inserting(h, s) =>
        /\ done[s] = 0 /\ pending[s] = 0
        /\ \A g \in Handlers : Inserting(g, s) => g = h

LEMMA LoginInit == Init => LoginInv
  BY DEF Init, LoginInv, LoginStateOnce, Inserting, Idle

\* Steps that begin no insertion and, of the map, at most remove states.
LEMMA LoginFrame ==
    ASSUME TypeOK, LoginInv, UNCHANGED done, begun \subseteq begun',
           pending' \in [States -> Nat], \A s \in States : pending'[s] \in {0, pending[s]},
           \A h \in Handlers, s \in States : Inserting(h, s)' => Inserting(h, s)
    PROVE  LoginInv'
  BY DEF TypeOK, LoginInv, LoginStateOnce

LEMMA LoginBegin ==
    ASSUME TypeOK, LoginInv, NEW h \in Handlers, NEW s \in States, Begin(h, s)
    PROVE  LoginInv'
<1>1. /\ call'[h].pc = "insert" /\ call'[h].token = s
      /\ \A g \in Handlers : g # h => call'[g] = call[g]
  BY DEF Begin, StartCall, TypeOK
<1>2. \A g \in Handlers : ~Inserting(g, s)
  BY DEF Begin, TypeOK, Inserting
<1>3. \A g \in Handlers, x \in States : Inserting(g, x)' <=> ((g = h /\ x = s) \/ (g # h /\ Inserting(g, x)))
  BY <1>1 DEF Inserting
<1>4. done[s] = 0 /\ pending[s] = 0
  BY DEF Begin, LoginInv
<1> QED
  BY <1>2, <1>3, <1>4 DEF Begin, LoginInv, LoginStateOnce

LEMMA LoginInsert ==
    ASSUME TypeOK, LoginInv, NEW h \in Handlers, Insert(h)
    PROVE  LoginInv'
<1>0. PICK s \in States : s = call[h].token
  BY DEF Insert, TypeOK
<1>1. s \in begun /\ call[h].at \in Nat /\ Inserting(h, s)
  BY <1>0 DEF Insert, TypeOK, Call, Inserting
<1>2. done[s] = 0 /\ \A g \in Handlers : Inserting(g, s) => g = h
  BY <1>1 DEF LoginInv
<1>3. /\ pending' \in [States -> Nat]
      /\ \A x \in States : x # s => pending'[x] \in {0, pending[x]}
  BY <1>0, <1>1, OneTimeAssumptions DEF Insert, cleanupLocked, TypeOK
<1>4. \A g \in Handlers, x \in States : Inserting(g, x)' => Inserting(g, x) /\ g # h
  BY DEF Insert, Return, Idle, TypeOK, Inserting
<1>5. \A g \in Handlers : ~Inserting(g, s)'
  BY <1>1, <1>2, <1>4
<1>6. UNCHANGED <<begun, done>>
  BY DEF Insert
<1>7. LoginStateOnce'
  BY <1>1, <1>2, <1>3, <1>6 DEF LoginInv, LoginStateOnce, TypeOK
<1>8. \A x \in States : x \notin begun' => done'[x] = 0 /\ pending'[x] = 0
  BY <1>1, <1>3, <1>6 DEF LoginInv, TypeOK
<1>9. ASSUME NEW g \in Handlers, NEW x \in States, Inserting(g, x)'
      PROVE  /\ done'[x] = 0 /\ pending'[x] = 0
             /\ \A f \in Handlers : Inserting(f, x)' => f = g
  <2>1. Inserting(g, x) /\ x # s
    BY <1>4, <1>5, <1>9
  <2>2. done[x] = 0 /\ pending[x] = 0 /\ \A f \in Handlers : Inserting(f, x) => f = g
    BY <2>1 DEF LoginInv
  <2> QED
    BY <1>3, <1>4, <1>6, <2>1, <2>2
<1> QED
  BY <1>7, <1>8, <1>9 DEF LoginInv

LEMMA LoginTake ==
    ASSUME TypeOK, LoginInv, NEW h \in Handlers, Take(h)
    PROVE  LoginInv'
<1> DEFINE s == call[h].token
           live == cleanupLocked(call[h].at)
<1>1. s \in States /\ s \in begun /\ call[h].at \in Nat
  BY DEF Take, TypeOK, Call
<1>2. live \in [States -> Nat] /\ \A x \in States : live[x] \in {0, pending[x]}
  BY <1>1 DEF cleanupLocked, TypeOK
<1>3. /\ pending' = [live EXCEPT ![s] = 0]
      /\ done' = [done EXCEPT ![s] = IF live[s] > 0 THEN @ + 1 ELSE @]
      /\ UNCHANGED begun
  BY DEF Take
<1>4. \A g \in Handlers, x \in States : Inserting(g, x)' => Inserting(g, x)
  BY DEF Take, Return, Idle, TypeOK, Inserting
<1> HIDE DEF s, live
<1>5. ASSUME NEW x \in States
      PROVE  /\ done'[x] + (IF pending'[x] > 0 THEN 1 ELSE 0) <= 1
             /\ done[x] = 0 /\ pending[x] = 0 => done'[x] = 0 /\ pending'[x] = 0
  <2>1. done[x] \in Nat /\ pending[x] \in Nat /\ live[x] \in {0, pending[x]}
        /\ done[x] + (IF pending[x] > 0 THEN 1 ELSE 0) <= 1
    BY <1>2 DEF LoginInv, LoginStateOnce, TypeOK
  <2>2. CASE x = s
    <3>1. pending'[x] = 0 /\ done'[x] = IF live[x] > 0 THEN done[x] + 1 ELSE done[x]
      BY <1>1, <1>2, <1>3, <2>2 DEF TypeOK
    <3> QED
      BY <2>1, <3>1
  <2>3. CASE x # s
    <3>1. pending'[x] = live[x] /\ done'[x] = done[x]
      BY <1>1, <1>2, <1>3, <2>3 DEF TypeOK
    <3> QED
      BY <2>1, <3>1
  <2> QED
    BY <2>2, <2>3
<1>6. LoginStateOnce'
  BY <1>5 DEF LoginStateOnce
<1>7. \A x \in States : x \notin begun' => done'[x] = 0 /\ pending'[x] = 0
  BY <1>3, <1>5 DEF LoginInv
<1>8. ASSUME NEW g \in Handlers, NEW x \in States, Inserting(g, x)'
      PROVE  /\ done'[x] = 0 /\ pending'[x] = 0
             /\ \A f \in Handlers : Inserting(f, x)' => f = g
  <2>1. done[x] = 0 /\ pending[x] = 0 /\ \A f \in Handlers : Inserting(f, x) => f = g
    BY <1>4, <1>8 DEF LoginInv
  <2> QED
    BY <1>4, <1>5, <2>1
<1> QED
  BY <1>6, <1>7, <1>8 DEF LoginInv

LEMMA LoginStep == TypeOK /\ LoginInv /\ [Next]_vars => LoginInv'
<1> SUFFICES ASSUME TypeOK, LoginInv, [Next]_vars PROVE LoginInv'
  OBVIOUS
<1>1. ASSUME NEW e \in Events, NEW drift \in -MaxDrift..MaxDrift, Sign(e, drift) PROVE LoginInv'
  BY <1>1, LoginFrame DEF Sign, Inserting, TypeOK
<1>2. ASSUME NEW h \in Handlers, NEW e \in Events, Verify(h, e) PROVE LoginInv'
  <2>1. \A g \in Handlers, x \in States : Inserting(g, x)' => Inserting(g, x)
    BY <1>2 DEF Verify, CheckAndStore, StartCall, Inserting, TypeOK
  <2> QED
    BY <1>2, <2>1, LoginFrame DEF Verify, TypeOK
<1>3. ASSUME NEW h \in Handlers, TimeLeft(h) PROVE LoginInv'
  <2>1. \A g \in Handlers, x \in States : Inserting(g, x)' => Inserting(g, x)
    <3>1. CASE Return(h)
      BY <3>1 DEF Return, Idle, Inserting, TypeOK
    <3>2. CASE call' = [call EXCEPT ![h].pc = "setnx",
                                    ![h].ttl = expiresAt(call[h].store, call[h].token, call[h].at) - now]
      <4>1. call'[h].pc = "setnx" /\ \A g \in Handlers : g # h => call'[g] = call[g]
        BY <3>2 DEF TypeOK, Call
      <4> QED
        BY <4>1 DEF Inserting
    <3> QED
      BY <1>3, <3>1, <3>2 DEF TimeLeft
  <2> QED
    BY <1>3, <2>1, LoginFrame DEF TimeLeft, TypeOK
<1>4. ASSUME NEW h \in Handlers, SetNX(h) PROVE LoginInv'
  <2>1. Return(h) \/ CheckAndStore(h, "event", call[h].token)
    BY <1>4 DEF SetNX, SetKey
  <2>2. \A g \in Handlers, s \in States : Inserting(g, s)' => Inserting(g, s)
    <3>1. call'[h].pc \in {"idle", "ttl"} /\ \A g \in Handlers : g # h => call'[g] = call[g]
      BY <2>1 DEF CheckAndStore, StartCall, Return, Idle, TypeOK
    <3> QED
      BY <3>1 DEF Inserting
  <2> QED
    BY <1>4, <2>2, LoginFrame DEF SetNX, TypeOK
<1>5. ASSUME NEW h \in Handlers, NEW s \in States, Begin(h, s) PROVE LoginInv'
  BY <1>5, LoginBegin
<1>6. ASSUME NEW h \in Handlers, NEW s \in States, Complete(h, s) PROVE LoginInv'
  <2>1. \A g \in Handlers, x \in States : Inserting(g, x)' => Inserting(g, x)
    BY <1>6 DEF Complete, StartCall, Inserting, TypeOK
  <2> QED
    BY <1>6, <2>1, LoginFrame DEF Complete, TypeOK
<1>7. ASSUME NEW h \in Handlers, Insert(h) PROVE LoginInv'
  BY <1>7, LoginInsert
<1>8. ASSUME NEW h \in Handlers, Take(h) PROVE LoginInv'
  BY <1>8, LoginTake
<1>9. CASE Restart
  BY <1>9, LoginFrame DEF Restart, Idle, Inserting, TypeOK
<1>10. CASE Tick
  BY <1>10, LoginFrame DEF Tick, Inserting, TypeOK
<1>11. CASE UNCHANGED vars
  BY <1>11, LoginFrame DEF vars, Inserting, TypeOK
<1> QED
  BY <1>1, <1>2, <1>3, <1>4, <1>5, <1>6, <1>7, <1>8, <1>9, <1>10, <1>11 DEF Next

\* LoginStateOnce for any number of logins and concurrent callbacks.
THEOREM LoginsOnce == Spec => []LoginStateOnce
<1>1. LoginInv => LoginStateOnce
  BY DEF LoginInv
<1> QED
  BY <1>1, LoginInit, LoginStep, TypeCorrect, PTL DEF Spec
=============================================================================
