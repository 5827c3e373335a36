--------------------------- MODULE IdentityProofs ---------------------------
(***************************************************************************)
(* Proofs about LevelProgress: the portal accepts whatever the plugin      *)
(* serializes.  Proofs about Identity: for any history of the member, any  *)
(* number of overlapping requests, events and faults.                      *)
(***************************************************************************)
EXTENDS Identity, SequenceTheorems, TLAPS

-----------------------------------------------------------------------------
(* The tables of requirements *)

Entry == [key : Keys, scope : {"account_lifetime", "rolling_period", "all_time"},
          operator : {"at_least", "at_most", "equals"}, unit : {"count", "days", "minutes"}]

\* The tables of requirements are made of known keys, scopes, operators and units.
LEMMA Tables ==
    /\ tl1_requirements \in Seq(Entry) /\ Len(tl1_requirements) = 4
    /\ tl2_requirements \in Seq(Entry) /\ Len(tl2_requirements) = 8
    /\ tl3_requirements \in Seq(Entry) /\ Len(tl3_requirements) = 12
<1> USE DEF Entry, Keys, requirement, lifetime_requirement, rolling_requirement, all_time_requirement
<1>1. tl1_requirements \in Seq(Entry) /\ Len(tl1_requirements) = 4
  BY DEF tl1_requirements
<1>2. DEFINE more == <<lifetime_requirement("days_visited", "days"),
                       lifetime_requirement("likes_received", "count"),
                       lifetime_requirement("likes_given", "count"),
                       lifetime_requirement("num_topics_replied_to", "count")>>
<1>3. more \in Seq(Entry) /\ Len(more) = 4
  OBVIOUS
<1>4. tl2_requirements = tl1_requirements \o more
  BY DEF tl2_requirements
<1>5. tl2_requirements \in Seq(Entry) /\ Len(tl2_requirements) = 8
  <2> HIDE DEF more, Entry
  <2>1. tl1_requirements \o more \in Seq(Entry)
        /\ Len(tl1_requirements \o more) = Len(tl1_requirements) + Len(more)
    BY <1>1, <1>3, ConcatProperties, Zenon
  <2> QED
    BY <1>1, <1>3, <1>4, <2>1
<1>6. tl3_requirements \in Seq(Entry) /\ Len(tl3_requirements) = 12
  BY DEF tl3_requirements
<1> QED
  BY <1>1, <1>5, <1>6

-----------------------------------------------------------------------------
(* The snapshot *)

\* Every requirement of a snapshot passes validateLevelRequirement.
LEMMA MeasuredValid ==
    ASSUME NEW m \in Member, NEW q \in Entry
    PROVE  validateLevelRequirement(measured(m, q))
  BY DEF Member, Entry, measured, validateLevelRequirement

AllMeasured(m, table) == [i \in 1..Len(table) |-> measured(m, table[i])]

AllValid(reqs) ==
    Len(reqs) <= 64 /\ \A i \in 1..Len(reqs) : validateLevelRequirement(reqs[i])

LEMMA AllMeasuredValid ==
    ASSUME NEW m \in Member, NEW table \in Seq(Entry), Len(table) <= 64
    PROVE  AllValid(AllMeasured(m, table))
<1>1. Len(AllMeasured(m, table)) = Len(table)
  BY DEF AllMeasured
<1>2. ASSUME NEW i \in 1..Len(table) PROVE validateLevelRequirement(AllMeasured(m, table)[i])
  <2>1. table[i] \in Entry /\ AllMeasured(m, table)[i] = measured(m, table[i])
    BY DEF AllMeasured
  <2> QED
    BY <2>1, MeasuredValid
<1> QED
  BY <1>1, <1>2 DEF AllValid

\* The requirements of a snapshot, whatever the next level.
LEMMA RequirementsValid ==
    ASSUME NEW m \in Member
    PROVE  AllValid(requirements(m))
<1>1. \/ requirements(m) = AllMeasured(m, tl1_requirements)
      \/ requirements(m) = AllMeasured(m, tl2_requirements)
      \/ requirements(m) = AllMeasured(m, tl3_requirements)
      \/ requirements(m) = AllMeasured(m, <<>>)
  <2>1. CASE next_level_id(m) = 1
    BY <2>1 DEF requirements, AllMeasured
  <2>2. CASE next_level_id(m) = 2
    BY <2>2 DEF requirements, AllMeasured
  <2>3. CASE next_level_id(m) = 3
    BY <2>3 DEF requirements, AllMeasured
  <2>4. CASE next_level_id(m) \notin {1, 2, 3}
    BY <2>4 DEF requirements, AllMeasured
  <2> QED
    BY <2>1, <2>2, <2>3, <2>4
<1>2. /\ tl1_requirements \in Seq(Entry) /\ Len(tl1_requirements) <= 64
      /\ tl2_requirements \in Seq(Entry) /\ Len(tl2_requirements) <= 64
      /\ tl3_requirements \in Seq(Entry) /\ Len(tl3_requirements) <= 64
      /\ <<>> \in Seq(Entry) /\ Len(<<>>) <= 64
  BY Tables
<1> QED
  BY <1>1, <1>2, AllMeasuredValid

\* The mode, the answer and the next level of a snapshot fit together.
LEMMA PromotionValid ==
    ASSUME NEW m \in Member
    PROVE  validPromotion(to_h(m))
<1>1. m.level \in Levels
  BY DEF Member
<1>2. requirements_met(m) = Nil <=> promotion_mode(m) # "automatic"
  BY DEF requirements_met, Nil
<1> DEFINE s == to_h(m)
<1>3. s.mode = promotion_mode(m) /\ s.met = requirements_met(m) /\ s.current = m.level
      /\ s.next = next_level_id(m)
  BY DEF to_h
<1> HIDE DEF s
<1>4. validPromotion(s)
  BY <1>1, <1>2, <1>3 DEF validPromotion, promotion_mode, next_level_id, Levels, NoLevel
<1> QED
  BY <1>4 DEF s

\* The blocking conditions of a snapshot, those of the lock and those of level 3.
LEMMA BlockingValid ==
    ASSUME NEW m \in Member
    PROVE  \A i \in 1..Len(blocking_conditions(m)) :
               validateBlockingCondition(blocking_conditions(m)[i])
<1> DEFINE Condition == [key : BlockingKeys, met : BOOLEAN]
           lock == IF m.locked /\ m.level < 4
                   THEN <<blocking_condition("not_manually_locked", FALSE)>> ELSE <<>>
           level3 == IF next_level_id(m) = 3 THEN tl3_blocking_conditions(m) ELSE <<>>
<1>0. ASSUME NEW k \in BlockingKeys, NEW b \in BOOLEAN PROVE blocking_condition(k, b) \in Condition
  BY DEF blocking_condition
<1>1. lock \in Seq(Condition)
  <2>1. PICK c \in Condition : c = blocking_condition("not_manually_locked", FALSE)
    BY <1>0 DEF BlockingKeys
  <2>2. <<c>> \in Seq(Condition) /\ <<>> \in Seq(Condition)
    <3> HIDE DEF Condition
    <3> QED
      OBVIOUS
  <2>3. lock = <<c>> \/ lock = <<>>
    BY <2>1
  <2> QED
    BY <2>2, <2>3, Zenon
<1>2. level3 \in Seq(Condition)
  <2>1. PICK c1 \in Condition : c1 = blocking_condition("not_silenced", ~m.silenced)
    BY <1>0 DEF BlockingKeys
  <2>2. PICK c2 \in Condition : c2 = blocking_condition("not_suspended", ~m.suspended)
    BY <1>0 DEF BlockingKeys
  <2>3. PICK c3 \in Condition : c3 = blocking_condition("no_recent_penalties", m.penalties = 0)
    BY <1>0 DEF BlockingKeys
  <2>4. <<c1, c2, c3>> \in Seq(Condition) /\ <<>> \in Seq(Condition)
    <3> HIDE DEF Condition
    <3> QED
      OBVIOUS
  <2>5. level3 = <<c1, c2, c3>> \/ level3 = <<>>
    BY <2>1, <2>2, <2>3 DEF tl3_blocking_conditions
  <2> QED
    BY <2>4, <2>5, Zenon
<1>3. blocking_conditions(m) = lock \o level3
  BY DEF blocking_conditions
<1> HIDE DEF lock, level3, Condition
<1>4. lock \o level3 \in Seq(Condition)
  BY <1>1, <1>2, ConcatProperties, Zenon
<1>5. ASSUME NEW t \in Seq(Condition), NEW i \in 1..Len(t) PROVE validateBlockingCondition(t[i])
  <2>1. t[i] \in Condition
    OBVIOUS
  <2> QED
    BY <2>1 DEF Condition, validateBlockingCondition
<1> QED
  BY <1>3, <1>4, <1>5

\* ValidateFor accepts, for the member's own id, every snapshot to_h makes: for all
\* numbers, settings, locks and penalties, on each of the five levels.
THEOREM SerializedAccepted ==
    ASSUME NEW m \in Member
    PROVE  ValidateFor(to_h(m), m.id)
<1>1. m.level \in Levels
  BY DEF Member
<1> DEFINE s == to_h(m)
<1>2. s.schema = 1 /\ s.id = m.id /\ s.current = m.level /\ s.requirements = requirements(m)
      /\ s.blocking = blocking_conditions(m)
  BY DEF to_h
<1>3. validPromotion(s)
  BY PromotionValid
<1> HIDE DEF s
<1>4. ValidateFor(s, m.id)
  BY <1>1, <1>2, <1>3, RequirementsValid, BlockingValid DEF ValidateFor, Levels, AllValid
<1> QED
  BY <1>4 DEF s

-----------------------------------------------------------------------------
(* Types *)

\* What a request holds at each of its steps.
ReqOK(q) ==
    /\ q \in Request
    /\ q.pc \in EventSteps => q.ev \in DOMAIN sent
    /\ q.pc \in EventSteps \ {"nonce"} => q.ev \in nonces
    /\ q.pc \in {"apply", "insert", "refresh", "persist"} => q.subject \in Subjects
    /\ q.pc \in {"find", "insert", "persist", "fill"} => q.ver \in Versions

TypeInv == TypeOK /\ \A r \in Requests : ReqOK(req[r])

\* The shared state has its types in the next state.
SharedOK ==
    /\ truth \in Versions
    /\ jobs \in Nat
    /\ sent \in Seq(Versions)
    /\ net \subseteq DOMAIN sent /\ waiting \subseteq DOMAIN sent
    /\ nonces \subseteq DOMAIN sent /\ eventIDs \subseteq nonces
    /\ row \in [subject : Subjects, ver : Versions] \cup {NoRow}
    /\ cache \in [state : {"none", "old", "snapshot"}, ver : Nat]
    /\ faults \in Nat
    /\ known \subseteq Subjects
    /\ regressed \in BOOLEAN /\ failed \in BOOLEAN
    /\ dropped \in Nat

LEMMA TypeInvParts == TypeInv <=> SharedOK /\ req \in [Requests -> Request] /\ \A r \in Requests : ReqOK(req[r])
  BY DEF TypeInv, TypeOK, SharedOK

\* A step of one request: the others keep what they hold, as sent and nonces only
\* grow.
LEMMA OneRequest ==
    ASSUME TypeInv, SharedOK', DOMAIN sent \subseteq DOMAIN sent', nonces \subseteq nonces',
           NEW r \in Requests, NEW q, ReqOK(q)', req' = [req EXCEPT ![r] = q]
    PROVE  TypeInv'
<1>1. q \in Request
  BY DEF ReqOK
<1>2. req' \in [Requests -> Request]
  BY <1>1, TypeInvParts
<1>3. ASSUME NEW p \in Requests PROVE ReqOK(req[p])'
  <2>1. CASE p = r
    BY <2>1, TypeInvParts
  <2>2. CASE p # r
    BY <2>2, TypeInvParts DEF ReqOK
  <2> QED
    BY <2>1, <2>2
<1> QED
  BY <1>2, <1>3 DEF TypeInv, TypeOK, SharedOK

LEMMA ReturnOK ==
    ASSUME TypeInv, SharedOK', DOMAIN sent \subseteq DOMAIN sent', nonces \subseteq nonces',
           NEW r \in Requests, Return(r)
    PROVE  TypeInv'
<1>1. PICK q : q = Idle
  OBVIOUS
<1>2. ReqOK(q)'
  BY <1>1 DEF ReqOK, Idle, Request, Steps, EventSteps
<1>3. req' = [req EXCEPT ![r] = q]
  BY <1>1 DEF Return
<1> QED
  BY <1>2, <1>3, OneRequest

\* A step that stores only the next pc, or also a subject or a version.
LEMMA MoveOK ==
    ASSUME TypeInv, SharedOK', UNCHANGED sent, nonces \subseteq nonces',
           NEW r \in Requests, NEW pc \in Steps, NEW ver \in Nat, NEW s \in Subjects \cup {None},
           req' = [req EXCEPT ![r] = [req[r] EXCEPT !.pc = pc, !.ver = ver, !.subject = s]],
           pc \in EventSteps => req[r].pc \in EventSteps,
           pc \in EventSteps \ {"nonce"} => req[r].ev \in nonces',
           pc \in {"apply", "insert", "refresh", "persist"} => s \in Subjects,
           pc \in {"find", "insert", "persist", "fill"} => ver \in Versions
    PROVE  TypeInv'
<1>1. PICK q : q = [req[r] EXCEPT !.pc = pc, !.ver = ver, !.subject = s]
  OBVIOUS
<1>2. req[r] \in Request /\ ReqOK(req[r])
  BY DEF TypeInv, ReqOK
<1>3. q \in Request /\ q.pc = pc /\ q.ver = ver /\ q.subject = s /\ q.ev = req[r].ev
  BY <1>1, <1>2 DEF Request
<1>4. ReqOK(q)'
  BY <1>2, <1>3 DEF ReqOK
<1>5. req' = [req EXCEPT ![r] = q]
  BY <1>1
<1> QED
  BY <1>4, <1>5, OneRequest

LEMMA GotoOK ==
    ASSUME TypeInv, SharedOK', UNCHANGED sent, nonces \subseteq nonces',
           NEW r \in Requests, NEW pc \in Steps, Goto(r, pc),
           pc \in EventSteps => req[r].pc \in EventSteps,
           pc \in EventSteps \ {"nonce"} => req[r].ev \in nonces',
           pc \in {"apply", "insert", "refresh", "persist"} => req[r].subject \in Subjects,
           pc \in {"find", "insert", "persist", "fill"} => req[r].ver \in Versions
    PROVE  TypeInv'
<1>1. req \in [Requests -> Request] /\ req[r] \in Request
  BY TypeInvParts
<1>2. req[r].ver \in Nat /\ req[r].subject \in Subjects \cup {None}
  BY <1>1 DEF Request
<1>3. req' = [req EXCEPT ![r] =
                 [req[r] EXCEPT !.pc = pc, !.ver = req[r].ver, !.subject = req[r].subject]]
  BY <1>1 DEF Goto, Request
<1> QED
  BY <1>2, <1>3, MoveOK

\* The versions and the sequence of events.
LEMMA VersionsFacts ==
    /\ Len(History) \in Nat /\ Versions \subseteq Nat /\ 1 \in Versions
  BY IdentityAssumptions DEF Versions

\* A row that is there has a subject.
LEMMA RowSubject == SharedOK /\ row.subject # None => row.subject \in Subjects /\ row.ver \in Versions
<1> SUFFICES ASSUME SharedOK, row.subject # None PROVE row.subject \in Subjects /\ row.ver \in Versions
  OBVIOUS
<1>1. NoRow.subject = None
  BY DEF NoRow
<1>2. row \in [subject : Subjects, ver : Versions] \/ row = NoRow
  BY DEF SharedOK
<1>3. row \in [subject : Subjects, ver : Versions]
  BY <1>1, <1>2
<1> QED
  BY <1>3

LEMMA TypeInit == Init => TypeInv
<1> SUFFICES ASSUME Init PROVE TypeInv
  OBVIOUS
<1>1. SharedOK
  <2>1. sent \in Seq(Versions) /\ DOMAIN sent = {}
    BY DEF Init
  <2>2. cache \in [state : {"none", "old", "snapshot"}, ver : Nat]
    BY DEF Init, NoSnapshot
  <2>3. truth \in Versions /\ row \in [subject : Subjects, ver : Versions] \cup {NoRow}
    BY VersionsFacts DEF Init
  <2>4. /\ jobs \in Nat /\ faults \in Nat /\ dropped \in Nat /\ known \subseteq Subjects
        /\ regressed \in BOOLEAN /\ failed \in BOOLEAN
        /\ net \subseteq DOMAIN sent /\ waiting \subseteq DOMAIN sent
        /\ nonces \subseteq DOMAIN sent /\ eventIDs \subseteq nonces
    BY DEF Init
  <2> QED
    BY <2>1, <2>2, <2>3, <2>4 DEF SharedOK
<1>2. Idle \in Request /\ Idle.pc = "idle"
  BY DEF Idle, Request, Steps
<1>3. \A r \in Requests : ReqOK(req[r])
  BY <1>2 DEF Init, ReqOK, EventSteps
<1> QED
  BY <1>1, <1>2, <1>3, TypeInvParts DEF Init

LEMMA TypePlugin ==
    ASSUME TypeInv, \/ Change \/ publish \/ CacheExpires
                    \/ \E e \in DOMAIN sent : NoAnswer(e) \/ Duplicate(e)
    PROVE  TypeInv'
<1> USE TypeInvParts, VersionsFacts
<1>1. SharedOK' /\ DOMAIN sent \subseteq DOMAIN sent' /\ UNCHANGED <<req, nonces>>
  <2>1. CASE Change
    BY <2>1 DEF Change, SharedOK, portal, Versions
  <2>2. CASE publish
    <3>1. sent' \in Seq(Versions) /\ Len(sent') = Len(sent) + 1 /\ DOMAIN sent' = 1..Len(sent')
          /\ DOMAIN sent = 1..Len(sent) /\ Len(sent) \in Nat
      BY <2>2 DEF publish, SharedOK
    <3> QED
      BY <2>2, <3>1 DEF publish, SharedOK, portal
  <2>3. CASE CacheExpires
    BY <2>3 DEF CacheExpires, SharedOK, NoSnapshot, local, plugin
  <2>4. ASSUME NEW e \in DOMAIN sent, NoAnswer(e) \/ Duplicate(e)
        PROVE  SharedOK' /\ DOMAIN sent \subseteq DOMAIN sent' /\ UNCHANGED <<req, nonces>>
    BY <2>4 DEF NoAnswer, Duplicate, SharedOK, portal, plugin
  <2> QED
    BY <2>1, <2>2, <2>3, <2>4
<1>2. ASSUME NEW r \in Requests PROVE ReqOK(req[r])'
  BY <1>1 DEF ReqOK
<1> QED
  BY <1>1, <1>2 DEF TypeInv, TypeOK, SharedOK

LEMMA TypeStart ==
    ASSUME TypeInv, NEW r \in Requests,
           \/ CurrentStatus(r) \/ EnsureShadowUser(r) \/ CurrentLevelProgress(r)
           \/ \E e \in DOMAIN sent : Deliver(r, e)
    PROVE  TypeInv'
<1> USE TypeInvParts, VersionsFacts DEF Request, Steps, EventSteps
<1>0. req \in [Requests -> Request]
  OBVIOUS
<1>1. CASE CurrentStatus(r)
  <2>1. PICK q : q = [pc |-> "refresh", ev |-> 0, ver |-> 0, subject |-> row.subject, since |-> truth]
    OBVIOUS
  <2>2. row.subject \in Subjects /\ truth \in Nat
    BY <1>1, RowSubject DEF CurrentStatus, SharedOK
  <2>3. SharedOK' /\ UNCHANGED <<sent, nonces>> /\ ReqOK(q)'
    <3>1. SharedOK' /\ UNCHANGED <<sent, nonces>>
      BY <1>1 DEF CurrentStatus, SharedOK, local, plugin
    <3>2. ReqOK(q)'
      BY <2>1, <2>2, <3>1 DEF ReqOK
    <3> QED
      BY <3>1, <3>2
  <2>4. req' = [req EXCEPT ![r] = q]
    BY <1>1, <2>1 DEF CurrentStatus, Start
  <2> QED
    BY <2>3, <2>4, OneRequest
<1>2. CASE EnsureShadowUser(r)
  <2>1. PICK q : q = [pc |-> "fetch", ev |-> 0, ver |-> 0, subject |-> None, since |-> 0]
    OBVIOUS
  <2>2. SharedOK' /\ UNCHANGED <<sent, nonces>> /\ ReqOK(q)'
    <3>1. SharedOK' /\ UNCHANGED <<sent, nonces>>
      BY <1>2 DEF EnsureShadowUser, SharedOK, local, plugin
    <3>2. ReqOK(q)'
      BY <2>1, <3>1 DEF ReqOK
    <3> QED
      BY <3>1, <3>2
  <2>3. req' = [req EXCEPT ![r] = q]
    BY <1>2, <2>1 DEF EnsureShadowUser, Start
  <2> QED
    BY <2>2, <2>3, OneRequest
<1>3. CASE CurrentLevelProgress(r)
  <2>1. PICK q : q = [pc |-> "cached", ev |-> 0, ver |-> 0, subject |-> None, since |-> 0]
    OBVIOUS
  <2>2. SharedOK' /\ UNCHANGED <<sent, nonces>> /\ ReqOK(q)'
    <3>1. SharedOK' /\ UNCHANGED <<sent, nonces>>
      BY <1>3 DEF CurrentLevelProgress, SharedOK, local, plugin
    <3>2. ReqOK(q)'
      BY <2>1, <3>1 DEF ReqOK
    <3> QED
      BY <3>1, <3>2
  <2>3. req' = [req EXCEPT ![r] = q]
    BY <1>3, <2>1 DEF CurrentLevelProgress, Start
  <2> QED
    BY <2>2, <2>3, OneRequest
<1>4. ASSUME NEW e \in DOMAIN sent, Deliver(r, e) PROVE TypeInv'
  <2>1. PICK q : q = [pc |-> "nonce", ev |-> e, ver |-> 0, subject |-> None, since |-> 0]
    OBVIOUS
  <2>2. e \in Nat
    BY DEF SharedOK
  <2>3. SharedOK' /\ UNCHANGED <<sent, nonces>> /\ ReqOK(q)'
    <3>1. SharedOK' /\ UNCHANGED <<sent, nonces>>
      BY <1>4 DEF Deliver, SharedOK, plugin
    <3>2. ReqOK(q)'
      BY <2>1, <2>2, <3>1 DEF ReqOK
    <3> QED
      BY <3>1, <3>2
  <2>4. req' = [req EXCEPT ![r] = q]
    BY <1>4, <2>1 DEF Deliver, Start
  <2> QED
    BY <2>3, <2>4, OneRequest
<1> QED
  BY <1>1, <1>2, <1>3, <1>4

\* The steps of EventConsumer.
LEMMA TypeEvent ==
    ASSUME TypeInv, NEW r \in Requests,
           \/ VerifyNonce(r) \/ StoreEventID(r) \/ LookupMember(r) \/ ApplyEvent(r) \/ InvalidateCache(r)
    PROVE  TypeInv'
<1>0. /\ SharedOK /\ req[r] \in Request /\ ReqOK(req[r])
      /\ req[r].ver \in Nat /\ req[r].subject \in Subjects \cup {None}
  BY TypeInvParts DEF Request
<1> USE DEF At, Steps, EventSteps
<1>1. CASE VerifyNonce(r)
  <2>1. req[r].ev \in DOMAIN sent /\ req[r].pc \in EventSteps
    BY <1>0, <1>1 DEF VerifyNonce, ReqOK
  <2>2. SharedOK' /\ UNCHANGED sent /\ nonces \subseteq nonces' /\ req[r].ev \in nonces'
    BY <1>0, <1>1, <2>1 DEF VerifyNonce, SharedOK, Answer, plugin
  <2>3. Return(r) \/ Goto(r, "eventid")
    BY <1>1 DEF VerifyNonce
  <2> QED
    BY <2>1, <2>2, <2>3, ReturnOK, GotoOK
<1>2. CASE StoreEventID(r)
  <2>1. req[r].ev \in nonces /\ req[r].pc \in EventSteps
    BY <1>0, <1>2 DEF StoreEventID, ReqOK
  <2>2. SharedOK' /\ UNCHANGED <<sent, nonces>>
    BY <1>0, <1>2, <2>1 DEF StoreEventID, SharedOK, Answer, plugin
  <2>3. Return(r) \/ Goto(r, "lookup")
    BY <1>2 DEF StoreEventID
  <2> QED
    BY <2>1, <2>2, <2>3, ReturnOK, GotoOK
<1>3. CASE LookupMember(r)
  <2>1. req[r].ev \in nonces /\ req[r].pc \in EventSteps
    BY <1>0, <1>3 DEF LookupMember, ReqOK
  <2>2. SharedOK' /\ UNCHANGED <<sent, nonces>>
    BY <1>0, <1>3 DEF LookupMember, SharedOK, Answer, plugin
  <2>3. CASE Return(r)
    BY <2>2, <2>3, ReturnOK
  <2>4. CASE row.subject # None /\ req' = [req EXCEPT ![r].pc = "apply", ![r].subject = row.subject]
    <3>1. PICK s : s = row.subject
      OBVIOUS
    <3>2. s \in Subjects
      BY <1>0, <2>4, <3>1, RowSubject
    <3>3. req' = [req EXCEPT ![r] =
                     [req[r] EXCEPT !.pc = "apply", !.ver = req[r].ver, !.subject = s]]
      BY <1>0, <2>4, <3>1, TypeInvParts DEF Request
    <3>4. PICK v \in Nat : v = req[r].ver
      BY <1>0
    <3>5. PICK pc \in Steps : pc = "apply"
      OBVIOUS
    <3>6. req' = [req EXCEPT ![r] = [req[r] EXCEPT !.pc = pc, !.ver = v, !.subject = s]]
      BY <3>3, <3>4, <3>5
    <3>7. /\ pc \in EventSteps => req[r].pc \in EventSteps
          /\ pc \in EventSteps \ {"nonce"} => req[r].ev \in nonces'
          /\ pc \in {"find", "insert", "persist", "fill"} => v \in Versions
          /\ s \in Subjects \cup {None} /\ nonces \subseteq nonces'
      BY <2>1, <2>2, <3>2, <3>5
    <3> HIDE DEF Steps, EventSteps
    <3> QED
      BY <2>2, <3>2, <3>6, <3>7, MoveOK
  <2> QED
    BY <1>3, <2>3, <2>4 DEF LookupMember
<1>4. CASE ApplyEvent(r)
  <2>1. req[r].ev \in nonces /\ req[r].pc \in EventSteps /\ req[r].subject \in Subjects
        /\ req[r].ev \in DOMAIN sent
    BY <1>0, <1>4 DEF ApplyEvent, ReqOK
  <2>2. sent[req[r].ev] \in Versions
    BY <1>0, <2>1 DEF SharedOK
  <2>3. row' \in [subject : Subjects, ver : Versions] /\ regressed' \in BOOLEAN
    BY <1>0, <1>4, <2>1, <2>2 DEF ApplyEvent, Upsert, SharedOK
  <2>4. SharedOK' /\ UNCHANGED <<sent, nonces>>
    BY <1>0, <1>4, <2>3 DEF ApplyEvent, SharedOK, plugin
  <2>5. Goto(r, "invalidate")
    BY <1>4 DEF ApplyEvent
  <2> QED
    BY <2>1, <2>4, <2>5, GotoOK
<1>5. CASE InvalidateCache(r)
  <2>1. req[r].ev \in DOMAIN sent
    BY <1>0, <1>5 DEF InvalidateCache, ReqOK
  <2>2. InvalidatedFor(r) \in Nat
    <3>1. sent[req[r].ev] \in Versions
      BY <1>0, <2>1 DEF SharedOK
    <3> QED
      BY <3>1, VersionsFacts DEF InvalidatedFor
  <2>3. NoSnapshot \in [state : {"none", "old", "snapshot"}, ver : Nat]
    BY DEF NoSnapshot
  <2>4. SharedOK' /\ UNCHANGED <<sent, nonces>>
    BY <1>0, <1>5, <2>2, <2>3 DEF InvalidateCache, Answer, SharedOK, plugin
  <2>5. Return(r)
    BY <1>5 DEF InvalidateCache
  <2> QED
    BY <2>4, <2>5, ReturnOK
<1> QED
  BY <1>1, <1>2, <1>3, <1>4, <1>5

\* The steps of CurrentStatus, EnsureShadowUser and CurrentLevelProgress, and a
\* failing call.
LEMMA TypeLookup ==
    ASSUME TypeInv, NEW r \in Requests,
           \/ FetchForLogin(r) \/ FindOrCreateSubject(r) \/ StoreShadowUser(r)
           \/ FetchUser(r) \/ PersistStatus(r)
           \/ ReadCache(r) \/ DiscardCached(r) \/ FetchLevelProgress(r) \/ FillCache(r) \/ Fail(r)
    PROVE  TypeInv'
<1>0. /\ SharedOK /\ req \in [Requests -> Request] /\ req[r] \in Request /\ ReqOK(req[r])
      /\ req[r].ver \in Nat /\ req[r].subject \in Subjects \cup {None}
      /\ truth \in Versions /\ truth \in Nat
  BY TypeInvParts, VersionsFacts DEF Request, SharedOK
<1> USE DEF At, Steps, EventSteps
<1>1. CASE FetchForLogin(r)
  <2>1. req' = [req EXCEPT ![r] =
                   [req[r] EXCEPT !.pc = "find", !.ver = truth, !.subject = req[r].subject]]
    BY <1>0, <1>1 DEF FetchForLogin, Request
  <2>2. SharedOK' /\ UNCHANGED <<sent, nonces, truth>>
    BY <1>0, <1>1 DEF FetchForLogin, SharedOK, local, plugin
  <2>3. PICK v \in Versions : v = truth
    BY <1>0
  <2> QED
    BY <1>0, <2>1, <2>2, <2>3, MoveOK
<1>2. CASE FindOrCreateSubject(r)
  <2>1. PICK s \in Subjects : req' = [req EXCEPT ![r].pc = "insert", ![r].subject = s]
    BY <1>2 DEF FindOrCreateSubject
  <2>2. req' = [req EXCEPT ![r] =
                   [req[r] EXCEPT !.pc = "insert", !.ver = req[r].ver, !.subject = s]]
    BY <1>0, <2>1 DEF Request
  <2>3. req[r].ver \in Versions
    BY <1>0, <1>2 DEF FindOrCreateSubject, ReqOK
  <2>4. SharedOK' /\ UNCHANGED <<sent, nonces>>
    BY <1>0, <1>2 DEF FindOrCreateSubject, SharedOK, local, plugin
  <2> QED
    BY <1>0, <2>2, <2>3, <2>4, MoveOK
<1>3. CASE StoreShadowUser(r)
  <2>1. req[r].subject \in Subjects /\ req[r].ver \in Versions
    BY <1>0, <1>3 DEF StoreShadowUser, ReqOK
  <2>2. /\ row' \in [subject : Subjects, ver : Versions] \cup {NoRow}
        /\ regressed' \in BOOLEAN /\ known' \subseteq Subjects
    <3>1. CASE Upsert(req[r].subject, req[r].ver) /\ known' = known \cup {req[r].subject}
      BY <1>0, <2>1, <3>1 DEF Upsert, SharedOK
    <3>2. CASE UNCHANGED <<row, regressed, known>>
      BY <1>0, <3>2 DEF SharedOK
    <3> QED
      BY <1>3, <3>1, <3>2 DEF StoreShadowUser
  <2>3. SharedOK' /\ UNCHANGED <<sent, nonces>>
    BY <1>0, <1>3, <2>2 DEF StoreShadowUser, SharedOK, local, plugin
  <2>4. Return(r)
    BY <1>3 DEF StoreShadowUser
  <2> QED
    BY <2>3, <2>4, ReturnOK
<1>4. CASE FetchUser(r)
  <2>1. req' = [req EXCEPT ![r] =
                   [req[r] EXCEPT !.pc = "persist", !.ver = truth, !.subject = req[r].subject]]
    BY <1>0, <1>4 DEF FetchUser, Request
  <2>2. SharedOK' /\ UNCHANGED <<sent, nonces, truth>>
    BY <1>0, <1>4 DEF FetchUser, SharedOK, local, plugin
  <2>3. req[r].subject \in Subjects
    BY <1>0, <1>4 DEF FetchUser, ReqOK
  <2> QED
    BY <1>0, <2>1, <2>2, <2>3, MoveOK
<1>5. CASE PersistStatus(r)
  <2>1. req[r].subject \in Subjects /\ req[r].ver \in Versions
    BY <1>0, <1>5 DEF PersistStatus, ReqOK
  <2>2. row' \in [subject : Subjects, ver : Versions] /\ regressed' \in BOOLEAN
    BY <1>0, <1>5, <2>1 DEF PersistStatus, Upsert, SharedOK
  <2>3. SharedOK' /\ UNCHANGED <<sent, nonces>>
    BY <1>0, <1>5, <2>2 DEF PersistStatus, SharedOK, local, plugin
  <2>4. Return(r)
    BY <1>5 DEF PersistStatus
  <2> QED
    BY <2>3, <2>4, ReturnOK
<1>6. CASE ReadCache(r)
  <2>1. Return(r) \/ Goto(r, "progress") \/ Goto(r, "discard")
    BY <1>6 DEF ReadCache
  <2>2. SharedOK' /\ UNCHANGED <<sent, nonces>>
    BY <1>0, <1>6 DEF ReadCache, SharedOK, local, plugin
  <2> QED
    BY <2>1, <2>2, ReturnOK, GotoOK
<1>7. CASE DiscardCached(r)
  <2>1. SharedOK' /\ UNCHANGED <<sent, nonces>>
    BY <1>0, <1>7 DEF DiscardCached, SharedOK, local, plugin, NoSnapshot
  <2> QED
    BY <1>7, <2>1, GotoOK DEF DiscardCached
<1>8. CASE FetchLevelProgress(r)
  <2>1. SharedOK' /\ UNCHANGED <<sent, nonces, truth>>
    BY <1>0, <1>8 DEF FetchLevelProgress, SharedOK, local, plugin
  <2>2. CASE Return(r)
    BY <2>1, <2>2, ReturnOK
  <2>3. CASE req' = [req EXCEPT ![r].pc = "fill", ![r].ver = truth]
    <3>1. req' = [req EXCEPT ![r] =
                     [req[r] EXCEPT !.pc = "fill", !.ver = truth, !.subject = req[r].subject]]
      BY <1>0, <2>3 DEF Request
    <3>2. PICK pc \in Steps : pc = "fill"
      OBVIOUS
    <3>3. PICK v \in Versions : v = truth
      BY <1>0
    <3>4. PICK s \in Subjects \cup {None} : s = req[r].subject
      BY <1>0
    <3>5. req' = [req EXCEPT ![r] = [req[r] EXCEPT !.pc = pc, !.ver = v, !.subject = s]]
      BY <3>1, <3>2, <3>3, <3>4
    <3>6. /\ pc \in EventSteps => req[r].pc \in EventSteps
          /\ pc \in EventSteps \ {"nonce"} => req[r].ev \in nonces'
          /\ pc \in {"apply", "insert", "refresh", "persist"} => s \in Subjects
          /\ v \in Nat /\ nonces \subseteq nonces'
      BY <2>1, <3>2, <3>3, VersionsFacts
    <3> HIDE DEF Steps, EventSteps
    <3> QED
      BY <2>1, <3>5, <3>6, MoveOK
  <2> QED
    BY <1>8, <2>2, <2>3 DEF FetchLevelProgress
<1>9. CASE FillCache(r)
  <2>1. cache' \in [state : {"none", "old", "snapshot"}, ver : Nat]
    BY <1>0, <1>9 DEF FillCache
  <2>2. SharedOK' /\ UNCHANGED <<sent, nonces>>
    BY <1>0, <1>9, <2>1 DEF FillCache, SharedOK, local, plugin
  <2> QED
    BY <1>9, <2>2, ReturnOK DEF FillCache
<1>10. CASE Fail(r)
  <2>1. failed' \in BOOLEAN /\ waiting' \subseteq waiting
    <3>1. CASE Answer(req[r].ev, FALSE)
      BY <3>1 DEF Answer
    <3>2. CASE UNCHANGED <<waiting, failed>>
      BY <1>0, <3>2 DEF SharedOK
    <3> QED
      BY <1>10, <3>1, <3>2 DEF Fail
  <2>2. SharedOK' /\ UNCHANGED <<sent, nonces>>
    <3>1. faults' \in Nat
      BY <1>0, <1>10 DEF Fail, SharedOK
    <3> QED
      BY <1>0, <1>10, <2>1, <3>1 DEF Fail, SharedOK, plugin
  <2> QED
    BY <1>10, <2>2, ReturnOK DEF Fail
<1> QED
  BY <1>1, <1>2, <1>3, <1>4, <1>5, <1>6, <1>7, <1>8, <1>9, <1>10

LEMMA TypeNext == TypeInv /\ [Next]_vars => TypeInv'
<1> SUFFICES ASSUME TypeInv, [Next]_vars PROVE TypeInv'
  OBVIOUS
<1>1. CASE Next
  BY <1>1, TypePlugin, TypeStart, TypeEvent, TypeLookup DEF Next, Step
<1>2. CASE UNCHANGED vars
  BY <1>2 DEF vars, TypeInv, TypeOK, ReqOK
<1> QED
  BY <1>1, <1>2

\* Every reachable state is well typed, and every request holds at each of its
\* steps the event, subject or version that the step needs.
THEOREM TypeCorrect == Spec => []TypeOK
<1>1. TypeInv => TypeOK
  BY DEF TypeInv
<1> QED
  BY <1>1, TypeInit, TypeNext, PTL DEF Spec

-----------------------------------------------------------------------------
(* The subject of the member *)

LEMMA SubjectUpsert ==
    ASSUME TypeInv, SubjectStable, NEW s \in Subjects, NEW v, upsertable(s), Upsert(s, v),
           known' \subseteq known \cup {s}
    PROVE  SubjectStable'
<1>1. row'.subject = s
  BY DEF Upsert
<1>2. ASSUME NEW k \in known PROVE k = s
  <2>1. row.subject = k /\ k # None
    BY TypeInvParts, IdentityAssumptions DEF SubjectStable, SharedOK
  <2> QED
    BY <2>1 DEF upsertable
<1> QED
  BY <1>1, <1>2 DEF SubjectStable

LEMMA SubjectNext == TypeInv /\ SubjectStable /\ [Next]_vars => SubjectStable'
<1> SUFFICES ASSUME TypeInv, SubjectStable, [Next]_vars PROVE SubjectStable'
  OBVIOUS
<1>1. CASE UNCHANGED <<row, known>>
  BY <1>1 DEF SubjectStable
<1>2. ASSUME NEW r \in Requests, ApplyEvent(r) PROVE SubjectStable'
  <2>1. req[r].subject \in Subjects
    BY <1>2, TypeInvParts DEF ApplyEvent, ReqOK, At
  <2> QED
    BY <1>2, <2>1, SubjectUpsert DEF ApplyEvent
<1>3. ASSUME NEW r \in Requests, PersistStatus(r) PROVE SubjectStable'
  <2>1. req[r].subject \in Subjects
    BY <1>3, TypeInvParts DEF PersistStatus, ReqOK, At
  <2> QED
    BY <1>3, <2>1, SubjectUpsert DEF PersistStatus
<1>4. ASSUME NEW r \in Requests, StoreShadowUser(r) PROVE SubjectStable'
  <2>1. req[r].subject \in Subjects
    BY <1>4, TypeInvParts DEF StoreShadowUser, ReqOK, At
  <2>2. CASE upsertable(req[r].subject)
    BY <1>4, <2>1, <2>2, SubjectUpsert DEF StoreShadowUser
  <2>3. CASE ~upsertable(req[r].subject)
    BY <1>1, <1>4, <2>3 DEF StoreShadowUser
  <2> QED
    BY <2>2, <2>3
<1>5. CASE \/ Change \/ publish \/ CacheExpires \/ \E e \in DOMAIN sent : NoAnswer(e) \/ Duplicate(e)
  BY <1>1, <1>5 DEF Change, publish, CacheExpires, NoAnswer, Duplicate, portal
<1>6. ASSUME NEW r \in Requests,
             \/ CurrentStatus(r) \/ EnsureShadowUser(r) \/ CurrentLevelProgress(r)
             \/ \E e \in DOMAIN sent : Deliver(r, e)
      PROVE  SubjectStable'
  BY <1>1, <1>6 DEF CurrentStatus, EnsureShadowUser, CurrentLevelProgress, Deliver
<1>7. ASSUME NEW r \in Requests,
             \/ VerifyNonce(r) \/ StoreEventID(r) \/ LookupMember(r) \/ InvalidateCache(r)
             \/ FetchForLogin(r) \/ FindOrCreateSubject(r) \/ FetchUser(r) \/ Fail(r)
      PROVE  SubjectStable'
  BY <1>1, <1>7 DEF VerifyNonce, StoreEventID, LookupMember, InvalidateCache, FetchForLogin,
                    FindOrCreateSubject, FetchUser, Fail
<1>8. ASSUME NEW r \in Requests,
             ReadCache(r) \/ DiscardCached(r) \/ FetchLevelProgress(r) \/ FillCache(r)
      PROVE  SubjectStable'
  BY <1>1, <1>8 DEF ReadCache, DiscardCached, FetchLevelProgress, FillCache
<1>9. CASE UNCHANGED vars
  BY <1>1, <1>9 DEF vars
<1> QED
  BY <1>2, <1>3, <1>4, <1>5, <1>6, <1>7, <1>8, <1>9 DEF Next, Step

\* No interleaving of first logins, status lookups and events gives a member whose
\* login was answered another subject: the UNIQUE constraint on discourse_id
\* makes the later insert fail, and all other writes use the stored subject.
THEOREM SubjectNeverChanges == Spec => []SubjectStable
<1>1. Init => SubjectStable
  BY DEF Init, SubjectStable
<1> QED
  BY <1>1, TypeInit, TypeNext, SubjectNext, PTL DEF Spec
-----------------------------------------------------------------------------
(* Fresh decisions and the cache *)

\* What a request holds relative to the member and to the last invalidation.
HoldOK(q) ==
    /\ q.pc \in {"refresh", "persist"} => q.since <= truth
    /\ q.pc = "persist" => q.ver >= q.since
    /\ q.pc = "fill" => q.ver >= dropped

HoldInv ==
    /\ \A e \in DOMAIN sent : sent[e] <= truth
    /\ dropped <= truth
    /\ \A r \in Requests : HoldOK(req[r])
    /\ InvalidatedStaysOut

LEMMA HoldTypes ==
    ASSUME TypeInv
    PROVE  /\ truth \in Nat /\ dropped \in Nat /\ cache.ver \in Nat
           /\ req \in [Requests -> Request]
           /\ \A r \in Requests : req[r].ver \in Nat /\ req[r].since \in Nat
           /\ \A e \in DOMAIN sent : sent[e] \in Nat
<1>1. SharedOK /\ req \in [Requests -> Request]
  BY TypeInvParts
<1>2. ASSUME NEW e \in DOMAIN sent PROVE sent[e] \in Nat
  <2>1. sent \in Seq(Versions)
    BY <1>1 DEF SharedOK
  <2>2. sent[e] \in Versions
    BY <2>1
  <2> QED
    BY <2>2, VersionsFacts
<1> QED
  BY <1>1, <1>2, VersionsFacts DEF SharedOK, Request

\* A request moves to q while the member, the events and the cache stay.
LEMMA HoldOne ==
    ASSUME TypeInv, HoldInv, UNCHANGED <<truth, sent, dropped>>, InvalidatedStaysOut',
           NEW r \in Requests, NEW q, HoldOK(q), req' = [req EXCEPT ![r] = q]
    PROVE  HoldInv'
<1>1. ASSUME NEW p \in Requests PROVE HoldOK(req[p])'
  <2>1. req'[p] = IF p = r THEN q ELSE req[p]
    BY HoldTypes
  <2>2. HoldOK(req'[p])
    BY <2>1 DEF HoldInv
  <2> QED
    BY <2>2 DEF HoldOK
<1> QED
  BY <1>1 DEF HoldInv

\* A request moves to a step at which it holds nothing of interest.
LEMMA HoldOther ==
    ASSUME TypeInv, HoldInv, UNCHANGED <<truth, sent, dropped>>, InvalidatedStaysOut',
           NEW r \in Requests, NEW q, q.pc \notin {"refresh", "persist", "fill"},
           req' = [req EXCEPT ![r] = q]
    PROVE  HoldInv'
  BY HoldOne DEF HoldOK

LEMMA HoldReturn ==
    ASSUME TypeInv, HoldInv, UNCHANGED <<truth, sent, dropped>>, InvalidatedStaysOut',
           NEW r \in Requests, Return(r)
    PROVE  HoldInv'
<1>1. PICK q : q = Idle
  OBVIOUS
<1> QED
  BY <1>1, HoldOther DEF Return, Idle

LEMMA HoldGoto ==
    ASSUME TypeInv, HoldInv, UNCHANGED <<truth, sent, dropped>>, InvalidatedStaysOut',
           NEW r \in Requests, NEW pc, pc \notin {"refresh", "persist", "fill"}, Goto(r, pc)
    PROVE  HoldInv'
<1>1. PICK q : q = [req[r] EXCEPT !.pc = pc]
  OBVIOUS
<1>2. q.pc = pc /\ req' = [req EXCEPT ![r] = q]
  BY <1>1, HoldTypes DEF Goto, Request
<1> QED
  BY <1>2, HoldOther

LEMMA HoldPlugin ==
    ASSUME TypeInv, HoldInv,
           \/ Change \/ publish \/ CacheExpires \/ \E e \in DOMAIN sent : NoAnswer(e) \/ Duplicate(e)
    PROVE  HoldInv'
<1> USE HoldTypes
<1>1. CASE Change
  <2>1. UNCHANGED <<sent, dropped, req, cache>> /\ truth' = truth + 1
    BY <1>1 DEF Change, portal
  <2>2. \A r \in Requests : HoldOK(req[r])'
    BY <2>1 DEF HoldInv, HoldOK
  <2>3. dropped' <= truth' /\ \A e \in DOMAIN sent' : sent'[e] <= truth'
    BY <2>1 DEF HoldInv
  <2> QED
    BY <2>1, <2>2, <2>3 DEF HoldInv, InvalidatedStaysOut
<1>2. CASE publish
  <2>1. UNCHANGED <<truth, dropped, req, cache>> /\ sent' = Append(sent, truth)
    BY <1>2 DEF publish, portal
  <2>2. \A e \in DOMAIN sent' : sent'[e] <= truth
    <3>1. sent \in Seq(Versions) /\ truth \in Versions
      BY TypeInvParts DEF SharedOK
    <3> QED
      BY <2>1, <3>1 DEF HoldInv
  <2> QED
    BY <2>1, <2>2 DEF HoldInv, HoldOK, InvalidatedStaysOut
<1>3. CASE CacheExpires
  BY <1>3 DEF CacheExpires, HoldInv, HoldOK, InvalidatedStaysOut, NoSnapshot, local, plugin
<1>4. CASE \E e \in DOMAIN sent : NoAnswer(e) \/ Duplicate(e)
  BY <1>4 DEF NoAnswer, Duplicate, HoldInv, HoldOK, InvalidatedStaysOut, portal, plugin
<1> QED
  BY <1>1, <1>2, <1>3, <1>4

LEMMA HoldStart ==
    ASSUME TypeInv, HoldInv, NEW r \in Requests,
           \/ CurrentStatus(r) \/ EnsureShadowUser(r) \/ CurrentLevelProgress(r)
           \/ \E e \in DOMAIN sent : Deliver(r, e)
    PROVE  HoldInv'
<1>1. UNCHANGED <<truth, sent, dropped, cache>>
  BY DEF CurrentStatus, EnsureShadowUser, CurrentLevelProgress, Deliver, local, plugin
<1>2. InvalidatedStaysOut'
  BY <1>1 DEF HoldInv, InvalidatedStaysOut
<1>3. CASE CurrentStatus(r)
  <2>1. PICK q : q = [pc |-> "refresh", ev |-> 0, ver |-> 0, subject |-> row.subject, since |-> truth]
    OBVIOUS
  <2>2. HoldOK(q)
    BY <2>1, HoldTypes DEF HoldOK
  <2> QED
    BY <1>1, <1>2, <1>3, <2>1, <2>2, HoldOne DEF CurrentStatus, Start
<1>4. CASE EnsureShadowUser(r)
  <2>1. PICK q : q = [pc |-> "fetch", ev |-> 0, ver |-> 0, subject |-> None, since |-> 0]
    OBVIOUS
  <2> QED
    BY <1>1, <1>2, <1>4, <2>1, HoldOther DEF EnsureShadowUser, Start
<1>5. CASE CurrentLevelProgress(r)
  <2>1. PICK q : q = [pc |-> "cached", ev |-> 0, ver |-> 0, subject |-> None, since |-> 0]
    OBVIOUS
  <2> QED
    BY <1>1, <1>2, <1>5, <2>1, HoldOther DEF CurrentLevelProgress, Start
<1>6. ASSUME NEW e \in DOMAIN sent, Deliver(r, e) PROVE HoldInv'
  <2>1. PICK q : q = [pc |-> "nonce", ev |-> e, ver |-> 0, subject |-> None, since |-> 0]
    OBVIOUS
  <2> QED
    BY <1>1, <1>2, <1>6, <2>1, HoldOther DEF Deliver, Start
<1> QED
  BY <1>3, <1>4, <1>5, <1>6

\* An invalidation answers for the event's version only if no other request is
\* about to store a snapshot it fetched before.
LEMMA HoldInvalidate ==
    ASSUME TypeInv, HoldInv, NEW r \in Requests, InvalidateCache(r)
    PROVE  HoldInv'
<1>1. UNCHANGED <<truth, sent>> /\ Return(r)
  BY DEF InvalidateCache, plugin
<1>2. CASE UNCHANGED <<cache, dropped>>
  BY <1>1, <1>2, HoldReturn DEF HoldInv, InvalidatedStaysOut
<1>3. CASE cache' = NoSnapshot /\ dropped' = InvalidatedFor(r)
  <2>1. PICK d : d = InvalidatedFor(r)
    OBVIOUS
  <2>2. d \in Nat /\ d <= truth
    <3>1. req[r].ev \in DOMAIN sent
      BY TypeInvParts DEF InvalidateCache, At, ReqOK, EventSteps
    <3> QED
      BY <2>1, <3>1, HoldTypes DEF InvalidatedFor, HoldInv
  <2>3. \A p \in Requests \ {r} : req[p].pc = "fill" => d = 0
    BY <2>1 DEF InvalidatedFor, FillsPending, At
  <2>4. ASSUME NEW p \in Requests PROVE HoldOK(req[p])'
    <3>1. CASE p = r
      <4>1. req'[p].pc = "idle"
        BY <1>1, <3>1, HoldTypes DEF Return, Idle
      <4> QED
        BY <4>1 DEF HoldOK
    <3>2. CASE p # r
      <4>1. req'[p] = req[p]
        BY <1>1, <3>2, HoldTypes DEF Return
      <4>2. req[p].pc = "fill" => req[p].ver >= d
        BY <2>3, <3>2, HoldTypes
      <4>3. dropped' = d
        BY <1>3, <2>1
      <4> QED
        BY <1>1, <4>1, <4>2, <4>3 DEF HoldOK, HoldInv
    <3> QED
      BY <3>1, <3>2
  <2>5. InvalidatedStaysOut'
    BY <1>3 DEF InvalidatedStaysOut, NoSnapshot
  <2>6. dropped' <= truth'
    BY <1>1, <1>3, <2>1, <2>2
  <2> QED
    BY <1>1, <2>4, <2>5, <2>6 DEF HoldInv
<1> QED
  BY <1>2, <1>3 DEF InvalidateCache

LEMMA HoldStep ==
    ASSUME TypeInv, HoldInv, NEW r \in Requests, Step(r) \/ Fail(r)
    PROVE  HoldInv'
<1>0. /\ InvalidatedStaysOut /\ req \in [Requests -> Request] /\ req[r] \in Request
      /\ req[r].ver \in Nat /\ req[r].since \in Nat /\ truth \in Nat /\ dropped \in Nat
  BY HoldTypes DEF HoldInv
<1>1. CASE VerifyNonce(r) \/ StoreEventID(r) \/ LookupMember(r)
  <2>1. UNCHANGED <<truth, sent, dropped, cache>>
    BY <1>1 DEF VerifyNonce, StoreEventID, LookupMember, plugin
  <2>2. \/ Return(r) \/ Goto(r, "eventid") \/ Goto(r, "lookup")
        \/ req' = [req EXCEPT ![r].pc = "apply", ![r].subject = row.subject]
    BY <1>1 DEF VerifyNonce, StoreEventID, LookupMember
  <2>3. CASE req' = [req EXCEPT ![r].pc = "apply", ![r].subject = row.subject]
    <3>1. PICK q : q = [req[r] EXCEPT !.pc = "apply", !.subject = row.subject]
      OBVIOUS
    <3>2. q.pc = "apply" /\ req' = [req EXCEPT ![r] = q]
      BY <1>0, <2>3, <3>1 DEF Request
    <3> QED
      BY <1>0, <2>1, <3>2, HoldOther DEF InvalidatedStaysOut
  <2>4. InvalidatedStaysOut'
    BY <1>0, <2>1 DEF InvalidatedStaysOut
  <2> QED
    BY <2>1, <2>2, <2>3, <2>4, HoldReturn, HoldGoto
<1>2. CASE ApplyEvent(r)
  <2>1. UNCHANGED <<truth, sent, dropped, cache>> /\ Goto(r, "invalidate")
    BY <1>2 DEF ApplyEvent, plugin
  <2> QED
    BY <1>0, <2>1, HoldGoto DEF InvalidatedStaysOut
<1>3. CASE FetchForLogin(r)
  <2>1. UNCHANGED <<truth, sent, dropped, cache>>
    BY <1>3 DEF FetchForLogin, local, plugin
  <2>2. PICK q : q = [req[r] EXCEPT !.pc = "find", !.ver = truth]
    OBVIOUS
  <2>3. q.pc = "find" /\ req' = [req EXCEPT ![r] = q]
    BY <1>0, <1>3, <2>2 DEF FetchForLogin, Request
  <2> QED
    BY <1>0, <2>1, <2>3, HoldOther DEF InvalidatedStaysOut
<1>4. CASE FindOrCreateSubject(r)
  <2>1. UNCHANGED <<truth, sent, dropped, cache>>
    BY <1>4 DEF FindOrCreateSubject, local, plugin
  <2>2. PICK s \in Subjects : req' = [req EXCEPT ![r].pc = "insert", ![r].subject = s]
    BY <1>4 DEF FindOrCreateSubject
  <2>3. PICK q : q = [req[r] EXCEPT !.pc = "insert", !.subject = s]
    OBVIOUS
  <2>4. q.pc = "insert" /\ req' = [req EXCEPT ![r] = q]
    BY <1>0, <2>2, <2>3 DEF Request
  <2> QED
    BY <1>0, <2>1, <2>4, HoldOther DEF InvalidatedStaysOut
<1>5. CASE FetchUser(r)
  <2>1. UNCHANGED <<truth, sent, dropped, cache>>
    BY <1>5 DEF FetchUser, local, plugin
  <2>2. PICK q : q = [req[r] EXCEPT !.pc = "persist", !.ver = truth]
    OBVIOUS
  <2>3. /\ q.pc = "persist" /\ q.ver = truth /\ q.since = req[r].since
        /\ req' = [req EXCEPT ![r] = q]
    BY <1>0, <1>5, <2>2 DEF FetchUser, Request
  <2>4. req[r].since <= truth
    BY <1>5 DEF FetchUser, At, HoldInv, HoldOK
  <2>5. HoldOK(q)
    BY <1>0, <2>3, <2>4 DEF HoldOK
  <2> QED
    BY <1>0, <2>1, <2>3, <2>5, HoldOne DEF InvalidatedStaysOut
<1>6. CASE StoreShadowUser(r) \/ PersistStatus(r) \/ Fail(r)
  <2>1. UNCHANGED <<truth, sent, dropped, cache>> /\ Return(r)
    BY <1>6 DEF StoreShadowUser, PersistStatus, Fail, local, plugin
  <2> QED
    BY <1>0, <2>1, HoldReturn DEF InvalidatedStaysOut
<1>7. CASE ReadCache(r) \/ DiscardCached(r)
  <2>1. UNCHANGED <<truth, sent, dropped>> /\ cache' \in {NoSnapshot, cache}
    BY <1>7 DEF ReadCache, DiscardCached, local, plugin
  <2>2. Return(r) \/ Goto(r, "progress") \/ Goto(r, "discard")
    BY <1>7 DEF ReadCache, DiscardCached
  <2>3. InvalidatedStaysOut'
    BY <1>0, <2>1 DEF InvalidatedStaysOut, NoSnapshot
  <2> QED
    BY <2>1, <2>2, <2>3, HoldReturn, HoldGoto
<1>8. CASE FetchLevelProgress(r)
  <2>1. UNCHANGED <<truth, sent, dropped, cache>>
    BY <1>8 DEF FetchLevelProgress, local, plugin
  <2>2. InvalidatedStaysOut'
    BY <1>0, <2>1 DEF InvalidatedStaysOut
  <2>3. CASE req' = [req EXCEPT ![r].pc = "fill", ![r].ver = truth]
    <3>1. PICK q : q = [req[r] EXCEPT !.pc = "fill", !.ver = truth]
      OBVIOUS
    <3>2. q.pc = "fill" /\ q.ver = truth /\ req' = [req EXCEPT ![r] = q]
      BY <1>0, <2>3, <3>1 DEF Request
    <3>3. HoldOK(q)
      BY <1>0, <3>2 DEF HoldOK, HoldInv
    <3> QED
      BY <2>1, <2>2, <3>2, <3>3, HoldOne
  <2> QED
    BY <1>8, <2>1, <2>2, <2>3, HoldReturn DEF FetchLevelProgress
<1>9. CASE FillCache(r)
  <2>1. UNCHANGED <<truth, sent, dropped>> /\ Return(r)
    BY <1>9 DEF FillCache, local, plugin
  <2>2. req[r].ver >= dropped
    BY <1>9 DEF FillCache, At, HoldInv, HoldOK
  <2>3. InvalidatedStaysOut'
    BY <1>9, <2>1, <2>2 DEF FillCache, InvalidatedStaysOut
  <2> QED
    BY <2>1, <2>3, HoldReturn
<1> QED
  BY <1>1, <1>2, <1>3, <1>4, <1>5, <1>6, <1>7, <1>8, <1>9, HoldInvalidate DEF Step

LEMMA HoldInit == Init => HoldInv
<1> SUFFICES ASSUME Init PROVE HoldInv
  OBVIOUS
<1>1. DOMAIN sent = {} /\ dropped <= truth /\ cache.state # "snapshot"
  BY DEF Init, NoSnapshot
<1>2. \A r \in Requests : req[r].pc = "idle"
  BY DEF Init, Idle
<1> QED
  BY <1>1, <1>2 DEF HoldInv, HoldOK, InvalidatedStaysOut

LEMMA HoldNext == TypeInv /\ HoldInv /\ [Next]_vars => HoldInv'
<1> SUFFICES ASSUME TypeInv, HoldInv, [Next]_vars PROVE HoldInv'
  OBVIOUS
<1>1. CASE Next
  BY <1>1, HoldPlugin, HoldStart, HoldStep DEF Next
<1>2. CASE UNCHANGED vars
  BY <1>2 DEF vars, HoldInv, HoldOK, InvalidatedStaysOut
<1> QED
  BY <1>1, <1>2

\* CurrentStatus decides on a state the member was in during the request, for any
\* number of lost, repeated and reordered events: it never decides on the row.
THEOREM DecisionsAreFresh == Spec => []FreshDecision
<1>1. HoldInv => FreshDecision
  BY DEF HoldInv, HoldOK, FreshDecision, At
<1> QED
  BY <1>1, TypeInit, TypeNext, HoldInit, HoldNext, PTL DEF Spec

\* After the invalidation for an event the cache serves no snapshot older than
\* it, unless a request was about to store one when the cache was invalidated.
THEOREM InvalidationHolds == Spec => []InvalidatedStaysOut
<1>1. HoldInv => InvalidatedStaysOut
  BY DEF HoldInv
<1> QED
  BY <1>1, TypeInit, TypeNext, HoldInit, HoldNext, PTL DEF Spec

-----------------------------------------------------------------------------
(* Level progress *)

\* The portal accepts the snapshot the plugin serializes of the member in every
\* state the member reaches.
THEOREM EverySnapshotAccepted == Spec => []ProgressAccepted
<1>1. TypeInv => ProgressAccepted
  <2> SUFFICES ASSUME TypeInv PROVE ProgressAccepted
    OBVIOUS
  <2>1. truth \in Versions
    BY TypeInvParts DEF SharedOK
  <2>2. PICK m : m = History[truth]
    OBVIOUS
  <2>3. m \in Member /\ m.id = History[1].id
    BY <2>1, <2>2, IdentityAssumptions DEF Versions
  <2>4. ValidateFor(to_h(m), m.id)
    BY <2>3, SerializedAccepted
  <2> QED
    BY <2>1, <2>2, <2>3, <2>4 DEF ProgressAccepted, progressValid
<1> QED
  BY <1>1, TypeInit, TypeNext, PTL DEF Spec
=============================================================================
