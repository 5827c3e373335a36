---------------------------- MODULE LevelProgress ----------------------------
(***************************************************************************)
(* The level progress of a member.  The Discourse plugin serializes it     *)
(* (level_progress_serializer.rb) and the portal validates what it gets    *)
(* before it shows or caches it (internal/identity/level_progress.go): two *)
(* programs in two languages that have to agree on what a snapshot is.     *)
(***************************************************************************)
EXTENDS Integers, Sequences

Levels == 0..4
NoLevel == 5               \* next_level is nil
Nil == "nil"               \* requirements_met is nil

Keys == {"topics_entered", "posts_read", "time_read_minutes", "account_age_minutes",
         "days_visited", "likes_received", "likes_given", "num_topics_replied_to",
         "topics_viewed", "topics_viewed_all_time", "posts_read_all_time",
         "num_likes_given", "num_likes_received", "num_likes_received_days",
         "num_likes_received_users", "num_flagged_posts", "num_flagged_by_users"}

BlockingKeys == {"not_manually_locked", "not_silenced", "not_suspended", "no_recent_penalties"}

\* A member as the serializer sees it: the trust level, the penalties, what was
\* counted (current) and what the site settings ask for (target).
Member == [id : Nat, level : Levels, active : BOOLEAN, locked : BOOLEAN,
           silenced : BOOLEAN, suspended : BOOLEAN, penalties : Nat, period : Nat,
           current : [Keys -> Nat], target : [Keys -> Nat]]

-----------------------------------------------------------------------------
(* The serializer *)

requirement(key, scope, operator, unit) ==
    [key |-> key, scope |-> scope, operator |-> operator, unit |-> unit]
lifetime_requirement(key, unit) == requirement(key, "account_lifetime", "at_least", unit)
rolling_requirement(key, operator, unit) == requirement(key, "rolling_period", operator, unit)
all_time_requirement(key) == requirement(key, "all_time", "at_least", "count")

tl1_requirements ==
    <<lifetime_requirement("topics_entered", "count"),
      lifetime_requirement("posts_read", "count"),
      lifetime_requirement("time_read_minutes", "minutes"),
      lifetime_requirement("account_age_minutes", "minutes")>>

tl2_requirements ==
    tl1_requirements \o
    <<lifetime_requirement("days_visited", "days"),
      lifetime_requirement("likes_received", "count"),
      lifetime_requirement("likes_given", "count"),
      lifetime_requirement("num_topics_replied_to", "count")>>

tl3_requirements ==
    <<rolling_requirement("days_visited", "at_least", "days"),
      rolling_requirement("num_topics_replied_to", "at_least", "count"),
      rolling_requirement("topics_viewed", "at_least", "count"),
      rolling_requirement("posts_read", "at_least", "count"),
      all_time_requirement("topics_viewed_all_time"),
      all_time_requirement("posts_read_all_time"),
      rolling_requirement("num_likes_given", "at_least", "count"),
      rolling_requirement("num_likes_received", "at_least", "count"),
      rolling_requirement("num_likes_received_days", "at_least", "days"),
      rolling_requirement("num_likes_received_users", "at_least", "count"),
      rolling_requirement("num_flagged_posts", "at_most", "count"),
      rolling_requirement("num_flagged_by_users", "at_most", "count")>>

compare(current, target, operator) ==
    CASE operator = "at_most" -> current <= target
      [] operator = "equals" -> current = target
      [] OTHER -> current >= target

\* A requirement with the member's numbers; period_days is 0 for nil.
measured(m, q) ==
    [key |-> q.key, scope |-> q.scope, operator |-> q.operator, unit |-> q.unit,
     period |-> IF q.scope = "rolling_period" THEN m.period ELSE 0,
     current |-> m.current[q.key], target |-> m.target[q.key],
     met |-> compare(m.current[q.key], m.target[q.key], q.operator)]

next_level_id(m) == IF m.level >= 4 THEN NoLevel ELSE m.level + 1

promotion_modeIgnoringLevel4(m) ==
    IF m.level >= 4 THEN "none" ELSE IF m.locked THEN "locked" ELSE "automatic"
promotion_mode(m) ==
    IF m.level >= 4 THEN "none"
    ELSE IF m.locked THEN "locked"
    ELSE IF next_level_id(m) = 4 THEN "manual"
    ELSE "automatic"

requirements(m) ==
    LET table == CASE next_level_id(m) = 1 -> tl1_requirements
                   [] next_level_id(m) = 2 -> tl2_requirements
                   [] next_level_id(m) = 3 -> tl3_requirements
                   [] OTHER -> <<>>
    IN  [i \in 1..Len(table) |-> measured(m, table[i])]

blocking_condition(key, met) == [key |-> key, met |-> met]

tl3_blocking_conditions(m) ==
    <<blocking_condition("not_silenced", ~m.silenced),
      blocking_condition("not_suspended", ~m.suspended),
      blocking_condition("no_recent_penalties", m.penalties = 0)>>

blocking_conditions(m) ==
    (IF m.locked /\ m.level < 4
     THEN <<blocking_condition("not_manually_locked", FALSE)>> ELSE <<>>)
    \o (IF next_level_id(m) = 3 THEN tl3_blocking_conditions(m) ELSE <<>>)

allMet(entries) == \A i \in 1..Len(entries) : entries[i].met

requirements_met(m) ==
    IF promotion_mode(m) # "automatic" THEN Nil
    ELSE IF allMet(requirements(m)) /\ allMet(blocking_conditions(m)) THEN "true" ELSE "false"

\* LevelProgressSerializer.to_h
to_h(m) ==
    [schema |-> 1, id |-> m.id, current |-> m.level, next |-> next_level_id(m),
     mode |-> promotion_mode(m), met |-> requirements_met(m),
     requirements |-> requirements(m), blocking |-> blocking_conditions(m)]

-----------------------------------------------------------------------------
(* The validation *)

\* The keys and labels the validation asks for are those that are not empty.
validateLevelRequirement(q) ==
    /\ q.key \in Keys
    /\ q.scope \in {"account_lifetime", "rolling_period", "all_time"}
    /\ q.operator \in {"at_least", "at_most", "equals"}
    /\ q.unit \in {"count", "days", "minutes"}
    /\ q.current >= 0 /\ q.target >= 0 /\ q.period >= 0

validateBlockingCondition(c) == c.key \in BlockingKeys

\* The checks of ValidateFor on the promotion mode, the answer that goes with it
\* and the next level.
validPromotion(s) ==
    /\ s.mode \in {"automatic", "manual", "locked", "none"}
    /\ s.mode = "automatic" <=> s.met # Nil
    /\ IF s.current = 4
       THEN s.next = NoLevel /\ s.mode = "none"
       ELSE /\ s.next # NoLevel
            /\ s.next = s.current + 1
            /\ IF s.current = 3 THEN s.mode \in {"manual", "locked"}
                                ELSE s.mode \in {"automatic", "locked"}

\* LevelProgressSnapshot.ValidateFor
ValidateFor(s, id) ==
    /\ s.schema = 1
    /\ s.id = id
    /\ s.current \in 0..4
    /\ Len(s.requirements) <= 64
    /\ \A i \in 1..Len(s.requirements) : validateLevelRequirement(s.requirements[i])
    /\ \A i \in 1..Len(s.blocking) : validateBlockingCondition(s.blocking[i])
    /\ validPromotion(s)
=============================================================================
