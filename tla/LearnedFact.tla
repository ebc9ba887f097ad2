------------------------------ MODULE LearnedFact ------------------------------
(***************************************************************************)
(* The life of one learned entry (usecase/learned_store.py), as functions: *)
(* what an observation, an administrator's request, the nightly sweep and  *)
(* the read paths make of it.  Module Learner has the processes.           *)
(*                                                                         *)
(* A measured kind (costs, timings, helper usage) has one value for ever;  *)
(* a cost far above the learned maximum is a negative observation of it.   *)
(* Evidence, confidence and the total count of confirmations decide        *)
(* nothing and are left out.                                               *)
(***************************************************************************)
EXTENDS Integers, FiniteSets

CONSTANTS
    Values,            \* what the fact may say: the type of a field, for instance
    Engagements,       \* hashed engagement keys
    None,              \* Python's None
    Absent,            \* no entry with this id
    MinConfirmations,  \* LEARNING_VERIFY_MIN_CONFIRMATIONS
    MinEngagements,    \* LEARNING_VERIFY_MIN_ENGAGEMENTS
    MinDays,           \* LEARNING_VERIFY_MIN_DAYS
    Ttl,               \* LEARNING_SCHEMA_TTL_DAYS or LEARNING_COST_TTL_DAYS
    PromoteStreak      \* PROMOTE_STREAK

ASSUME ThresholdAssumption ==
    /\ MinConfirmations \in Nat \ {0} /\ MinEngagements \in 1..20
    /\ MinDays \in Nat /\ Ttl \in Nat \ {0} /\ PromoteStreak \in Nat \ {0}
ASSUME NothingAssumption ==
    None \notin Values \cup Engagements \cup Int /\ Absent # None

Statuses == {"active", "demoted", "reverted"}
AdminActions == {"revert", "pin", "unpin"}

\* tags: the engagements that confirmed the fact since it was learned or last
\* contradicted; the code keeps the latest 20, at least the number verification
\* asks for.  window: the day the first of them was folded.
Entry ==
    [status: Statuses, value: Values, pinned: BOOLEAN, streak: Nat,
     disputed: BOOLEAN, tags: SUBSET Engagements, window: Nat \cup {None},
     verified: BOOLEAN, expires: Nat]

\* The sentinels are nothing else.
ASSUME SentinelAssumption == Absent \notin Entry /\ None \notin AdminActions

\* A negative observation contradicts whatever value is stored.
Observation ==
    [effect: {"confirm"}, value: Values, engagement: Engagements \cup {None}]
        \cup [effect: {"contradict"}, value: {None}, engagement: Engagements \cup {None}]

------------------------------------------------------------------------------
(* Observations *)

NoteEngagement(e, o, now) ==
    [e EXCEPT !.window = IF @ = None THEN now ELSE @,
              !.tags = @ \cup ({o.engagement} \ {None})]

\* Mutant: the engagements are not counted.
VerifiesAlone(e, now) ==
    /\ e.status = "active" /\ e.window # None
    /\ e.streak >= MinConfirmations /\ now - e.window >= MinDays

Verifies(e, now) ==
    /\ e.status = "active"
    /\ e.window # None
    /\ e.streak >= MinConfirmations
    /\ Cardinality(e.tags) >= MinEngagements
    /\ now - e.window >= MinDays

MaybeVerify(e, now) == [e EXCEPT !.verified = @ \/ Verifies(e, now)]

Learned(o, now) ==
    LET e == [status |-> "active", value |-> o.value, pinned |-> FALSE, streak |-> 1,
              disputed |-> FALSE, tags |-> {}, window |-> None, verified |-> FALSE,
              expires |-> now + Ttl]
    IN MaybeVerify(NoteEngagement(e, o, now), now)

Promoted(e) ==
    IF e.status = "demoted" /\ e.streak >= PromoteStreak
    THEN [e EXCEPT !.status = "active"] ELSE e

Confirm(e, o, now) ==
    MaybeVerify(Promoted([NoteEngagement(e, o, now) EXCEPT !.streak = @ + 1]), now)

\* Mutant: the streak survives the contradiction, so one agreement promotes.
ContradictKeepsStreak(e, o) ==
    IF e.pinned THEN [e EXCEPT !.disputed = TRUE]
    ELSE [e EXCEPT !.disputed = TRUE, !.status = "demoted",
                   !.verified = FALSE, !.tags = {}, !.window = None,
                   !.value = IF o.value = None THEN @ ELSE o.value]

Contradict(e, o) ==
    IF e.pinned THEN [e EXCEPT !.disputed = TRUE]
    ELSE [e EXCEPT !.disputed = TRUE, !.streak = 0, !.status = "demoted",
                   !.verified = FALSE, !.tags = {}, !.window = None,
                   !.value = IF o.value = None THEN @ ELSE o.value]

Touch(e, now) == [e EXCEPT !.expires = now + Ttl]

\* What apply_observation makes of an entry that exists.
Observed(e, o, now) ==
    IF e.status = "reverted" THEN e
    ELSE IF o.value = e.value THEN Confirm(Touch(e, now), o, now)
    ELSE Contradict(Touch(e, now), o)

\* apply_observation; full: the kind has reached its capacity.
ApplyObservation(e, o, now, full) ==
    IF e # Absent THEN Observed(e, o, now)
    ELSE IF o.effect = "contradict" \/ full THEN Absent
    ELSE Learned(o, now)

------------------------------------------------------------------------------
(* Administrators and the sweep *)

Reverted(e, now) ==
    [e EXCEPT !.status = "reverted", !.pinned = FALSE, !.streak = 0,
              !.verified = FALSE, !.expires = now + Ttl]

Pinned(e) == [e EXCEPT !.pinned = TRUE, !.status = "active"]

Unpinned(e, now) ==
    IF e.pinned THEN [e EXCEPT !.pinned = FALSE, !.expires = now + Ttl] ELSE e

\* Mutant: a tombstone can be pinned, and an entry that is gone stays gone.
ApplyAdminToAny(e, action, now) ==
    IF e = Absent THEN e
    ELSE CASE action = "revert" -> Reverted(e, now)
           [] action = "pin"    -> Pinned(e)
           [] action = "unpin"  -> Unpinned(e, now)

ApplyAdmin(e, action, now) ==
    IF e = Absent \/ e.status = "reverted" THEN e
    ELSE CASE action = "revert" -> Reverted(e, now)
           [] action = "pin"    -> Pinned(e)
           [] action = "unpin"  -> Unpinned(e, now)

\* Mutant: the sweep forgets that a pinned fact never expires.
SweepAll(e, now) == IF e # Absent /\ e.expires <= now THEN Absent ELSE e

Sweep(e, now) ==
    IF e # Absent /\ ~e.pinned /\ e.expires <= now THEN Absent ELSE e

------------------------------------------------------------------------------
(* Read paths *)

\* The entry as it is shown while `action` is the latest request in the journal
\* (None: there is none).
WithPending(e, action) ==
    CASE e = Absent \/ action = None                 -> e
      [] e # Absent /\ action = "revert"             -> Absent
      [] e # Absent /\ action = "pin"                ->
            IF e.status = "reverted" THEN e ELSE Pinned(e)
      [] e # Absent /\ action = "unpin"              -> [e EXCEPT !.pinned = FALSE]

Live(e, now) == e.pinned \/ e.expires > now
===============================================================================
