------------------------------- MODULE MCLearner -------------------------------
(***************************************************************************)
(* Small instances of Learner for TLC.                                     *)
(***************************************************************************)
EXTENDS Learner

CONSTANTS v1, v2, e1, e2, alice, bob

TwoValues      == {v1, v2}
OneValue       == {v1}
TwoEngagements == {e1, e2}

Saw(v, e) == [effect |-> "confirm", value |-> v, engagement |-> e]
Denied(e) == [effect |-> "contradict", value |-> None, engagement |-> e]

\* Agreement from two engagements, another value, and a negative observation.
ManyObservations == {Saw(v1, e1), Saw(v1, e2), Saw(v2, e1), Denied(e2)}
FewObservations  == {Saw(v1, e1), Denied(e1)}
Agreements       == {Saw(v1, e1), Saw(v1, e2)}

OneAdmin  == {alice}
TwoAdmins == {alice, bob}
===============================================================================
