------------------------------ MODULE MCCostGuard ------------------------------
(***************************************************************************)
(* Small instances of CostGuard for TLC.                                   *)
(***************************************************************************)
EXTENDS CostGuard

CONSTANTS alice, bob

Callers == {alice, bob}

\* A heavy query of two units that needs no approval: the quota decides.
Plain == [who |-> alice, heavy |-> TRUE, high |-> 2, threshold |-> 2, reserve |-> 2,
          prompt |-> FALSE, typed |-> FALSE, extend |-> FALSE]

\* One-unit queries that differ in how they can be approved: by a prompt with an
\* argument to fall back on, by an argument alone, not at all, and a light query
\* whose argument only extends its timeout.
Prompt == [who |-> alice, heavy |-> TRUE, high |-> 1, threshold |-> 0, reserve |-> 0,
           prompt |-> TRUE, typed |-> TRUE, extend |-> FALSE]
Typed  == [Prompt EXCEPT !.prompt = FALSE]
Bare   == [Prompt EXCEPT !.who = bob, !.prompt = FALSE, !.typed = FALSE]
Longer == [Typed EXCEPT !.heavy = FALSE, !.threshold = 1, !.extend = TRUE]

QuotaRequests    == {Plain}
ApprovalRequests == {Prompt, Bare, Longer}
PromptRequests   == {Prompt}

NoFaults       == {}
AllFaults      == FaultKinds
OnlyReorder    == {"reorder"}
OnlyUnreadable == {"unreadable"}
===============================================================================
