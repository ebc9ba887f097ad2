----------------------------- MODULE MCEngagement -----------------------------
(***************************************************************************)
(* A small instance of Engagement for TLC.                                 *)
(***************************************************************************)
EXTENDS Engagement

CONSTANTS first, second, case, other, hunt, respond, x

OneSession == {first}
TwoSessions == {first, second}
OneCase    == {case}
TwoCases   == {case, other}
TwoModes   == {hunt, respond}
OneItem    == {x}

Set(s, m, k, v) == [kind |-> "set", session |-> s, mode |-> m, case |-> k, scope |-> v]
Ask(s)          == [kind |-> "query", session |-> s]
Cite(s, c)      == [kind |-> "fact", session |-> s, evidence |-> c]

\* One session that opens a case, returns to it, changes case, queries and cites.
SessionRequests ==
    {Set(first, hunt, case, x), Set(first, respond, case, Omitted),
     Set(first, hunt, other, Empty), Ask(first), Cite(first, 2)}

\* Two sessions on one case: one sets its scope, both return to it without one.
SharedRequests ==
    {Set(first, hunt, case, x), Set(first, hunt, case, Empty), Set(first, hunt, case, Omitted),
     Set(second, respond, case, Omitted)}
===============================================================================
