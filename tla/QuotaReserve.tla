----------------------------- MODULE QuotaReserve -----------------------------
(***************************************************************************)
(* What the cost guard promises about the tenant's XQL budget, said as if  *)
(* it could see the true budget: the units of each admitted query are set  *)
(* aside until XSIAM charges it, a query is admitted only if what is left  *)
(* then stays at or above the reserve, and nothing but a new day gives     *)
(* units back.  CostGuard, which sees the budget only through answers that *)
(* travel, implements this when nothing outside the gateway fails.         *)
(***************************************************************************)
EXTENDS UnitSums

CONSTANTS NumQueries, Budget, Reserve

Queries == 1..NumQueries

VARIABLES budget, setAside

absVars == <<budget, setAside>>

Init ==
    /\ budget = Budget
    /\ setAside = [q \in Queries |-> 0]

Admit(q, units) ==
    /\ setAside[q] = 0
    /\ budget - Total(setAside, NumQueries) - units >= Reserve
    /\ setAside' = [setAside EXCEPT ![q] = units]
    /\ UNCHANGED budget

\* The query ends and is charged at most what was set aside for it; nothing, if
\* it never reached XSIAM.
Settle(q, units) ==
    /\ setAside[q] > 0
    /\ budget' = Minus(budget, units)
    /\ setAside' = [setAside EXCEPT ![q] = 0]

NewDay ==
    /\ budget' = Budget
    /\ UNCHANGED setAside

Next ==
    \/ \E q \in Queries : \/ \E units \in 1..Budget : Admit(q, units)
                          \/ \E units \in 0..setAside[q] : Settle(q, units)
    \/ NewDay

Spec == Init /\ [][Next]_absVars
===============================================================================
