---------------------------- MODULE MCDatasetPages -----------------------------
(***************************************************************************)
(* A small instance of DatasetPages for TLC.                               *)
(***************************************************************************)
EXTENDS DatasetPages

CONSTANTS alice

Of(id, time, user) == [id |-> id, time |-> time, user |-> user]
MCRows == {Of(1, 0, 2), Of(2, 0, 1), Of(3, 1, Null)}

By(field, asc) == [field |-> field, asc |-> asc]
Paged(order, limit, relative) ==
    [order |-> order, limit |-> limit, cont |-> TRUE, relative |-> relative, span |-> 2,
     to |-> IF relative THEN 0 ELSE 2]
MCPlans == {Paged(<<By("time", FALSE), By("id", TRUE)>>, 1, TRUE),
            Paged(<<By("user", TRUE), By("id", FALSE)>>, 2, FALSE),
            [Paged(<<By("user", TRUE), By("id", FALSE)>>, 3, FALSE) EXCEPT !.cont = FALSE]}
MCGroups == {{"soc"}, {"it"}}
MCPolicies == {{"soc"}, {"soc", "it"}}
===============================================================================
