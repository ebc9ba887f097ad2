----------------------------- MODULE MCResultCache -----------------------------
(***************************************************************************)
(* A small instance of ResultCache for TLC.                                *)
(***************************************************************************)
EXTENDS ResultCache, TLC

CONSTANTS c1, c2, c3, alice, bob, query, old, current

ThreeCalls == {c1, c2, c3}
TwoScopes  == {alice, bob}
OneText    == {query}
TwoKeys    == {old, current}

\* The calls are interchangeable, and so are the scopes and the credentials:
\* the specification compares them for equality only.
Symmetric == Permutations(ThreeCalls) \cup Permutations(TwoScopes) \cup Permutations(TwoKeys)
===============================================================================
