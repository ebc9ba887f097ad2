---------------------------- MODULE MCXqlValidation ----------------------------
(***************************************************************************)
(* A small instance of XqlValidation for TLC.                              *)
(***************************************************************************)
EXTENDS XqlValidation, TLC

CONSTANTS one, two

MCPrincipals == {"admin", "reader"}
MCGrants == [admin |-> {All}, reader |-> {"auth", "gone"}]
MCRaw    == {"admin"}
MCScope  == [admin |-> "s1", reader |-> "s2"]

From(d)        == [NoStage EXCEPT !.kw = "dataset", !.names = {d}, !.source = d]
Refs(kw, refs) == [NoStage EXCEPT !.kw = kw, !.refs = refs]
Filter(tests)  == [NoStage EXCEPT !.kw = "filter", !.tests = tests, !.refs = {t.field : t \in tests}]
Test(field, op, literal) == [field |-> field, op |-> op, literal |-> literal, not |-> FALSE]
Join(d, inner) == [NoStage EXCEPT !.kw = "join", !.names = {d}, !.inner = inner]
Window         == [NoStage EXCEPT !.kw = "config", !.window = TRUE]

Lookback(ticks)   == [relative |-> ticks, from |-> 0, to |-> 0]
Between(from, to) == [relative |-> 0, from |-> from, to |-> to]
Request(stages, timeframe, probe) == [stages |-> stages, timeframe |-> timeframe, probe |-> probe]

Plain   == <<From("auth"), Refs("fields", {"user"}), Limit(2)>>
Aliased == <<From("auth"), [Refs("alter", {"user"}) EXCEPT !.defs = {"who"}], Refs("sort", {"who", "kind"}),
             Join("net", TRUE), Limit(9)>>
Tested  == <<From("auth"), Filter({Test("kind", "=", "address"), Test("user", "not contains", "address")})>>

MCRequests == {
    Request(Plain, Between(0, 1), TRUE),
    Request(Plain, Between(1, 6), TRUE),
    Request(Aliased, Lookback(4), TRUE),
    Request(Tested, None, FALSE),
    Request(<<Window, From("gone"), Limit(0)>>, Between(1, 1), FALSE),
    Request(<<From("gone"), Refs("sort", {"user"}), Limit(1)>>, Between(0, 3), TRUE),
    Request(<<[NoStage EXCEPT !.kw = "preset"], Limit(1)>>, Lookback(1), TRUE),
    Request(<<Limit(1)>>, Between(0, 9), FALSE)}

MCEnumFields == [d \in {"auth", "net", "gone"} |-> IF d = "auth" THEN {"kind"} ELSE {}]
MCTenantLists == {{"auth", "net", "hidden"}, {"auth", "gone"}}
MCSamples == {{"user"}}
MCSymmetry == Permutations(Callers)
===============================================================================
