----------------------------- MODULE MCObservers -----------------------------
EXTENDS Observers, TLC

CONSTANTS first, second, other, here, there, mine, theirs, f, g, h, v, v2

MCEngagementOf == first :> here @@ second :> here @@ other :> there
MCProfileOf == first :> mine @@ second :> mine @@ other :> theirs
MCColumns == [d \in {"logs", "users"} |-> IF d = "logs" THEN {f, g} ELSE {g}]
MCSample == [d \in {"logs", "users"} |->
               {[field |-> f, types |-> {"string", "null"}],
                [field |-> g, types |-> {"string", "number"}],
                [field |-> h, types |-> {"null"}]}]
MCCost == [d \in {"logs", "users"} |-> IF d = "logs" THEN 1 ELSE 2]
MCReports == first :> {{"quota"}} @@ second :> {{"cost", "quota"}} @@ other :> {{"quota"}}

\* Stages.
StageOf(word, reads) == [word |-> word, reads |-> reads, as |-> {}, clause |-> None,
                          inlist |-> FALSE, span |-> None, of |-> "logs"]
Where(field, op, value) ==
    [StageOf("filter", {field}) EXCEPT !.clause = [field |-> field, op |-> op, value |-> value]]
On(stages) == [dataset |-> "logs", stages |-> stages, window |-> 1]

\* The queries of an investigation: one comparison, asked both ways, and two of the
\* same field, whose equality query is part of two pairs.
Compared(ops) == On([i \in DOMAIN ops |-> Where(f, ops[i], IF i = 1 THEN v ELSE v2)])
Equalities == {Compared(<<"=">>), Compared(<<"=", "=">>)}
Containments == {Compared(<<"contains">>), Compared(<<"contains", "=">>), Compared(<<"=", "contains">>)}
\* A field the dataset lacks, and the sample discover_log_fields takes.
Unknown == {On(<<StageOf("sort", {}), StageOf("filter", {h})>>)}
MCDiscovering == {On(<<StageOf("limit", {})>>)}
\* Two sources, with a window of the query's own.
Joined == {On(<<[StageOf("config", {}) EXCEPT !.span = 24], StageOf("join", {})>>)}
\* A field the query itself drops after its first mention.
Dropping == {On(<<Where(f, "=", v), StageOf("fields", {g}), StageOf("sort", {f})>>)}
\* A stage in the parentheses of an in-list reads the other dataset.
Nested == {On(<<[StageOf("filter", {f}) EXCEPT !.inlist = TRUE],
                [StageOf("fields", {f}) EXCEPT !.of = "users"]>>)}

MCAsks == first :> Equalities @@ second :> Containments @@
          other :> {Compared(<<"contains">>)} \cup Unknown
MCAsksDropping == first :> {Compared(<<"=">>)} @@ second :> MCDiscovering @@
                  other :> Dropping \cup Nested \cup Joined
===============================================================================
