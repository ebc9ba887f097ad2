----------------------------- MODULE DatasetPages ------------------------------
(***************************************************************************)
(* query_dataset and continue_dataset_query: a typed row query is compiled *)
(* with one row of lookahead, its page is cut by the limit and by the      *)
(* response budget, and an encrypted cursor carries the plan, the caller's *)
(* identity and the sort values of the last row sent                       *)
(* (src/usecase/dataset_query.py, builtin_components/datasets.py).         *)
(*                                                                         *)
(* The rows of the dataset grow while a caller pages through them, and     *)
(* identity, mode and policy change between and during calls.  A page is a *)
(* query like any other, so the result cache of the cost guard may answer  *)
(* it with what an earlier page of the same text read (usecase/            *)
(* cost_guard.py, prepare_query and finish_query).                         *)
(*                                                                         *)
(* Observability only: "read" of a cached reply (the rows it was read      *)
(* from), and of a cursor, a call and a page "seen" (the rows sent before  *)
(* it), "first" (the rows the reading of the first page found) and "base"  *)
(* (those of them that were there at the reading of every page since).     *)
(***************************************************************************)
EXTENDS Integers, Sequences, FiniteSets, SequencesExt

CONSTANTS
    Rows,            \* rows the dataset may get: [id, time, user]
    Plans,           \* row plans: [order, limit, cont, relative, span]
    Principals,      \* authenticated callers
    Modes,           \* engagement scopes: mode and case id as one value
    Policies,        \* dataset policies: the groups granted the dataset
    Groups,          \* group sets an identity provider may report
    MaxRows,         \* DATASET_QUERY_MAX_ROWS
    MaxResult,       \* MAX_XQL_RESULT_LIMIT
    RowsInBudget,    \* rows DATASET_QUERY_MAX_RESPONSE_BYTES lets through: a set of numbers
    Ttl,             \* DATASET_QUERY_CURSOR_TTL_SECONDS, in ticks
    CacheTtl,        \* COST_GUARD_CACHE_TTL_SECONDS, in ticks; 0: no cache
    HasSecret,       \* DATASET_QUERY_CURSOR_SECRET is set
    NullsLast,       \* where XSIAM sorts rows without the field
    MaxTime,         \* bound: ticks
    MaxCalls,        \* bound: tool calls
    MaxChanges,      \* bound: changes of identity, mode or policy, and evictions
    Null, None

Fields == {"id", "time", "user"}
Row  == [id: Int, time: Int, user: Int \cup {Null}]
Plan == [order: Seq([field: Fields, asc: BOOLEAN]), limit: Int, cont: BOOLEAN,
         relative: BOOLEAN, span: Nat, to: Int]

ASSUME PagesAssumption ==
    /\ Rows \subseteq Row /\ Plans \subseteq Plan /\ Null \notin Int
    /\ None \notin Seq(Int)
    /\ {MaxRows, MaxResult} \subseteq Nat \ {0} /\ RowsInBudget \subseteq Nat
    /\ {Ttl, CacheTtl, MaxTime, MaxCalls, MaxChanges} \subseteq Nat
    /\ HasSecret \in BOOLEAN /\ NullsLast \in BOOLEAN

VARIABLES
    rows,            \* the dataset
    now,             \* ticks
    groups,          \* [Principals -> groups of the token]
    mode,            \* [Principals -> engagement mode and case]
    policy,          \* the dataset policy
    call,            \* the running call, or None
    cursors,         \* cursors handed out
    page,            \* the last page sent, or None
    cache,           \* replies kept: [key, reply, read, at]
    calls, changes   \* counters behind the bounds

vars == <<rows, now, groups, mode, policy, call, cursors, page, cache, calls, changes>>

-----------------------------------------------------------------------------
\* What the callers' context is, and whether the policy grants the dataset.

Context(p) == [who |-> p, groups |-> groups[p], mode |-> mode[p]]
Authorized(context) == context.groups \cap policy # {}

\* What a cursor is bound to besides its plan.
Binding(context) == [context |-> context, policy |-> policy]

-----------------------------------------------------------------------------
\* The compiled query.

Smaller(a, b) == IF a < b THEN a ELSE b
Larger(a, b)  == IF a > b THEN a ELSE b

PageLimit(plan) ==
    Smaller(Smaller(Larger(plan.limit, 1), MaxRows),
            IF plan.cont THEN MaxResult - 1 ELSE MaxResult)
FetchLimit(plan) == PageLimit(plan) + (IF plan.cont THEN 1 ELSE 0)

\* Mutant: a relative window moves on with every page.
NotFrozen(plan) == plan

\* _freeze_timeframe: a window that ends now becomes absolute for continuation.
Frozen(plan) ==
    IF plan.cont /\ plan.relative
    THEN [plan EXCEPT !.relative = FALSE, !.to = now] ELSE plan

WindowEnd(plan) == IF plan.relative THEN now ELSE plan.to
InWindow(plan, row) ==
    /\ row.time <= WindowEnd(plan)
    /\ row.time >= WindowEnd(plan) - plan.span

\* A comparison with a missing value selects nothing.
Beyond(item, row, value) ==
    /\ row[item.field] # Null
    /\ IF item.asc THEN row[item.field] > value ELSE row[item.field] < value

\* Mutant: the equalities of the leading sort fields are left out.
SeeksLoosely(plan, values, row) ==
    \E i \in DOMAIN plan.order : Beyond(plan.order[i], row, values[i])

\* _build_seek_clause: behind the last row sent, in the sort order.
Seeks(plan, values, row) ==
    \E i \in DOMAIN plan.order :
        /\ \A j \in 1 .. i - 1 : row[plan.order[j].field] = values[j]
        /\ Beyond(plan.order[i], row, values[i])

\* External: the order XSIAM returns rows in.
Before(item, r, s) ==
    LET a == r[item.field]
        b == s[item.field]
    IN IF a = Null \/ b = Null THEN a # b /\ (IF NullsLast THEN b = Null ELSE a = Null)
       ELSE IF item.asc THEN a < b ELSE a > b
Precedes(plan, r, s) ==
    \/ \E i \in DOMAIN plan.order :
          /\ \A j \in 1 .. i - 1 : r[plan.order[j].field] = s[plan.order[j].field]
          /\ Before(plan.order[i], r, s)
    \/ /\ \A i \in DOMAIN plan.order : r[plan.order[i].field] = s[plan.order[i].field]
       /\ r.id < s.id

\* build_dataset_xql: the text and the limits of one page.  What a caller asked
\* for besides (its limit, and that it continues) does not reach the text.
Compiled(plan, values) ==
    [order |-> plan.order, fetch |-> FetchLimit(plan), relative |-> plan.relative,
     span |-> plan.span, to |-> plan.to, values |-> values]

Matching(xql, there) ==
    {row \in there : /\ InWindow(xql, row)
                     /\ xql.values # None => Seeks(xql, xql.values, row)}

TakeFirst(n, s) == SubSeq(s, 1, Smaller(n, Len(s)))

\* External: what XSIAM may return for a query that finds these rows: the first of
\* them in the order of the sort stage, up to the limit.
Replies(xql, found) ==
    {s \in SeqOf(found, xql.fetch) :
        /\ \A i, j \in DOMAIN s : i < j => Precedes(xql, s[i], s[j])
        /\ \A i \in DOMAIN s : \A row \in found \ ToSet(s) : Precedes(xql, s[i], row)
        /\ Len(s) = xql.fetch \/ ToSet(s) = found}

\* _cache_key: who asks under which mode, case and policy, and the text.
CacheKey(c) == [binding |-> Binding(c.context), xql |-> Compiled(c.plan, c.values)]

\* _cache_lookup: a reply to the same key that is not too old.
Hits(key) == {entry \in cache : entry.key = key /\ now - entry.at <= CacheTtl /\ CacheTtl > 0}

\* Where a reply comes from: the cache if it has one, else the rows of now.
Readings(key) ==
    IF Hits(key) # {} THEN Hits(key)
    ELSE {[key |-> key, reply |-> s, read |-> rows, at |-> now] :
             s \in Replies(key.xql, Matching(key.xql, rows))}

\* _cache_store: the latest reply to a key.
Stored(entry) ==
    IF CacheTtl = 0 THEN cache ELSE {e \in cache : e.key # entry.key} \cup {entry}

-----------------------------------------------------------------------------
\* Cursors.

LastValues(plan, row) == [i \in DOMAIN plan.order |-> row[plan.order[i].field]]

Reason(plan, sent, more) ==
    CASE ~more                     -> "complete"
      [] ~plan.cont                -> "continuation_not_enabled"
      [] plan.order = <<>>         -> "deterministic_order_required"
      [] sent = <<>>               -> "response_budget_too_small"
      [] Null \in ToSet(LastValues(plan, Last(sent))) -> "sort_value_null"
      [] ~HasSecret                -> "continuation_disabled"
      [] OTHER                     -> "available"

Accepts(cursor, context) ==
    /\ now <= cursor.issued + Ttl
    /\ cursor.binding = Binding(context)

-----------------------------------------------------------------------------
Init ==
    /\ rows \in {s \in SUBSET Rows : \A r \in s : r.time = 0}
    /\ now = 0
    /\ LET granted == CHOOSE g \in Policies : TRUE
       IN /\ policy = granted
          /\ groups = [p \in Principals |-> CHOOSE g \in Groups : g \cap granted # {}]
    /\ mode = [p \in Principals |-> CHOOSE m \in Modes : TRUE]
    /\ call = None
    /\ cursors = {}
    /\ page = None
    /\ cache = {}
    /\ calls = 0 /\ changes = 0

\* query_dataset up to the query: authorised, frozen and compiled.
QueryDataset(p, plan) ==
    /\ call = None /\ calls < MaxCalls
    /\ Authorized(Context(p))
    /\ call' = [context |-> Context(p), plan |-> Frozen(plan), values |-> None,
                seen |-> {}, base |-> {}, first |-> {}]
    /\ page' = None
    /\ calls' = calls + 1
    /\ UNCHANGED <<rows, now, groups, mode, policy, cursors, cache, changes>>

\* continue_dataset_query up to the query: identity and policy checked again.
ContinueDatasetQuery(p, cursor) ==
    /\ call = None /\ calls < MaxCalls
    /\ Accepts(cursor, Context(p))
    /\ Authorized(Context(p))
    /\ call' = [context |-> Context(p), plan |-> cursor.plan, values |-> cursor.values,
                seen |-> cursor.seen, base |-> cursor.base, first |-> cursor.first]
    /\ page' = None
    /\ calls' = calls + 1
    /\ UNCHANGED <<rows, now, groups, mode, policy, cursors, cache, changes>>

\* Mutant: the next page starts behind the last row fetched, sent or not.
AfterFetched(sent, fetched) == Last(fetched)
AfterSent(sent, fetched) == Last(sent)

\* Mutant: a row the budget cut off is not counted as left.
MoreIfFetched(fetched, cut, sent) == Len(fetched) > Len(cut)
More(fetched, cut, sent) == Len(fetched) > Len(cut) \/ Len(sent) < Len(cut)

\* _execute_plan from the reply on: the page is cut, a cursor may be issued.
AnswerPage(budget) ==
    /\ call # None
    /\ \E entry \in Readings(CacheKey(call)) :
         LET fetched == entry.reply
             cut     == TakeFirst(PageLimit(call.plan), fetched)
             sent    == TakeFirst(budget, cut)
             reason  == Reason(call.plan, sent, More(fetched, cut, sent))
             first   == IF call.values = None THEN Matching(entry.key.xql, entry.read)
                        ELSE call.first
             base    == (IF call.values = None THEN first ELSE call.base) \cap entry.read
         IN /\ page' = [call |-> call, sent |-> sent, reason |-> reason, base |-> base,
                        first |-> first]
            /\ cursors' = IF reason # "available" THEN cursors
                          ELSE cursors \cup
                               {[plan |-> call.plan, binding |-> Binding(call.context),
                                 values |-> LastValues(call.plan, AfterSent(sent, fetched)),
                                 issued |-> now, base |-> base, first |-> first,
                                 seen |-> call.seen \cup ToSet(sent)]}
            /\ cache' = Stored(entry)
    /\ call' = None
    /\ UNCHANGED <<rows, now, groups, mode, policy, calls, changes>>

\* The query is refused by the cost guard or fails at XSIAM: an error, no page.
FailQuery ==
    /\ call # None
    /\ call' = None
    /\ UNCHANGED <<rows, now, groups, mode, policy, cursors, page, cache, calls, changes>>

\* External: XSIAM ingests a row, with a time that may lie behind.
Ingest(row) ==
    /\ row \notin rows /\ row.time <= now
    /\ rows' = rows \cup {row}
    /\ UNCHANGED <<now, groups, mode, policy, call, cursors, page, cache, calls, changes>>

Tick ==
    /\ now < MaxTime
    /\ now' = now + 1
    /\ UNCHANGED <<rows, groups, mode, policy, call, cursors, page, cache, calls, changes>>

\* The identity provider, an administrator or the caller changes what a call runs under.
Change ==
    /\ changes < MaxChanges
    /\ changes' = changes + 1
    /\ \/ \E p \in Principals, g \in Groups :
             groups' = [groups EXCEPT ![p] = g] /\ UNCHANGED <<mode, policy>>
       \/ \E p \in Principals, m \in Modes :
             mode' = [mode EXCEPT ![p] = m] /\ UNCHANGED <<groups, policy>>
       \/ policy' \in Policies /\ UNCHANGED <<groups, mode>>
    /\ UNCHANGED <<rows, now, call, cursors, page, cache, calls>>

\* Replies to other queries push one out, or the credential behind it changed.
Evict ==
    /\ changes < MaxChanges
    /\ changes' = changes + 1
    /\ \E entry \in cache : cache' = cache \ {entry}
    /\ UNCHANGED <<rows, now, groups, mode, policy, call, cursors, page, calls>>

Next ==
    \/ \E p \in Principals, plan \in Plans : QueryDataset(p, plan)
    \/ \E p \in Principals, cursor \in cursors : ContinueDatasetQuery(p, cursor)
    \/ \E budget \in RowsInBudget : AnswerPage(budget)
    \/ FailQuery
    \/ \E row \in Rows : Ingest(row)
    \/ Tick
    \/ Change
    \/ Evict

Spec == Init /\ [][Next]_vars

-----------------------------------------------------------------------------
Reasons == {"complete", "continuation_not_enabled", "deterministic_order_required",
            "response_budget_too_small", "sort_value_null", "continuation_disabled", "available"}

TypeOK ==
    /\ rows \subseteq Rows
    /\ call # None => call.context.who \in Principals
    /\ \A c \in cursors : /\ c.plan.cont /\ ~c.plan.relative
                          /\ Len(c.values) = Len(c.plan.order) /\ Null \notin ToSet(c.values)
    /\ page # None => page.reason \in Reasons /\ Len(page.sent) <= MaxRows

\* However a cursor is used, retried or overtaken by new rows, no page repeats a
\* row that an earlier page of the same query has shown.
NoRowTwice ==
    page # None => ToSet(page.sent) \cap page.call.seen = {}

SortValuesKnown(plan, row) == \A i \in DOMAIN plan.order : row[plan.order[i].field] # Null
Shown(row) == row \in page.call.seen \cup ToSet(page.sent)

\* When a query that asked for continuation ends as complete, every row that was
\* there at the reading of each of its pages, and that has its sort values, was
\* sent: neither the limit, the response budget, rows arriving meanwhile nor
\* pages answered from the cache hide one.
NothingSkipped ==
    page # None /\ page.call.plan.cont /\ page.reason = "complete" =>
        \A row \in page.base : SortValuesKnown(page.call.plan, row) => Shown(row)

\* The same of every row the reading of the first page found, although a later
\* page may be answered from an older reading.
NothingSkippedSinceFirst ==
    page # None /\ page.call.plan.cont /\ page.reason = "complete" =>
        \A row \in page.first : SortValuesKnown(page.call.plan, row) => Shown(row)

\* The same of every row, those without a sort value included.
NothingSkippedAtAll ==
    page # None /\ page.call.plan.cont /\ page.reason = "complete" =>
        \A row \in page.base : Shown(row)

\* All pages of a query show the window its first page was asked for: rows that
\* arrive with a later time never join it.
WindowStays ==
    \A c \in cursors : \A row \in c.seen : row.time <= c.plan.to
===============================================================================
