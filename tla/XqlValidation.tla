----------------------------- MODULE XqlValidation -----------------------------
(***************************************************************************)
(* validate_xql: static checks of a raw query, a dataset list and a field  *)
(* sample fetched through two caches, and an optional bounded probe        *)
(* (src/usecase/xql_validation.py).                                        *)
(*                                                                         *)
(* Calls run concurrently on one event loop.  An action is the code        *)
(* between two awaits: it begins a call or takes the answer to the request *)
(* the call waits for, and goes on to the call's next request or its end.  *)
(*                                                                         *)
(* A query is a sequence of stages; a stage keeps the names the checks     *)
(* look at.  Times are ticks, for the monotonic and the epoch clock alike. *)
(*                                                                         *)
(* Observability only: "lists" and "samples" (every answer XSIAM gave,     *)
(* with the time its request was decided on) and the fields listAsked, *)
(* listed, asked and checked of a call.                                    *)
(***************************************************************************)
EXTENDS Integers, Sequences, FiniteSets, SequencesExt

CONSTANTS
    Callers,         \* concurrent calls
    Principals,      \* authenticated principals
    Grants,          \* [Principals -> datasets the policy grants, All among them]
    Raw,             \* principals in RAW_XQL_PRIVILEGED_GROUPS
    Scope,           \* [Principals -> tenant and credential profile]
    Requests,        \* what analysts may ask: [stages, timeframe, probe]
    EnumFields,      \* [dataset names -> enum-backed fields]
    TenantLists,     \* dataset lists get_datasets may return
    Samples,         \* field-name sets a discovery sample may show
    MaxSpan,         \* DATASET_QUERY_MAX_TIMEFRAME_MS
    ModeWindow,      \* default window of the engagement mode
    MaxRows,         \* DATASET_QUERY_MAX_ROWS
    AppendedLimit,   \* APPENDED_LIMIT
    Hour,            \* HOUR_MS, and CACHE_TTL_SECONDS, in ticks
    CacheMax,        \* CACHE_MAX_ENTRIES
    MaxTime,         \* bound: ticks
    MaxCalls,        \* bound: validate_xql calls
    All, None

\* A word the checks do not tell apart from others is "other".
Operators == {"=", "!=", "contains", "not contains", "in", "not in", "other"}
Words == {"none", "dataset", "preset", "datamodel", "call", "config", "filter", "fields", "alter",
          "comp", "sort", "dedup", "limit", "bin", "replacenull", "tag", "search", "join", "union",
          "other"}
Comparison == [field: STRING, op: Operators, literal: {"text", "address", "other"}, not: BOOLEAN]
Stage == [kw: Words, names: SUBSET DOMAIN EnumFields, source: STRING \cup {None}, window: BOOLEAN,
          inner: BOOLEAN, refs: SUBSET STRING, defs: SUBSET STRING, tests: SUBSET Comparison, limit: Int]
Timeframe == [relative: Nat, from: Int, to: Int]

ASSUME XqlAssumption ==
    /\ Hour \in Nat \ {0} /\ CacheMax \in Nat \ {0} /\ MaxTime \in Nat /\ AppendedLimit \in Nat
    /\ Requests \subseteq [stages: Seq(Stage), timeframe: Timeframe \cup {None}, probe: BOOLEAN]

VARIABLES
    calls,           \* [Callers -> call]
    datasetCache,    \* _dataset_cache, in insertion order
    fieldCache,      \* _field_cache, in insertion order
    now,             \* the clock
    lists, samples,  \* answers so far
    count            \* calls begun

vars == <<calls, datasetCache, fieldCache, now, lists, samples, count>>

-----------------------------------------------------------------------------
\* Queries.

NoStage == [kw |-> "none", names |-> {}, source |-> None, window |-> FALSE, inner |-> FALSE,
            refs |-> {}, defs |-> {}, tests |-> {}, limit |-> 0]

\* split_stages, _stage_keyword: subqueries stay inside their stage.
Keywords(stages)  == {s.kw : s \in ToSet(stages)}
SetsWindow(stages) == \E s \in ToSet(stages) : s.kw = "config" /\ s.window
SourceIndex(stages) ==
    LET at == {i \in DOMAIN stages : stages[i].kw # "config"}
    IN IF at = {} THEN 0 ELSE CHOOSE i \in at : \A j \in at : i <= j

\* dataset_references: those of subqueries and unions too.
References(stages) == UNION {s.names : s \in ToSet(stages)}
EnumBacked(stages) == UNION {EnumFields[d] : d \in References(stages)}

\* TERMINAL_LIMIT_RE: the last stage is a numeric limit.
HasLimit(stages) == Len(stages) > 1 /\ Last(stages).kw = "limit"

IsEnumEquality(test, enum) ==
    test.op \in {"=", "!="} /\ test.literal \in {"text", "address"} /\ test.field \in enum
IsContainsAddress(test) == test.op \in {"contains", "not contains"} /\ test.literal = "address"

\* Mutant: an address is compared with = instead of in.
FixedEquals(test, enum) ==
    CASE IsEnumEquality(test, enum) -> [test EXCEPT !.op = "contains", !.not = test.op = "!="]
      [] ~IsEnumEquality(test, enum) /\ IsContainsAddress(test)
           -> [test EXCEPT !.op = IF test.op = "contains" THEN "=" ELSE "!="]
      [] OTHER -> test

\* The deterministic rewrite of one comparison.
Fixed(test, enum) ==
    CASE IsEnumEquality(test, enum) -> [test EXCEPT !.op = "contains", !.not = test.op = "!="]
      [] ~IsEnumEquality(test, enum) /\ IsContainsAddress(test)
           -> [test EXCEPT !.op = IF test.op = "contains" THEN "in" ELSE "not in"]
      [] OTHER -> test

FixedStage(stage, enum) ==
    IF stage.kw # "filter" THEN stage
    ELSE [stage EXCEPT !.tests = {Fixed(t, enum) : t \in stage.tests}]

Limit(n) == [NoStage EXCEPT !.kw = "limit", !.limit = n]

\* _apply_rewrites: the corrected text, or None when nothing is to be corrected.
Corrected(stages) ==
    LET enum  == EnumBacked(stages)
        fixed == [i \in DOMAIN stages |-> FixedStage(stages[i], enum)]
        whole == IF HasLimit(stages) THEN fixed ELSE Append(fixed, Limit(AppendedLimit))
    IN IF whole = stages THEN None ELSE whole

-----------------------------------------------------------------------------
\* Problems: a code, what it names, and the names its suggestion shows.

Problem(code, of, hints) == [code |-> code, of |-> of, hints |-> hints]
Flag(code) == Problem(code, None, {})
When(condition, code) == IF condition THEN {Flag(code)} ELSE {}

Warnings == {"config_timeframe", "dataset_unresolved", "limit_clamped",
             "timeframe_exceeds_mode_window", "field_check_skipped"}
HasError(problems) == \E p \in problems : p.code \notin Warnings

Granted(p, d) == All \in Grants[p] \/ d \in Grants[p]

Span(t) == IF t.relative > 0 THEN t.relative ELSE t.to - t.from
Shaped(t) == t.relative > 0 \/ t.from < t.to

\* _check_timeframe
TimeframeProblems(t) ==
    IF t = None THEN {Flag("timeframe_missing")}
    ELSE IF ~Shaped(t) THEN {Flag("timeframe_invalid")}
    ELSE IF Span(t) > MaxSpan THEN {Flag("timeframe_too_long")}
    ELSE When(Span(t) > ModeWindow, "timeframe_exceeds_mode_window")

\* _check_limit
LimitProblems(stages) ==
    IF ~HasLimit(stages) THEN {Flag("missing_limit")}
    ELSE When(Last(stages).limit < 1, "limit_invalid")
         \cup When(Last(stages).limit > MaxRows, "limit_clamped")

SourceKeyword(stages) ==
    IF SourceIndex(stages) = 0 THEN "" ELSE stages[SourceIndex(stages)].kw
SourceDataset(stages) ==
    IF SourceKeyword(stages) = "dataset" THEN stages[SourceIndex(stages)].source ELSE None
Sourced(stages) == SourceKeyword(stages) \in {"dataset", "preset", "datamodel"}

\* Mutant: the existence check and field discovery take every dataset named.
AllowedBeforePolicy(p, stages) == IF Sourced(stages) THEN References(stages) ELSE {}

\* _check_datasets: dataset policy, before any lookup.
AllowedDatasets(p, stages) ==
    IF Sourced(stages) THEN {d \in References(stages) : Granted(p, d)} ELSE {}

DatasetProblems(p, stages) ==
    IF ~Sourced(stages) THEN {Flag("no_dataset")}
    ELSE {Problem("dataset_not_allowed", d, {}) : d \in {e \in References(stages) : ~Granted(p, e)}}
         \cup When(SourceKeyword(stages) # "dataset" \/ "call" \in Keywords(stages),
                   "dataset_unresolved")

\* _check_filter_comparisons on the filter stages
ComparisonProblems(stages) ==
    LET enum  == EnumBacked(stages)
        tests == UNION {s.tests : s \in {t \in ToSet(stages) : t.kw = "filter"}}
    IN {Problem("enum_equality", t.field, {}) : t \in {u \in tests : IsEnumEquality(u, enum)}}
       \cup {Problem("contains_on_address", t.field, {}) :
               t \in {u \in tests : ~IsEnumEquality(u, enum) /\ IsContainsAddress(u)}}

StaticProblems(p, stages, t) ==
    TimeframeProblems(t) \cup LimitProblems(stages) \cup DatasetProblems(p, stages)
    \cup ComparisonProblems(stages) \cup When(SetsWindow(stages), "config_timeframe")

\* _check_dataset_existence; suggestions are the allowed names of the list.
ExistenceProblems(p, allowed, list) ==
    IF list = None THEN {}
    ELSE {Problem("unknown_dataset", d, {e \in list : Granted(p, e)}) : d \in allowed \ list}

\* _check_fields: the stages after the source up to the first that reshapes
\* the rows; an alias defined by a stage is known in it and after it.
CheckedStages    == {"filter", "fields", "alter", "comp", "sort", "dedup"}
PreservingStages == {"limit", "bin", "replacenull", "tag", "search", "config"}
Checkable(stages) ==
    LET after == SourceIndex(stages) + 1 .. Len(stages)
        stops == {i \in after : stages[i].kw \notin CheckedStages \cup PreservingStages}
    IN {i \in after : \A s \in stops : i < s}
WholeIsCheckable(stages) == Checkable(stages) = SourceIndex(stages) + 1 .. Len(stages)

UnknownFields(stages, names) ==
    UNION {IF stages[i].kw \in PreservingStages THEN {}
           ELSE stages[i].refs \ (names \cup UNION {stages[j].defs : j \in {k \in Checkable(stages) : k <= i}})
             : i \in Checkable(stages)}

FieldProblems(stages, names) ==
    {Problem("unknown_field", f, names) : f \in UnknownFields(stages, names)}
    \cup When(~WholeIsCheckable(stages), "field_check_skipped")

-----------------------------------------------------------------------------
\* The caches: an entry is dated by the moment its lookup began.

Entry(key, at, value) == [key |-> key, at |-> at, value |-> value]
Fresh(cache, key)  == {e \in ToSet(cache) : e.key = key /\ now - e.at < Hour}
Holds(cache, key)  == \E e \in ToSet(cache) : e.key = key

\* _store: the oldest key goes when a new one does not fit; a key stored again
\* keeps its place.
Store(cache, entry) ==
    IF Holds(cache, entry.key)
    THEN [i \in DOMAIN cache |-> IF cache[i].key = entry.key THEN entry ELSE cache[i]]
    ELSE Append(IF Len(cache) >= CacheMax THEN Tail(cache) ELSE cache, entry)

FieldKey(p, dataset) == <<Scope[p], dataset>>

-----------------------------------------------------------------------------
\* Calls.

Idle == [pc |-> "idle"]

NewCall(p, request) ==
    [pc |-> "static", who |-> p, stages |-> request.stages, probe |-> request.probe,
     typed |-> IF HasError(TimeframeProblems(request.timeframe)) THEN None ELSE request.timeframe,
     problems |-> StaticProblems(p, request.stages, request.timeframe),
     allowed |-> AllowedDatasets(p, request.stages), status |-> "skipped", outcome |-> None, window |-> None,
     listAsked |-> None, listed |-> 0, asked |-> None, checked |-> 0]

Least(a, b)    == IF a < b THEN a ELSE b
Greatest(a, b) == IF a > b THEN a ELSE b

\* Mutant: the start is not held at the caller's own.
ProbeWindowUnclamped(t) ==
    IF t # None /\ t.relative = 0
    THEN LET end == Least(t.to, now) IN [from |-> end - Hour, to |-> end]
    ELSE [from |-> now - (IF t = None THEN Hour ELSE Least(t.relative, Hour)), to |-> now]

\* probe_window
ProbeWindow(t) ==
    IF t # None /\ t.relative = 0
    THEN LET end == Least(t.to, now) IN [from |-> Greatest(end - Hour, t.from), to |-> end]
    ELSE [from |-> now - (IF t = None THEN Hour ELSE Least(t.relative, Hour)), to |-> now]

Done(call, outcome) == [call EXCEPT !.pc = "done", !.outcome = outcome]

\* The end of validate_query, and _run_probe up to its query.  A window that
\* lies in the future ends before it starts and the cost guard rejects it.
EnterProbe(call) ==
    LET window == ProbeWindow(call.typed)
    IN IF ~call.probe THEN Done(call, None)
       ELSE IF HasError(call.problems) THEN Done(call, "static_checks_failed")
       ELSE IF call.who \notin Raw \/ ~Granted(call.who, All) THEN Done(call, "not_authorized")
       ELSE IF SetsWindow(call.stages) THEN Done(call, "config_timeframe")
       ELSE IF window.from >= window.to THEN Done(call, "invalid")
       ELSE [call EXCEPT !.pc = "probe", !.window = window]

\* What _check_fields makes of the names it is given.
AfterFields(call, names) ==
    EnterProbe(
        IF names = {}
        THEN [call EXCEPT !.problems = @ \cup {Flag("field_check_skipped")}]
        ELSE [call EXCEPT !.problems = @ \cup FieldProblems(call.stages, names),
                          !.status = IF WholeIsCheckable(call.stages) THEN "checked" ELSE "partial",
                          !.checked = now])

\* _dataset_fields up to its query
EnterFields(call) ==
    LET cached == Fresh(fieldCache, FieldKey(call.who, SourceDataset(call.stages)))
    IN IF cached = {} THEN [call EXCEPT !.pc = "fields", !.asked = now]
       ELSE AfterFields(call, (CHOOSE e \in cached : TRUE).value)

AfterDatasets(call, list) ==
    LET found == ExistenceProblems(call.who, call.allowed, list)
        known == [call EXCEPT !.problems = @ \cup found, !.listed = now]
    IN IF found = {} /\ SourceDataset(call.stages) \in call.allowed
       THEN EnterFields(known) ELSE EnterProbe(known)

\* _tenant_dataset_names up to its request
EnterDatasets(call) ==
    LET cached == Fresh(datasetCache, Scope[call.who])
    IN IF call.allowed = {} THEN EnterProbe(call)
       ELSE IF cached = {} THEN [call EXCEPT !.pc = "datasets", !.listAsked = now]
       ELSE AfterDatasets(call, (CHOOSE e \in cached : TRUE).value)

Init ==
    /\ calls = [c \in Callers |-> Idle]
    /\ datasetCache = <<>> /\ fieldCache = <<>>
    /\ now = 0 /\ count = 0
    /\ lists = {} /\ samples = {}

\* validate_query up to its first await.
Begin(c) ==
    /\ calls[c].pc \in {"idle", "done"}
    /\ count < MaxCalls
    /\ count' = count + 1
    /\ \E p \in Principals, request \in Requests :
          calls' = [calls EXCEPT ![c] = EnterDatasets(NewCall(p, request))]
    /\ UNCHANGED <<datasetCache, fieldCache, now, lists, samples>>

\* get_datasets answers with a list, which is cached, or fails.
DatasetsAnswered(c) ==
    /\ calls[c].pc = "datasets"
    /\ \/ \E list \in TenantLists :
             LET entry == Entry(Scope[calls[c].who], calls[c].listAsked, list)
             IN /\ datasetCache' = Store(datasetCache, entry)
                /\ lists' = lists \cup {entry}
                /\ calls' = [calls EXCEPT ![c] = AfterDatasets(@, list)]
       \/ /\ calls' = [calls EXCEPT ![c] = AfterDatasets(@, None)]
          /\ UNCHANGED <<datasetCache, lists>>
    /\ UNCHANGED <<fieldCache, now, samples, count>>

\* Mutant: the entry is dated by its answer, so an old sample lives longer.
FieldsAnsweredDatedLate(c) ==
    /\ calls[c].pc = "fields"
    /\ LET key == FieldKey(calls[c].who, SourceDataset(calls[c].stages))
       IN \E names \in Samples \cup {{}} :
             /\ fieldCache' = Store(fieldCache, Entry(key, now, names))
             /\ samples' = samples \cup {Entry(<<Scope[calls[c].who], SourceDataset(calls[c].stages)>>,
                                               calls[c].asked, names)}
             /\ calls' = [calls EXCEPT ![c] = AfterFields(@, names)]
    /\ UNCHANGED <<datasetCache, now, lists, count>>

\* The discovery sample answers, is empty or fails, and is cached; a refusal by
\* the cost guard is not.
FieldsAnswered(c) ==
    /\ calls[c].pc = "fields"
    /\ LET key == FieldKey(calls[c].who, SourceDataset(calls[c].stages))
       IN \/ \E names \in Samples \cup {{}} :
                /\ fieldCache' = Store(fieldCache, Entry(key, calls[c].asked, names))
                /\ samples' = samples \cup {Entry(<<Scope[calls[c].who], SourceDataset(calls[c].stages)>>,
                                                  calls[c].asked, names)}
                /\ calls' = [calls EXCEPT ![c] = AfterFields(@, names)]
          \/ /\ calls' = [calls EXCEPT ![c] = AfterFields(@, {})]
             /\ UNCHANGED <<fieldCache, samples>>
    /\ UNCHANGED <<datasetCache, now, lists, count>>

\* Only a failure that ran is a problem.
AfterProbe(call, outcome) ==
    Done([call EXCEPT !.problems = @ \cup When(outcome = "failed", "probe_failed")], outcome)

\* The probe succeeds, fails with a classified or unknown error, or is refused
\* or cut off on the way.
ProbeAnswered(c) ==
    /\ calls[c].pc = "probe"
    /\ \E outcome \in {"ok", "failed", "cost_guard", "unavailable"} :
          calls' = [calls EXCEPT ![c] = AfterProbe(@, outcome)]
    /\ UNCHANGED <<datasetCache, fieldCache, now, lists, samples, count>>

Tick ==
    /\ now < MaxTime
    /\ now' = now + 1
    /\ UNCHANGED <<calls, datasetCache, fieldCache, lists, samples, count>>

Next ==
    \/ \E c \in Callers : Begin(c) \/ DatasetsAnswered(c) \/ FieldsAnswered(c) \/ ProbeAnswered(c)
    \/ Tick

Spec == Init /\ [][Next]_vars

-----------------------------------------------------------------------------
Running == {c \in Callers : calls[c].pc # "idle"}
Codes(c) == {p.code : p \in calls[c].problems}

\* Both caches stay within CACHE_MAX_ENTRIES, with one entry for a key, and
\* every call is at one of its awaits or at its end.
TypeOK ==
    /\ \A c \in Callers : calls[c].pc \in {"idle", "datasets", "fields", "probe", "done"}
    /\ \A cache \in {datasetCache, fieldCache} :
          /\ Len(cache) <= CacheMax
          /\ \A i, j \in DOMAIN cache : cache[i].key = cache[j].key => i = j

\* The answers a call may go by: its own, whatever it took, or one asked for
\* less than an hour before the moment the call looked.
Usable(answers, key, asked, moment) ==
    {a \in answers : a.key = key /\ (a.at = asked \/ moment - a.at < Hour)}

\* A call reports a field as unknown, or its fields as checked, only on the
\* word of a sample of that dataset taken with the call's own credentials and
\* asked for less than an hour before the check, however the cache, slow
\* answers and other calls interleave; a missing dataset likewise.
AnswersAreFresh ==
    \A c \in Running :
        LET call    == calls[c]
            missing == {p.of : p \in {q \in call.problems : q.code = "unknown_dataset"}}
            unknown == {p.of : p \in {q \in call.problems : q.code = "unknown_field"}}
            key     == <<Scope[call.who], SourceDataset(call.stages)>>
        IN /\ call.status # "skipped" =>
                \E a \in Usable(samples, key, call.asked, call.checked) :
                    a.value # {} /\ UnknownFields(call.stages, a.value) = unknown
           /\ missing # {} =>
                \E a \in Usable(lists, Scope[call.who], call.listAsked, call.listed) :
                    missing \cap a.value = {}

\* Dataset policy comes before every lookup: no request, existence answer or
\* suggestion is about a dataset the caller may not query.
RevealsOnlyAllowed ==
    \A c \in Running :
        /\ calls[c].pc = "fields" => Granted(calls[c].who, SourceDataset(calls[c].stages))
        /\ \A p \in calls[c].problems :
              /\ p.code = "unknown_dataset" => \A d \in p.hints \cup {p.of} : Granted(calls[c].who, d)
              /\ p.code = "unknown_field" => Granted(calls[c].who, SourceDataset(calls[c].stages))

\* A probe runs only for a principal with the raw and all-datasets grants, on
\* a query without errors that sets no window of its own, over at most an hour
\* inside the window the caller gave.
ProbeIsBounded ==
    \A c \in Running :
        LET call == calls[c]
        IN call.window # None =>
              /\ call.who \in Raw /\ Granted(call.who, All)
              /\ ~HasError({p \in call.problems : p.code # "probe_failed"})
              /\ ~SetsWindow(call.stages)
              /\ call.window.from < call.window.to
              /\ call.window.to - call.window.from <= Least(Hour, Span(call.typed))
              /\ call.typed.relative = 0 => /\ call.window.from >= call.typed.from
                                            /\ call.window.to <= call.typed.to

\* The module's promise for the probe, "over one hour": no query probed sets a
\* window of its own, in a subquery either.
ProbeWithinOneHour ==
    \A c \in Running :
        calls[c].window # None =>
            \A s \in ToSet(calls[c].stages) : ~s.window /\ ~s.inner

\* A corrected query that is corrected once more has nothing left to correct:
\* an address compared with = in an enum-backed field takes both rewrites, and
\* no rewrite is undone by another.
CorrectionSettles ==
    \A c \in Running :
        LET once  == Corrected(calls[c].stages)
            twice == IF once = None THEN None ELSE Corrected(once)
        IN twice # None => Corrected(twice) = None
===============================================================================
