------------------------------ MODULE Observers ------------------------------
\* The learning observers (src/src/usecase/learning_observers.py): what the
\* gateway concludes from the queries its tool calls ran, before the learner
\* sees it.  Calls run concurrently on one event loop and share two process-wide
\* memories: the last remaining quota seen by each credential profile, from which
\* the cost of a query is derived when XSIAM does not report it, and the equality
\* filters that returned no rows, which wait for the same query with contains.
\* An observer never awaits: each is one step.  XSIAM itself is external: its quota
\* is the tenant's, charged for the queries of every profile and of other clients.
\*
\* A query is a sequence of stages after its dataset stage, cut at every "|" as
\* parse_xql cuts them, those in parentheses included.  A stage has its word, the
\* fields its text reads, the names it gives with "as", one clause (a field
\* compared with = or contains), whether an in-list stands in it, the window a
\* config stage sets (hours), and the dataset its fields are read from.
EXTENDS FiniteSets, SequencesExt, UnitSums

CONSTANTS Calls, EngagementOf, ProfileOf, \* tool calls and what each runs under
          Asks,                           \* the queries each call may run
          Discovering,                    \* the queries of discover_log_fields
          Fields, Values,                 \* what a stage may name and compare with
          Columns, Sample,                \* per dataset: its fields, its sample's types
          Cost, Reports, Quota,           \* XSIAM: what a query of a dataset costs, what
                                          \* replies to a call may state, its daily quota
          TTL, MaxPending,                \* ENUM_PAIR_TTL_SECONDS, MAX_PENDING_ENUM_PAIRS
          Slots,                          \* XQL_MAX_CONCURRENT_QUERIES
          Active,                         \* learning is on and has a pack
          MaxQueries, MaxTime, MaxFaults, \* bounds of the instance
          None

Datasets == DOMAIN Columns
Profiles == {ProfileOf[c] : c \in Calls}

Clause == [field: Fields, op: {"=", "contains"}, value: Values]
Stage == [word: STRING, reads: SUBSET Fields, as: SUBSET Fields, clause: Clause \cup {None},
          inlist: BOOLEAN, span: Nat \cup {None}, of: Datasets]
Sources == {"query_cost", "remaining_quota_delta"}   \* where known units come from
Query == [dataset: Datasets, stages: Seq(Stage), window: Nat \cup {None}]

ASSUME ObserversAssumption ==
    /\ {TTL, MaxPending, Slots, MaxQueries, MaxTime, MaxFaults} \subseteq Nat
    /\ MaxPending > 0
    /\ Active \in BOOLEAN
    /\ None \notin Nat \cup Sources
    /\ Asks \in [Calls -> SUBSET Query]
    /\ Columns \in [Datasets -> SUBSET Fields] /\ Cost \in [Datasets -> Nat]
    /\ Reports \in [Calls -> SUBSET SUBSET {"cost", "quota"}]
    /\ Quota \in Nat

VARIABLES now,      \* time.monotonic as the last observer read it
          calls,    \* tool calls, each with the observation of its context
          flight,   \* queries between their submission and their observation
          last,     \* _last_remaining
          pending,  \* _pending_enum_pairs, oldest first
          journal,  \* observations queued for the learner
          steps,    \* tool steps queued for the learner
          quota,    \* XSIAM: what remains, was charged, and how many readings it wrote
          asked,    \* history: each observed query, by its id
          faults    \* what went wrong so far, bounded

vars == <<now, calls, flight, last, pending, journal, steps, quota, asked, faults>>
GoesWrong == faults < MaxFaults /\ faults' = faults + 1

SampleStages == {"fields", "limit", "sort"}
MultiSourceStages == {"join", "union", "call"}
PassThroughStages == {"filter", "sort", "limit"}
FieldReferenceStages == {"filter", "sort", "fields", "comp", "dedup"}
FieldTypes == {"string", "integer", "number", "boolean", "array", "object", "mixed"}

-----------------------------------------------------------------------------
\* Reading a query
Words(query) == {s.word : s \in ToSet(query.stages)}
Mentioned(stage) == stage.reads \cup stage.as

\* window_ms: the longer of the request's window and the first config stage's.
Window(query) ==
    LET spans == SelectSeq(query.stages, LAMBDA s : s.span # None)
    IN  IF spans = <<>> THEN query.window
        ELSE IF query.window = None THEN spans[1].span
        ELSE Max({query.window, spans[1].span})

Bucket(span) ==
    LET limits == {1, 6, 24, 168, 720}
    IN  IF span = None THEN "unspecified"
        ELSE IF \A l \in limits : span > l THEN "gt_30d"
        ELSE Min({l \in limits : span <= l})

Selectivity(query) ==
    LET filters == {s \in ToSet(query.stages) : s.word = "filter"}
    IN  CASE filters = {} /\ Words(query) \subseteq SampleStages -> "sample"
          [] filters = {} /\ ~(Words(query) \subseteq SampleStages) -> "unfiltered"
          [] \E s \in filters : s.inlist \/ (s.clause # None /\ s.clause.op = "=") -> "selective"
          [] OTHER -> "filtered"

\* The first stage that mentions the field decides: it reads the dataset's own
\* field when only filters, sorts and limits come before it.
FieldReadFromDataset(query, field) ==
    \E i \in DOMAIN query.stages :
        /\ field \in Mentioned(query.stages[i])
        /\ field \notin query.stages[i].as
        /\ query.stages[i].word \in FieldReferenceStages
        /\ \A j \in 1..(i - 1) :
              /\ field \notin Mentioned(query.stages[j])
              /\ query.stages[j].word \in PassThroughStages

\* The filter stages that compare, and a clause with the rest of its query and window.
FilterClauses(query) ==
    {i \in DOMAIN query.stages : query.stages[i].word = "filter" /\ query.stages[i].clause # None}
Skeleton(query, i) ==
    LET stage == query.stages[i]
    IN  [query EXCEPT !.stages[i] =
            [stage EXCEPT !.clause = None, !.reads = @ \ {stage.clause.field}]]
FilterClause(query, i) == [clause |-> query.stages[i].clause, rest |-> Skeleton(query, i)]

-----------------------------------------------------------------------------
\* Units of one reply (_query_units): what it states, else the drop in the
\* remaining quota since the last reading of the profile.
Units(reply, before) ==
    IF reply.cost # None THEN [units |-> reply.cost, source |-> "query_cost"]
    ELSE IF reply.remaining # None /\ before # None /\ before >= reply.remaining
    THEN [units |-> before - reply.remaining, source |-> "remaining_quota_delta"]
    ELSE [units |-> None, source |-> None]

\* Mutant: the first reading is kept, so that a drop counts the earlier ones again.
KeepFirstReading(before, reply) == IF before = None THEN reply.remaining ELSE before
KeepReading(before, reply) == IF reply.remaining = None THEN before ELSE reply.remaining

\* The pending pairs: an OrderedDict in the order of their last equality query.
Prune(pairs, time) ==
    LET fresh == {i \in DOMAIN pairs : time - pairs[i].seen <= TTL}
    IN  IF fresh = {} THEN <<>> ELSE SubSeq(pairs, Min(fresh), Len(pairs))

Has(pairs, key) == \E p \in ToSet(pairs) : p.key = key
Take(pairs, key) ==
    LET at == {i \in DOMAIN pairs : pairs[i].key = key}
    IN  IF at = {} THEN pairs ELSE RemoveAt(pairs, Min(at))

Remember(pairs, key, id, time) ==
    LET put == Append(Take(pairs, key), [key |-> key, id |-> id, seen |-> time])
    IN  SubSeq(put, Max({1, Len(put) - MaxPending + 1}), Len(put))

\* What one clause of an executed query (run: of which engagement, with how many
\* rows, by which id and when) does to the pairs, and what it shows of its field:
\* pairing.pairs, and pairing.seen a set of observations.
Observation(kind, effect, engagement, query, fact, evidence) ==
    [kind |-> kind, effect |-> effect, engagement |-> engagement,
     dataset |-> query.dataset, fact |-> fact, evidence |-> evidence]
Shows(effect, run, found, evidence) ==
    Observation("enum_fields", effect, run.engagement, run.query, found.clause.field, evidence)

PairKey(engagement, found) ==
    [engagement |-> engagement, field |-> found.clause.field,
     value |-> found.clause.value, rest |-> found.rest]
Waiting(pairing, key) == {p \in ToSet(pairing.pairs) : p.key = key}

\* Mutant: the pair that confirmed stays, for the next contains to use again.
PairKeepingIt(pairing, run, found) ==
    LET key == PairKey(run.engagement, found)
    IN  CASE found.clause.op = "=" /\ run.rows = 0 ->
               [pairing EXCEPT !.pairs = Remember(@, key, run.id, run.at)]
          [] found.clause.op = "=" /\ run.rows > 0 ->
               [pairing EXCEPT !.seen = @ \cup {Shows("contradict", run, found, <<run.id>>)}]
          [] found.clause.op = "contains" /\ run.rows > 0 /\ Has(pairing.pairs, key) ->
               [pairing EXCEPT !.seen = @ \cup
                  {Shows("confirm", run, found, <<p.id, run.id>>) : p \in Waiting(pairing, key)}]
          [] OTHER -> pairing

Pair(pairing, run, found) ==
    LET key == PairKey(run.engagement, found)
    IN  CASE found.clause.op = "=" /\ run.rows = 0 ->
               [pairing EXCEPT !.pairs = Remember(@, key, run.id, run.at)]
          [] found.clause.op = "=" /\ run.rows > 0 ->
               [pairing EXCEPT !.seen = @ \cup {Shows("contradict", run, found, <<run.id>>)}]
          [] found.clause.op = "contains" /\ run.rows > 0 /\ Has(pairing.pairs, key) ->
               [pairs |-> Take(pairing.pairs, key),
                seen  |-> pairing.seen \cup
                  {Shows("confirm", run, found, <<p.id, run.id>>) : p \in Waiting(pairing, key)}]
          [] OTHER -> pairing

PairStage(pairing, run, i) ==
    IF i \in FilterClauses(run.query) THEN Pair(pairing, run, FilterClause(run.query, i)) ELSE pairing

\* The clauses one after another: upTo[i] is what the first i stages leave.
PairedUpTo(run, pairs) ==
    LET upTo[i \in 0..Len(run.query.stages)] ==
            IF i = 0 THEN [pairs |-> Prune(pairs, run.at), seen |-> {}]
            ELSE PairStage(upTo[i - 1], run, i)
    IN  upTo
EnumObservations(run, pairs) == PairedUpTo(run, pairs)[Len(run.query.stages)]

CostObservation(engagement, query, units, id) ==
    IF units.units # None /\ Words(query) \cap MultiSourceStages = {}
    THEN {Observation("cost_table", "measure", engagement, query,
              [bucket |-> Bucket(Window(query)), selectivity |-> Selectivity(query),
               units |-> units.units, source |-> units.source], <<id>>)}
    ELSE {}

FieldObservations(engagement, query, field, id) ==
    IF field # None /\ FieldReadFromDataset(query, field)
    THEN {Observation("absent_fields", "confirm", engagement, query, field, <<id>>),
          Observation("schema", "contradict", engagement, query, field, <<id>>)}
    ELSE {}

\* observe_field_catalog: the types of a discovery sample, nulls aside.
TypeOf(types) ==
    LET known == types \ {"null"}
    IN  IF known = {} THEN None
        ELSE IF Cardinality(known) > 1 THEN "mixed" ELSE CHOOSE t \in known : TRUE
CatalogObservations(engagement, query, id) ==
    UNION {{Observation("schema", "confirm", engagement, query,
                        [field |-> s.field, type |-> TypeOf(s.types)], <<id>>),
            Observation("absent_fields", "contradict", engagement, query, s.field, <<id>>)} :
           s \in {s \in Sample[query.dataset] : TypeOf(s.types) \in FieldTypes}}

-----------------------------------------------------------------------------
\* Tool calls, each begun: begin_tool_call has set its observation.
Begun == [pc |-> "running", query_ids |-> <<>>, units |-> <<>>]
Init ==
    /\ now = 0
    /\ calls = [c \in Calls |-> Begun]
    /\ flight = {}
    /\ last = [p \in Profiles |-> None]
    /\ pending = <<>>
    /\ journal = {}
    /\ steps = {}
    /\ quota = [remaining |-> Quota, charged |-> 0, readings |-> 0]
    /\ asked = <<>>
    /\ faults = 0

\* run_xql_query submits, in a slot: one query of a call at a time.
InFlight(c) == \E f \in flight : f.by = c
Ask(c) ==
    /\ calls[c].pc = "running" /\ ~InFlight(c)
    /\ Cardinality({f \in flight : f.reply = None}) < Slots
    /\ Cardinality(flight) + Len(asked) < MaxQueries
    /\ \E query \in Asks[c] :
          flight' = flight \cup {[by |-> c, query |-> query, reply |-> None]}
    /\ UNCHANGED <<now, calls, last, pending, journal, steps, quota, asked, faults>>

\* XSIAM runs a query over the columns its stages leave: the fields a stage reads
\* that are not among them.
ColumnsAt(query) ==
    LET left[i \in 1..Len(query.stages)] ==
            IF i = 1 THEN Columns[query.dataset]
            ELSE LET stage == query.stages[i - 1]
                 IN  CASE stage.of # query.dataset -> left[i - 1]
                       [] stage.word \in {"fields", "comp"} -> Mentioned(stage)
                       [] OTHER -> left[i - 1] \cup stage.as
    IN  left
UnknownFields(query) ==
    LET unknown(i) ==
            LET stage == query.stages[i]
            IN  stage.reads \ (IF stage.of = query.dataset THEN ColumnsAt(query)[i]
                                ELSE Columns[stage.of])
        failing == {i \in DOMAIN query.stages : unknown(i) # {}}
    IN  IF failing = {} THEN {} ELSE unknown(Min(failing))

\* It charges a query it completes, and states what remains then.
Runs(f) == UnknownFields(f.query) = {} /\ quota.remaining >= Cost[f.query.dataset]
Charged(units) == [quota EXCEPT !.remaining = @ - units, !.charged = @ + units]
Reading(f) == [Charged(Cost[f.query.dataset]) EXCEPT !.readings = @ + 1]

Answer(f, reply) ==
    /\ f.reply = None
    /\ flight' = (flight \ {f}) \cup {[f EXCEPT !.reply = reply]}
    /\ UNCHANGED <<now, calls, last, pending, journal, steps, asked>>

\* number and charged are history: which reading of the quota the reply reports, and
\* what XSIAM had charged by then, to whomever.
Failed(unknown) == [error |-> TRUE, unknown |-> unknown, rows |-> 0,
                    cost |-> None, remaining |-> None, number |-> 0, charged |-> 0]

Succeed(f) ==
    /\ Runs(f)
    /\ quota' = Reading(f)
    /\ UNCHANGED faults
    /\ \E rows \in {0, 1}, states \in Reports[f.by] :
          Answer(f, [error |-> FALSE, unknown |-> None, rows |-> rows,
                     cost |-> IF "cost" \in states THEN Cost[f.query.dataset] ELSE None,
                     remaining |-> IF "quota" \in states THEN quota'.remaining ELSE None,
                     number |-> quota'.readings, charged |-> quota'.charged])

\* A failure reply, or the polling deadline, carries no reply block: XSIAM names
\* an unknown field of the query when there is one.
Fail(f) ==
    /\ \/ GoesWrong /\ Answer(f, Failed(None))
       \/ UNCHANGED faults /\ \E field \in UnknownFields(f.query) : Answer(f, Failed(field))
    /\ UNCHANGED quota

\* A request that raises, or a reply without a query id, is not observed, whether
\* XSIAM ran the query or not.
Lose(f) ==
    /\ GoesWrong
    /\ f.reply = None
    /\ flight' = flight \ {f}
    /\ quota' = quota \/ (Runs(f) /\ quota' = Reading(f))
    /\ UNCHANGED <<now, calls, last, pending, journal, steps, asked>>

\* The call whose observation is that of the context the query runs in.
CurrentCall(c) == c

\* observe_xql_execution, and for discover_log_fields observe_field_catalog: the
\* event loop runs nothing in between that touches their state.  Nothing else reads
\* the clock, so it moves here.
Observe(f) ==
    LET c     == CurrentCall(f.by)
        p     == ProfileOf[f.by]
        key   == EngagementOf[c]
        id    == Len(asked) + 1
        units == Units(f.reply, last[p])
        run   == [engagement |-> key, query |-> f.query, rows |-> f.reply.rows,
                  id |-> id, at |-> now']
        pairing == EnumObservations(run, pending)
    IN  /\ f.reply # None
        /\ now' \in now..MaxTime
        /\ flight' = flight \ {f}
        /\ last' = [last EXCEPT ![p] = KeepReading(@, f.reply)]
        /\ calls' = [calls EXCEPT ![c].query_ids = Append(@, id),
                                  ![c].units = IF units.units = None THEN @ ELSE Append(@, units.units)]
        /\ asked' = Append(asked, [by |-> f.by, query |-> f.query, at |-> now',
                                  reply |-> f.reply, units |-> units])
        /\ pending' = IF Active /\ ~f.reply.error THEN pairing.pairs ELSE pending
        /\ journal' = journal \cup
              (CASE ~Active -> {}
                 [] Active /\ f.reply.error ->
                      FieldObservations(key, f.query, f.reply.unknown, id)
                 [] OTHER ->
                      CostObservation(key, f.query, units, id) \cup pairing.seen \cup
                      (IF f.query \in Discovering /\ f.reply.rows > 0
                       THEN CatalogObservations(key, f.query, id) ELSE {}))
        /\ UNCHANGED <<steps, quota, faults>>

\* Mutant: the units that are known stand for the whole call.
StepKnownUnits(call) == Total(call.units, Len(call.units))
\* end_tool_call: a step for a call that ran queries.
StepUnits(call) ==
    IF Len(call.units) = Len(call.query_ids) THEN Total(call.units, Len(call.units)) ELSE None

Step(c) == [by |-> c, engagement |-> EngagementOf[c],
            query_ids |-> calls[c].query_ids, units |-> StepUnits(calls[c])]
End(c) ==
    /\ calls[c].pc = "running" /\ ~InFlight(c)
    /\ calls' = [calls EXCEPT ![c].pc = "ended"]
    /\ steps' = IF calls[c].query_ids = <<>> \/ ~Active THEN steps ELSE steps \cup {Step(c)}
    /\ UNCHANGED <<now, flight, last, pending, journal, quota, asked, faults>>

\* A cancelled call leaves without a step, and its query without an observation.
Cancel(c) ==
    /\ GoesWrong
    /\ calls[c].pc = "running"
    /\ calls' = [calls EXCEPT ![c].pc = "ended"]
    /\ flight' = {f \in flight : f.by # c}
    /\ UNCHANGED <<now, last, pending, journal, steps, quota, asked>>

\* Two things that befall the tenant's quota, counted with the faults: other clients
\* are charged too, and a new day's quota starts.
SpendElsewhere ==
    /\ GoesWrong
    /\ \E units \in 1..quota.remaining : quota' = Charged(units)
    /\ UNCHANGED <<now, calls, flight, last, pending, journal, steps, asked>>
Renew ==
    /\ GoesWrong
    /\ quota.remaining < Quota
    /\ quota' = [quota EXCEPT !.remaining = Quota]
    /\ UNCHANGED <<now, calls, flight, last, pending, journal, steps, asked>>

Next ==
    \/ \E c \in Calls : Ask(c) \/ End(c) \/ Cancel(c)
    \/ \E f \in flight : Succeed(f) \/ Fail(f) \/ Lose(f) \/ Observe(f)
    \/ SpendElsewhere \/ Renew
Spec == Init /\ [][Next]_vars

-----------------------------------------------------------------------------
\* Properties
Observed == DOMAIN asked
Of(kind, effect) == {o \in journal : o.kind = kind /\ o.effect = effect}

Reply == [error: BOOLEAN, unknown: Fields \cup {None}, rows: {0, 1}, cost: Nat \cup {None},
          remaining: Nat \cup {None}, number: Nat, charged: Nat]
Figure == [units: Nat, source: Sources]
          \cup {[units |-> None, source |-> None]}
TypeOK ==
    /\ now \in 0..MaxTime
    /\ calls \in [Calls -> [pc: {"running", "ended"}, query_ids: Seq(Observed), units: Seq(Nat)]]
    /\ flight \subseteq [by: Calls, query: Query, reply: Reply \cup {None}]
    /\ last \in [Profiles -> Nat \cup {None}]
    /\ pending \in Seq([key: [engagement: {EngagementOf[c] : c \in Calls}, field: Fields,
                              value: Values, rest: Query],
                        id: Observed, seen: 0..now])
    /\ Len(pending) <= MaxPending
    /\ \A o \in journal : ToSet(o.evidence) \subseteq Observed
    /\ \A s \in steps : s.by \in Calls
    /\ quota \in [remaining: Nat, charged: Nat, readings: Nat]
    /\ asked \in Seq([by: Calls, query: Query, at: 0..now, reply: Reply, units: Figure])
    /\ faults \in 0..MaxFaults

\* A field is called enum-like only on a pair of queries of one engagement: an
\* equality filter that found nothing, then, within an hour, the same query with
\* contains on the same value that found something; and an equality filter is part
\* of one pair at most, whatever the calls interleave, repeat or crowd out.  (A
\* query with two equality filters on a field may be part of two.)
Equals(query, field) ==
    {i \in FilterClauses(query) :
        query.stages[i].clause.op = "=" /\ query.stages[i].clause.field = field}
Pairs(a, b, field) ==
    /\ a.query.dataset = b.query.dataset
    /\ EngagementOf[a.by] = EngagementOf[b.by]
    /\ a.reply.rows = 0 /\ b.reply.rows > 0 /\ b.at - a.at <= TTL
    /\ \E i \in Equals(a.query, field), j \in FilterClauses(b.query) :
          LET x == FilterClause(a.query, i)
              y == FilterClause(b.query, j)
          IN  /\ y.clause.op = "contains" /\ y.clause.field = field
              /\ x.clause.value = y.clause.value /\ x.rest = y.rest
EnumPairsAreReal ==
    \A o \in Of("enum_fields", "confirm") :
        /\ o.evidence[1] < o.evidence[2]
        /\ Pairs(asked[o.evidence[1]], asked[o.evidence[2]], o.fact)
        /\ \A other \in Of("enum_fields", "confirm") :
              /\ other.fact = o.fact /\ other.evidence[1] = o.evidence[1]
              /\ \A i, j \in Equals(asked[o.evidence[1]].query, o.fact) : i = j
              => other = o

\* A field is called absent from a dataset, and its schema fact contradicted,
\* only when the dataset has no such field: a field that an earlier stage of the
\* query dropped, or a name it made up, says nothing of the dataset.
AbsentIsAbsent ==
    \A o \in Of("absent_fields", "confirm") \cup Of("schema", "contradict") :
        o.fact \notin Columns[o.dataset]

\* A step lists the observed queries of its own call, in their order, and
\* states units only when those of every one are known, their sum.
UnitsOfQuery == [i \in Observed |-> asked[i].units.units]
StepsAreOwn ==
    \A s \in steps :
        /\ ToSet(s.query_ids) = {i \in Observed : asked[i].by = s.by}
        /\ \A m, n \in DOMAIN s.query_ids : m < n => s.query_ids[m] < s.query_ids[n]
        /\ s.units = IF \E i \in ToSet(s.query_ids) : UnitsOfQuery[i] = None THEN None
                     ELSE Over(UnitsOfQuery, ToSet(s.query_ids), Len(asked))

\* While the replies of a profile are observed in the order XSIAM wrote them, the
\* drops it takes for costs count no unit twice: from any of its readings to a later
\* one they come to no more than the tenant was charged in between, across calls,
\* replies that state no quota, unobserved queries, other spenders and a new day's
\* quota.  (One drop may well exceed its own query's cost: DropIsOwnCost.)
IsReading(p, i) == ProfileOf[asked[i].by] = p /\ asked[i].reply.remaining # None
InOrder(p) ==
    \A i, j \in Observed :
        IsReading(p, i) /\ IsReading(p, j) /\ i < j => asked[i].reply.number < asked[j].reply.number
Dropped(p) == {i \in Observed : /\ ProfileOf[asked[i].by] = p
                                /\ asked[i].units.source = "remaining_quota_delta"}
DropsFitCharges ==
    \A p \in Profiles : InOrder(p) =>
        \A i, j \in Observed : IsReading(p, i) /\ IsReading(p, j) /\ i <= j =>
            Over(UnitsOfQuery, Dropped(p) \cap (i + 1)..j, Len(asked)) + asked[i].reply.charged
                <= asked[j].reply.charged

\* Refuted: a drop observed in order is the cost of the query it is recorded for.
\* The quota is the tenant's: what another profile or client spent since the last
\* reading is counted with it (docs/LEARNING.md:454, "approximate").
DropIsOwnCost ==
    \A p \in Profiles : InOrder(p) =>
        \A i \in Dropped(p) : UnitsOfQuery[i] = Cost[asked[i].query.dataset]
===============================================================================
