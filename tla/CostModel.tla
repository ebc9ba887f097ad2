------------------------------- MODULE CostModel -------------------------------
(***************************************************************************)
(* How the cost guard rates an XQL query before it runs, and the rewrites  *)
(* it offers when it refuses one (src/usecase/cost_guard.py).              *)
(*                                                                         *)
(* A query is a sequence of stages with comments and string contents       *)
(* removed.  A stage keeps what the estimator looks at: its keyword, the   *)
(* datasets it names, the window of a config stage, whether a filter has a *)
(* positive equality on a host field, the kind of text scan in it, and the *)
(* stages of a subquery.  Windows and times are in hours, units are        *)
(* natural numbers.                                                        *)
(***************************************************************************)
EXTENDS Integers, Sequences, FiniteSets, SequencesExt

CONSTANTS
    Datasets,        \* dataset names
    Volume,          \* [Datasets -> catalogue volume or None]
    TierMap,         \* COST_GUARD_DATASET_TIERS, in the order it is written
    DefaultTier,     \* COST_GUARD_DEFAULT_TIER
    UnitBands,       \* COST_GUARD_UNIT_BANDS: class -> [low, high]
    HostFields,      \* datasets COST_GUARD_HOST_FIELDS has a field for
    SelectiveHosts,  \* those whose field is in COST_GUARD_SELECTIVE_FIELDS as well
    Cheaper,         \* [Datasets -> SUBSET Datasets]: configured or peers of its domain
    Allowed,         \* datasets the policy lets the principal query
    LearnedCosts,    \* learned cost table: [dataset, bucket, selectivity, median, high]
    MaxSpan,         \* DATASET_QUERY_MAX_TIMEFRAME_MS
    None

Tiers   == {"light", "medium", "heavy"}
Classes == {"light", "medium", "heavy", "extreme"}
Day     == 24

\* _parse_unit_bands: a band [low, high] for each class.
ASSUME BandsAssumption ==
    /\ UnitBands \in [Classes -> [low : Nat, high : Nat]]
    /\ \A c \in Classes : UnitBands[c].low <= UnitBands[c].high

ASSUME LearnedAssumption ==
    \A entry \in LearnedCosts : entry.median \in Nat /\ entry.high \in Nat

\* _parse_tier_map, dataset_tier: an entry has one of the tiers.
ASSUME TiersAssumption ==
    /\ TierMap \in Seq([names: SUBSET Datasets, glob: BOOLEAN, length: Nat, tier: Tiers])
    /\ DefaultTier \in Tiers

ASSUME SpanAssumption == MaxSpan \in Nat

ASSUME HostsAssumption == SelectiveHosts \subseteq HostFields

-----------------------------------------------------------------------------
\* Queries.

NoStage == [kw |-> "none", ds |-> {}, eq |-> FALSE, hours |-> 0, key |-> "none",
          scan |-> None, sub |-> <<>>]

\* Stages that shape the rows of an answer hold no subquery; a subquery holds none.
ShapingStages == {"fields", "sort", "limit", "dedup"}
Shaping(stage) == stage.kw \in ShapingStages

\* Any word; those the rewrites write are named.
Word == STRING \cup {"none", "equals", "other", "filter", "comp", "sort", "limit"}

SubStage == [kw: Word, ds: SUBSET Datasets, eq: BOOLEAN, hours: Nat, key: Word,
             scan: Word \cup {None}, sub: {<<>>}]
AnyStage == {s \in [kw: Word, ds: SUBSET Datasets, eq: BOOLEAN, hours: Nat, key: Word,
                    scan: Word \cup {None}, sub: Seq(SubStage)] :
                Shaping(s) => s.sub = <<>>}

Stage(kw)       == [NoStage EXCEPT !.kw = kw]
Dataset(d)      == [NoStage EXCEPT !.kw = "dataset", !.ds = {d}, !.eq = TRUE]
DatasetIn(ds)   == [NoStage EXCEPT !.kw = "dataset", !.ds = ds]
Config(hours)   == [NoStage EXCEPT !.kw = "config", !.hours = hours]
Filter(key, sc) == [NoStage EXCEPT !.kw = "filter", !.key = key, !.scan = sc]
Union(d)        == [NoStage EXCEPT !.kw = "union", !.ds = {d}]
Join(sub)       == [NoStage EXCEPT !.kw = "join", !.sub = sub]

\* Every stage, those of subqueries included.
AllStages(q) == ToSet(q) \cup UNION {ToSet(s.sub) : s \in ToSet(q)}

\* The pieces between pipes: the first stage of a subquery shares a piece with
\* the stage that opens the parenthesis, so its keyword is not seen.
Pieces(q) == ToSet(q) \cup UNION {{s.sub[i] : i \in 2 .. Len(s.sub)} : s \in ToSet(q)}

HasSelectiveKey(stage) == stage.key = "equals"

ConfigHours(q) == {s.hours : s \in {t \in AllStages(q) : t.kw = "config"}} \ {0}
LongestOf(hours) == IF hours = {} THEN 0 ELSE CHOOSE h \in hours : \A g \in hours : g <= h

ConfigWindow(q) == LongestOf(ConfigHours(q))

\* A config timeframe over the configured maximum is refused.
Parses(q) == ConfigWindow(q) <= MaxSpan

SampleStages == {"dataset", "preset", "datamodel", "config", "fields", "limit"}

ParseQuery(q) ==
    LET stages == {s.kw : s \in Pieces(q)}
        scans  == {s.scan : s \in AllStages(q)}
    IN [datasets  |-> UNION {s.ds : s \in AllStages(q)},
        stages    |-> stages,
        scan      |-> IF "raw_text" \in scans THEN "raw_text"
                      ELSE IF "pattern" \in scans THEN "pattern" ELSE None,
        host      |-> \E s \in Pieces(q) : s.kw = "filter" /\ HasSelectiveKey(s),
        aggregate |-> "comp" \in stages,
        sample    |-> stages \subseteq SampleStages,
        config    |-> ConfigWindow(q)]

-----------------------------------------------------------------------------
\* Timeframes: a lookback, or a start and an end.

Timeframe == [relative: Nat, from: Nat, to: Nat]

Lookback(hours)     == [relative |-> hours, from |-> 0, to |-> 0]
Between(from, to)   == [relative |-> 0, from |-> from, to |-> to]
Window(timeframe)   == IF timeframe.relative > 0 THEN timeframe.relative
                       ELSE timeframe.to - timeframe.from
ValidTimeframe(t)   == /\ t.relative = 0 => t.from < t.to
                       /\ Window(t) <= MaxSpan

\* _narrow_timeframe: the last hours of the window.
Narrow(t, hours) ==
    IF t.relative > 0
    THEN Lookback(IF t.relative < hours THEN t.relative ELSE hours)
    ELSE Between(IF t.from > t.to - hours THEN t.from ELSE t.to - hours, t.to)

-----------------------------------------------------------------------------
\* The estimate.

VolumeTiers == [low |-> "light", medium |-> "light", high |-> "medium", very_high |-> "heavy"]

\* Exact names win over globs, longer globs over shorter ones, then file order.
Precedes(i, j) ==
    LET e == TierMap[i]
        o == TierMap[j]
    IN \/ ~e.glob /\ o.glob
       \/ e.glob = o.glob /\ (e.length > o.length \/ (e.length = o.length /\ i <= j))

DatasetTier(d) ==
    LET hits == {i \in DOMAIN TierMap : d \in TierMap[i].names}
    IN IF Volume[d] \in DOMAIN VolumeTiers THEN VolumeTiers[Volume[d]]
       ELSE IF hits = {} THEN DefaultTier
       ELSE TierMap[CHOOSE i \in hits : \A j \in hits : Precedes(i, j)].tier

TierPoints  == [light |-> 0, medium |-> 2, heavy |-> 4]
StagePoints == [join |-> 1, union |-> 1, dedup |-> 1, search |-> 2, call |-> 3]

\* The dearest dataset decides; with none, XSIAM searches its default target.
ShapeTier(shape) ==
    LET tiers == {DatasetTier(d) : d \in shape.datasets}
    IN IF tiers = {} THEN "heavy"
       ELSE CHOOSE t \in tiers : \A u \in tiers : TierPoints[u] <= TierPoints[t]

WindowPoints(hours) ==
    CASE hours <= Day      -> 0
      [] hours <= 7 * Day  -> 1
      [] hours <= 30 * Day -> 2
      [] hours <= 90 * Day -> 3
      [] OTHER             -> 4

ScanPoints(scan) == CASE scan = "raw_text" -> 2 [] scan = "pattern" -> 1 [] OTHER -> 0

PointsOf(stage, stages) == IF stage \in stages THEN StagePoints[stage] ELSE 0

StageScore(stages) ==
    PointsOf("join", stages) + PointsOf("union", stages) + PointsOf("dedup", stages)
    + PointsOf("search", stages) + PointsOf("call", stages)

\* A sample exits early, whatever its window.
Score(shape, hours) ==
    LET tier   == ShapeTier(shape)
        window == IF hours > shape.config THEN hours ELSE shape.config
    IN IF shape.sample THEN TierPoints[tier] - 1
       ELSE TierPoints[tier] + WindowPoints(window)
            + (IF tier = "heavy" /\ ~shape.host THEN 1 ELSE 0)
            + ScanPoints(shape.scan) + StageScore(shape.stages)

CostClass(score) ==
    CASE score <= 2 -> "light"
      [] score <= 4 -> "medium"
      [] score <= 6 -> "heavy"
      [] OTHER      -> "extreme"

EstimateQuery(shape, hours) ==
    LET class == CostClass(Score(shape, hours))
    IN [class |-> class, low |-> UnitBands[class].low, high |-> UnitBands[class].high]

\* window_bucket and selectivity_class: the row of the learned table.
Bucket(hours) ==
    CASE hours <= 1        -> "le_1h"
      [] hours <= 6        -> "le_6h"
      [] hours <= Day      -> "le_24h"
      [] hours <= 7 * Day  -> "le_7d"
      [] hours <= 30 * Day -> "le_30d"
      [] OTHER             -> "gt_30d"

Selectivity(q) ==
    LET filters == {s \in Pieces(q) : s.kw = "filter"}
    IN IF filters = {}
       THEN IF {s.kw : s \in Pieces(q)} \subseteq {"dataset", "fields", "limit", "sort"}
            THEN "sample" ELSE "unfiltered"
       ELSE IF \E s \in filters : s.key # "none" THEN "selective" ELSE "filtered"

LookupCost(q, hours) ==
    {entry \in LearnedCosts :
        /\ entry.dataset \in Head(q).ds
        /\ entry.bucket = Bucket(hours)
        /\ entry.selectivity = Selectivity(q)}

Larger(a, b)  == IF a > b THEN a ELSE b
Smaller(a, b) == IF a < b THEN a ELSE b

\* Mutant: the floor holds for the low figure only.
WithLearnedHigh(estimate, entry) ==
    [estimate EXCEPT !.low = Smaller(Larger(entry.median, estimate.low), entry.high),
                     !.high = entry.high]

\* A learned entry replaces the seed units, never below the seed's low bound.
WithLearned(estimate, entry) ==
    LET high == Larger(entry.high, estimate.low)
    IN [estimate EXCEPT !.low = Smaller(Larger(entry.median, estimate.low), high),
                        !.high = high]

ApplyLearnedCost(estimate, q, shape, hours) ==
    LET rows == LookupCost(q, Larger(hours, shape.config))
    IN IF /\ Cardinality(shape.datasets) = 1
          /\ Head(q).kw = "dataset" /\ Head(q).eq
          /\ rows # {}
       THEN WithLearned(estimate, CHOOSE row \in rows : TRUE)
       ELSE estimate

\* estimate_xql and prepare_query: what a submitted query is rated.
EstimateXql(q, t) ==
    LET shape == ParseQuery(q)
    IN ApplyLearnedCost(EstimateQuery(shape, Window(t)), q, shape, Window(t))

-----------------------------------------------------------------------------
\* The alternatives offered with a refusal.

NarrowerWindows == {7 * Day, Day}

\* Stages, those of subqueries included, with each config window cut to hours.
CutStage(s, hours) ==
    IF s.kw = "config" /\ s.hours > hours THEN [s EXCEPT !.hours = hours] ELSE s

\* Mutant: only the config stages of the main query are cut.
RewriteTopConfig(q, hours) == [i \in DOMAIN q |-> CutStage(q[i], hours)]

RewriteConfig(q, hours) ==
    [i \in DOMAIN q |->
        [CutStage(q[i], hours) EXCEPT
            !.sub = [j \in DOMAIN q[i].sub |-> CutStage(q[i].sub[j], hours)]]]

Offer(kind, q, t, estimate) == [kind |-> kind, query |-> q, timeframe |-> t, estimate |-> estimate]

NarrowerOffer(q, t, hours) ==
    LET shape    == ParseQuery(q)
        rewrites == shape.config > hours
        narrowed == Narrow(t, hours)
    IN Offer("narrower_window", IF rewrites THEN RewriteConfig(q, hours) ELSE q, narrowed,
             EstimateQuery([shape EXCEPT !.config = IF rewrites THEN hours ELSE shape.config],
                           Window(narrowed)))

\* Mutant: a window is offered again once it is reached.
NarrowerOffersAgain(q, t) ==
    {NarrowerOffer(q, t, hours) :
        hours \in {h \in NarrowerWindows : Larger(Window(t), ConfigWindow(q)) >= h}}

NarrowerOffers(q, t) ==
    {NarrowerOffer(q, t, hours) :
        hours \in {h \in NarrowerWindows : Larger(Window(t), ConfigWindow(q)) > h}}

\* The first "dataset = name" of the text, in a subquery or not: <<stage, 0>> or
\* <<stage, position in its subquery>>; None if there is none.
FirstDataset(q) ==
    LET Opens(s) == s.kw = "dataset" /\ s.eq
        Places   == {<<i, 0>> : i \in {k \in DOMAIN q : Opens(q[k])}}
                    \cup UNION {{<<i, j>> : j \in {l \in DOMAIN q[i].sub : Opens(q[i].sub[l])}} :
                                  i \in DOMAIN q}
    IN IF Places = {} THEN None
       ELSE CHOOSE p \in Places :
               \A o \in Places : p[1] < o[1] \/ (p[1] = o[1] /\ p[2] <= o[2])

StageAt(q, place) == IF place[2] = 0 THEN q[place[1]] ELSE q[place[1]].sub[place[2]]

HeavyDatasets(shape) == {d \in shape.datasets : DatasetTier(d) = "heavy"}

HostFilterTarget(q) ==
    LET heavy == HeavyDatasets(ParseQuery(q))
        place == FirstDataset(q)
    IN IF /\ Cardinality(heavy) = 1
          /\ place # None
          /\ StageAt(q, place).ds = heavy
          /\ heavy \subseteq HostFields
       THEN place ELSE None

InsertAfter(q, place, stage) ==
    IF place[2] = 0 THEN InsertAt(q, place[1] + 1, stage)
    ELSE [q EXCEPT ![place[1]].sub = InsertAt(@, place[2] + 1, stage)]

\* "filter field in (servers)": the field comes from one setting, what counts as
\* a selective key from another, and nothing makes the two agree.
HostFilter(ds) == Filter(IF ds \subseteq SelectiveHosts THEN "equals" ELSE "other", None)
InsertHostFilter(q, place) == InsertAfter(q, place, HostFilter(StageAt(q, place).ds))

\* The shape keeps its sample flag, although a filter stage is added.
HostOffers(q, t, servers) ==
    LET shape == ParseQuery(q)
        place == HostFilterTarget(q)
    IN IF servers /\ place # None /\ ~shape.host
       THEN {Offer("host_filter", InsertHostFilter(q, place), t,
                   EstimateQuery([shape EXCEPT !.host = TRUE], Larger(Window(t), shape.config)))}
       ELSE {}

\* The stages that stay, in their order: the n-th is the one with n up to it.
Kept(q)       == {i \in DOMAIN q : ~Shaping(q[i])}
KeptUpTo(q, i) == Cardinality({j \in Kept(q) : j <= i})
KeptStages(q) ==
    [n \in 1 .. Cardinality(Kept(q)) |-> q[CHOOSE i \in Kept(q) : KeptUpTo(q, i) = n]]

AggregateRewrite(q) == KeptStages(q) \o <<Stage("comp"), Stage("sort"), Stage("limit")>>

AggregateOffers(q, t) ==
    LET shape  == ParseQuery(q)
        stages == (shape.stages \ {"dedup", "fields", "sort"}) \cup {"comp"}
    IN IF ~shape.aggregate /\ \E s \in ToSet(q) : ~Shaping(s)
       THEN {Offer("aggregate", AggregateRewrite(q), t,
                   EstimateQuery([shape EXCEPT !.aggregate = TRUE, !.sample = FALSE,
                                               !.stages = stages],
                                 Larger(Window(t), shape.config)))}
       ELSE {}

CheaperDatasets(shape) ==
    ((UNION {Cheaper[d] : d \in shape.datasets}) \ shape.datasets) \cap Allowed

\* The same question of another dataset carries no query: its fields differ.
CheaperOffers(q, t) ==
    LET shape == ParseQuery(q)
    IN {Offer("cheaper_dataset", <<>>, t,
              EstimateQuery([shape EXCEPT !.datasets = {d}], Larger(Window(t), shape.config))) :
          d \in {e \in CheaperDatasets(shape) :
                    TierPoints[DatasetTier(e)] < TierPoints[ShapeTier(shape)]}}

\* Offers that carry a query to submit here; the console offer runs elsewhere.
Rewrites(q, t, servers) ==
    NarrowerOffers(q, t) \cup HostOffers(q, t, servers) \cup AggregateOffers(q, t)
BuildAlternatives(q, t, servers) == Rewrites(q, t, servers) \cup CheaperOffers(q, t)
===============================================================================
