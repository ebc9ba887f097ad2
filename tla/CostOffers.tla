------------------------------ MODULE CostOffers -------------------------------
(***************************************************************************)
(* An analyst and the cost guard: a query is submitted, rated, run or      *)
(* refused with alternatives, and an alternative is submitted in its turn  *)
(* (src/usecase/cost_guard.py, prepare_query and build_alternatives).      *)
(***************************************************************************)
EXTENDS CostModel

CONSTANTS
    Queries,         \* the queries an analyst may write
    Timeframes,      \* the windows passed with them
    Modes,           \* engagement modes
    ModePolicy,      \* [Modes -> approval threshold], or None if it cannot be read
    Threshold,       \* COST_GUARD_APPROVAL_THRESHOLD_UNITS, the fallback
    MaxTaken         \* bound: rewrites taken in a row

ASSUME OffersAssumption ==
    /\ Queries \subseteq Seq(AnyStage)
    /\ Timeframes \subseteq Timeframe

VARIABLES
    query,           \* the text submitted next
    timeframe,       \* its timeframe
    mode,            \* the mode of the call
    servers,         \* the engagement lists servers
    offers,          \* the alternatives the last refusal carries
    shown,           \* the offer the query was taken from, or None
    taken,           \* rewrites taken so far
    verdict          \* "new", "runs", "refused"

vars == <<query, timeframe, mode, servers, offers, shown, taken, verdict>>

Init ==
    /\ query \in {q \in Queries : Parses(q)}
    /\ timeframe \in {t \in Timeframes : ValidTimeframe(t)}
    /\ mode \in Modes
    /\ servers \in BOOLEAN
    /\ offers = {}
    /\ shown = None
    /\ taken = 0
    /\ verdict = "new"

\* current_policy: the mode's threshold, or the settings if the policy is unreadable.
ApprovalThreshold == IF ModePolicy = None THEN Threshold ELSE ModePolicy[mode]
NeedsApproval(estimate) == estimate.high > ApprovalThreshold

Refuses == NeedsApproval(EstimateXql(query, timeframe))

Run ==
    /\ verdict = "new" /\ ~Refuses
    /\ verdict' = "runs"
    /\ UNCHANGED <<query, timeframe, mode, servers, offers, shown, taken>>

Refuse ==
    /\ verdict = "new" /\ Refuses
    /\ verdict' = "refused"
    /\ offers' = BuildAlternatives(query, timeframe, servers)
    /\ UNCHANGED <<query, timeframe, mode, servers, shown, taken>>

\* The analyst submits one of the rewrites the refusal offers.
Take ==
    /\ verdict = "refused" /\ taken < MaxTaken
    /\ \E offer \in offers :
          /\ offer.query # <<>>
          /\ query' = offer.query
          /\ timeframe' = offer.timeframe
          /\ shown' = offer
    /\ verdict' = "new"
    /\ taken' = taken + 1
    /\ offers' = {}
    /\ UNCHANGED <<mode, servers>>

Next == Run \/ Refuse \/ Take
Spec == Init /\ [][Next]_vars

-----------------------------------------------------------------------------
TypeOK ==
    /\ verdict \in {"new", "runs", "refused"}
    /\ Parses(query) /\ ValidTimeframe(timeframe)
    /\ timeframe.from >= 0 /\ timeframe.relative >= 0
    /\ shown # None => shown.estimate.class \in Classes

\* Every narrower window offered with a query carries the rating its rewritten
\* text and timeframe get from the seed table when submitted, config stages of
\* subqueries included, and never a dearer one than the refused query's.
NarrowerIsPriced ==
    \A offer \in NarrowerOffers(query, timeframe) :
        /\ offer.estimate = EstimateQuery(ParseQuery(offer.query), Window(offer.timeframe))
        /\ offer.estimate.high <= EstimateQuery(ParseQuery(query), Window(timeframe)).high

\* What is learned moves the units inside the class's own floor: never below the
\* low bound of the seed band, never low over high, and the class stays.
LearnedKeepsFloor ==
    LET seed  == EstimateQuery(ParseQuery(query), Window(timeframe))
        rated == EstimateXql(query, timeframe)
    IN /\ rated.class = seed.class
       /\ seed.low <= rated.low
       /\ rated.low <= rated.high

\* The stages a stage list reads by itself, without its subqueries.
Segments(q) == {q} \cup {s.sub : s \in ToSet(q)}
ReadScoped(segment, i) ==
    \E j \in i + 1 .. Len(segment) : segment[j].kw = "filter" /\ HasSelectiveKey(segment[j])
HeavyReads(segment) ==
    {i \in DOMAIN segment : \E d \in segment[i].ds : DatasetTier(d) = "heavy"}

\* A host filter is offered only where it scopes every heavy dataset the query
\* reads, in a subquery or a union too.
HostFilterScopes ==
    \A offer \in HostOffers(query, timeframe, servers) :
        \A segment \in Segments(offer.query) :
            \A i \in HeavyReads(segment) : ReadScoped(segment, i)

\* What a refusal shows for a rewrite is what the rewrite is rated when submitted.
OfferIsPriced ==
    shown # None => shown.estimate = EstimateXql(query, timeframe)

\* How far a query is from having no rewrite left.
Rank(q, t) ==
    LET shape == ParseQuery(q)
        hours == Larger(Window(t), shape.config)
    IN (IF hours > 7 * Day THEN 2 ELSE IF hours > Day THEN 1 ELSE 0)
       + (IF shape.host THEN 0 ELSE 1) + (IF shape.aggregate THEN 0 ELSE 1)

\* The field the host filter names is none of those the rating counts as selective.
FilterUncounted(offer, q) ==
    offer.kind = "host_filter" /\ ~(HeavyDatasets(ParseQuery(q)) \subseteq SelectiveHosts)

\* No offer leads back: each is narrower, newly scoped or newly aggregated, and so
\* an analyst who takes what is offered is refused finitely often.  The one offer
\* that may be made again and again is a host filter on a field the rating does
\* not count as selective; it leaves the query no further from its last rewrite.
OffersProgress ==
    \A offer \in offers : offer.query # <<>> =>
        LET left == Rank(offer.query, offer.timeframe)
        IN left < Rank(query, timeframe)
           \/ (FilterUncounted(offer, query) /\ left = Rank(query, timeframe))

\* Taken as it stands, without the two settings agreeing: whoever takes the
\* rewrites offered has none left after as many as the query had to go.
RewritesRunOut ==
    \A offer \in offers : taken >= 4 => offer.query = <<>>
===============================================================================
