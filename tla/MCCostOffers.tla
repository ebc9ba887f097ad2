----------------------------- MODULE MCCostOffers ------------------------------
(***************************************************************************)
(* A small instance of CostOffers for TLC.                                 *)
(***************************************************************************)
EXTENDS CostOffers

CONSTANTS big, story, mid, small

AllDatasets == {big, story, mid, small}
MCVolume    == [d \in AllDatasets |-> IF d = small THEN "low" ELSE None]
MCTierMap   == <<[names |-> {big, mid}, glob |-> TRUE, length |-> 4, tier |-> "light"],
                 [names |-> {big, story}, glob |-> TRUE, length |-> 5, tier |-> "heavy"],
                 [names |-> {small}, glob |-> FALSE, length |-> 5, tier |-> "heavy"]>>
MCBands     == [c \in Classes |->
                  CASE c = "light" -> [low |-> 0, high |-> 1]
                    [] c = "medium" -> [low |-> 1, high |-> 4]
                    [] c = "heavy" -> [low |-> 5, high |-> 9]
                    [] OTHER -> [low |-> 10, high |-> 31]]
MCCheaper   == [d \in AllDatasets |-> IF d = big THEN {small, story} ELSE {}]
NoCosts     == {}
SomeCosts   == {[dataset |-> d, bucket |-> b, selectivity |-> "selective", median |-> m, high |-> h] :
                  d \in {big}, b \in {"le_7d"}, m \in {0}, h \in {2}}
               \cup {[dataset |-> mid, bucket |-> "le_24h", selectivity |-> "unfiltered",
                      median |-> 8, high |-> 20]}
MCModes     == {"hunt", "ops"}
MCPolicy    == [m \in MCModes |-> IF m = "hunt" THEN 5 ELSE 1]

\* Sources, what comes between, and what ends a query.
Sources  == {<<Dataset(d)>> : d \in {big, mid, small, story}}
            \cup {<<DatasetIn({big, mid})>>, <<Config(40 * Day), Dataset(big)>>,
                  <<Config(2 * Day), Dataset(mid)>>}
Middles  == {<<>>, <<Filter("equals", None)>>, <<Filter("none", "pattern")>>,
             <<Filter("negated", "raw_text")>>, <<Union(story)>>, <<Stage("call")>>,
             <<Join(<<Dataset(mid), Filter("none", None), Config(20 * Day)>>)>>,
             <<Join(<<Dataset(story), Stage("fields")>>)>>,
             <<Join(<<Dataset(big), Filter("none", None)>>)>>, <<Join(<<Dataset(big), Filter("equals", None)>>)>>}
Ends     == {<<Stage("fields"), Stage("limit")>>, <<Stage("dedup"), Stage("limit")>>,
             <<Stage("comp"), Stage("limit")>>}
MCQueries == {s \o m \o e : s \in Sources, m \in Middles, e \in Ends}
MCTimeframes == {Lookback(1), Lookback(7 * Day), Between(0, 8 * Day), Between(10, 20), Between(10, 10 + 45 * Day), Between(0, 200 * Day)}

===============================================================================
