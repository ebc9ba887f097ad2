------------------------------- MODULE CostGuard -------------------------------
(***************************************************************************)
(* The XQL cost guard (usecase/cost_guard.py) with the executor that calls *)
(* it (usecase/xql_executor.py): concurrent queries, each one pass through *)
(* run_xql_query, share one observation of the tenant's remaining quota,   *)
(* one table of in-flight reservations, one approval ledger per principal  *)
(* and the slots of the query semaphore.                                   *)
(*                                                                         *)
(* The gateway is one asyncio process.  An action is the code between two  *)
(* awaits, so everything another query can see in between is a state.      *)
(* XSIAM is outside the repository: it holds the true remaining quota,     *)
(* charges a query at some moment while the query runs, and its answers    *)
(* travel for any length of time.                                          *)
(*                                                                         *)
(* A query that hits the result cache reads nothing of this state and is   *)
(* the subject of module ResultCache; here every query misses the cache.   *)
(***************************************************************************)
EXTENDS FiniteSets, UnitSums

CONSTANTS
    NumQueries,     \* how many queries arrive
    Principals,     \* callers, each with an approval ledger
    Requests,       \* the queries a caller may send (see Request)
    Budget,         \* XQL units the tenant has at the start of a UTC day
    ApprovalCap,    \* COST_GUARD_APPROVAL_DAILY_CAP_UNITS
    MaxConcurrent,  \* size of the query semaphore
    LongSlotLimit,  \* COST_GUARD_LONG_SLOT_LIMIT
    MaxDay,         \* bound: midnights the model may pass
    Faults,         \* what may go wrong outside the gateway (see FaultKinds)
    Unknown,        \* no figure: Python's None
    Current         \* "the observation object held now" (see seen)

Queries == 1..NumQueries

\* heavy: class heavy or extreme.  high: the estimate's high bound.  threshold
\* and reserve come from the engagement mode policy of the caller.  prompt:
\* the client supports elicitation.  typed: an approval argument is present.
\* extend: the requested timeout exceeds the unapproved ceiling.
Request ==
    [who: Principals, heavy: BOOLEAN, high: Nat \ {0}, threshold: Nat,
     reserve: Nat, prompt: BOOLEAN, typed: BOOLEAN, extend: BOOLEAN]

\* reorder:    answers of XSIAM are delivered out of the order they were made
\* unreadable: a get_quota request fails
\* lost:       a submitted query times out, is cancelled, raises, or is
\*             reported failed although it cost units
\* others:     other clients spend from the same tenant budget
FaultKinds == {"reorder", "unreadable", "lost", "others"}

ASSUME NumQueriesAssumption == NumQueries \in Nat
ASSUME RequestsAssumption == Requests # {} /\ Requests \subseteq Request
ASSUME LimitsAssumption ==
    /\ Budget \in Nat /\ ApprovalCap \in Nat /\ MaxDay \in Nat
    /\ MaxConcurrent \in Nat \ {0} /\ LongSlotLimit \in Nat \ {0}
ASSUME FaultsAssumption == Faults \subseteq FaultKinds
ASSUME NoFigureAssumption ==
    /\ Unknown \notin Int /\ Current \notin Int /\ Unknown # Current

VARIABLES
    \* the gateway
    phase,      \* where each query is in run_xql_query
    req,        \* the request each query carries
    method,     \* ticket.approved and ticket.approval_method
    observed,   \* today's observation of the remaining quota, or Unknown
    fresh,      \* the observation is at most COST_GUARD_QUOTA_STALE_SECONDS old
    seen,       \* the observation object _remaining_units held when it asked get_quota
    inflight,   \* queries with a reservation
    ledger,     \* units approved by argument today, per principal
    slots,      \* queries that hold a semaphore slot
    long,       \* those that have held it longer than COST_GUARD_LONG_SLOT_SECONDS
    \* XSIAM and the network
    xsiam,      \* units the tenant truly has left today
    open,       \* submitted queries XSIAM has not charged yet
    charge,     \* what XSIAM charged each query
    msg,        \* the answer on its way to each query
    ahead,      \* answers made before a query's answer that still travel
    \* history, read only by the properties
    day,        \* midnights passed
    argDay      \* the day a query was approved by argument

gatewayVars == <<phase, req, method, observed, fresh, seen, inflight, ledger,
                 slots, long>>
xsiamVars   == <<xsiam, open, charge, msg, ahead>>
historyVars == <<day, argDay>>
vars        == <<gatewayVars, xsiamVars, historyVars>>

Phases == {"new", "gate1", "reading1", "approving", "gate2", "reading2",
           "waiting", "starting", "running", "finished", "refused", "gone"}

\* Outside the gates a query has no observation in hand; seen is reset to Unknown.
Reading(q) == phase[q] \in {"reading1", "reading2"}
Final(q)   == phase[q] \in {"finished", "refused", "gone"}

NoMsg == [kind |-> "none", units |-> 0]
Msgs  == [kind: {"none", "reading", "cost", "failure"}, units: Nat]

Init ==
    /\ phase = [q \in Queries |-> "new"]
    /\ req \in [Queries -> Requests]
    /\ method = [q \in Queries |-> "none"]
    /\ observed = Unknown /\ fresh = FALSE
    /\ seen = [q \in Queries |-> Unknown]
    /\ inflight = {} /\ slots = {} /\ long = {}
    /\ ledger = [p \in Principals |-> 0]
    /\ xsiam = Budget /\ open = {}
    /\ charge = [q \in Queries |-> 0]
    /\ msg = [q \in Queries |-> NoMsg]
    /\ ahead = [q \in Queries |-> {}]
    /\ day = 0
    /\ argDay = [q \in Queries |-> 0]

(***************************************************************************)
(* The estimate against the policy                                         *)
(***************************************************************************)

NeedsApproval(q) == req[q].high > req[q].threshold

\* Units estimated for the queries of S, and held by the reservations of the tenant.
UnitsOf(S) == Over([q \in Queries |-> req[q].high], S, NumQueries)
Held == UnitsOf(inflight)

\* Mutant: the reservations of other queries are not counted.
ReserveIgnoresHeld(q, remaining) ==
    IF remaining = Unknown THEN ~req[q].heavy
                           ELSE remaining - req[q].high >= req[q].reserve

\* _check_reserve passes.  An unknown quota refuses heavy queries only.
ReserveAllows(q, remaining) ==
    IF remaining = Unknown
    THEN ~req[q].heavy
    ELSE remaining - Held - req[q].high >= req[q].reserve

(***************************************************************************)
(* The quota observation                                                   *)
(***************************************************************************)

\* observe_remaining_quota puts a new object in the table.  A query that asked
\* get_quota still holds the object it read before, with its last figure.
Frozen == [p \in Queries |-> IF seen[p] = Current THEN observed ELSE seen[p]]

Observe(q, remaining) ==
    /\ observed' = remaining /\ fresh' = TRUE
    /\ seen' = [Frozen EXCEPT ![q] = Unknown]

\* Mutants: the debit is forgotten, or not floored at zero.
DebitNothing(units) == UNCHANGED <<observed, fresh, seen>>

DebitBelowZero(units) ==
    /\ observed' = IF observed = Unknown THEN Unknown ELSE observed - units
    /\ UNCHANGED <<fresh, seen>>

\* _debit_remaining changes today's object in place and keeps its age.
Debit(units) ==
    /\ observed' = IF observed = Unknown THEN Unknown ELSE Minus(observed, units)
    /\ UNCHANGED <<fresh, seen>>

(***************************************************************************)
(* Messages between XSIAM and the gateway                                  *)
(***************************************************************************)

Travelling == {q \in Queries : msg[q] # NoMsg}

Send(q, m) ==
    /\ msg' = [msg EXCEPT ![q] = m]
    /\ ahead' = [ahead EXCEPT ![q] = Travelling]

\* The answer of q leaves the network, delivered or dropped.
Drop(q) ==
    /\ msg' = [msg EXCEPT ![q] = NoMsg]
    /\ ahead' = [p \in Queries |-> IF p = q THEN {} ELSE ahead[p] \ {q}]

Deliverable(q) ==
    /\ msg[q] # NoMsg
    /\ "reorder" \in Faults \/ ahead[q] = {}

(***************************************************************************)
(* prepare_query                                                           *)
(***************************************************************************)

GoTo(q, to) == phase' = [phase EXCEPT ![q] = to]

\* The first decision: heavy and extreme queries need a free long-running slot.
RefuseLongSlots(q) ==
    /\ phase[q] = "new"
    /\ req[q].heavy /\ Cardinality(long) >= LongSlotLimit
    /\ GoTo(q, "refused")
    /\ UNCHANGED <<req, method, observed, fresh, seen, inflight, ledger, slots, long>>
    /\ UNCHANGED <<xsiamVars, historyVars>>

PassLongSlots(q) ==
    /\ phase[q] = "new"
    /\ ~req[q].heavy \/ Cardinality(long) < LongSlotLimit
    /\ GoTo(q, "gate1")
    /\ UNCHANGED <<req, method, observed, fresh, seen, inflight, ledger, slots, long>>
    /\ UNCHANGED <<xsiamVars, historyVars>>

\* What follows a _remaining_units that returned remaining: _check_reserve, then
\* the approval step (first gate) or, with no await in between, the reservation
\* (second gate).
AtGate1(q) == phase[q] \in {"gate1", "reading1"}

\* Mutants: the reserve is checked before the approval only; the second gate
\* makes no reservation.
DecideOnce(q, remaining) ==
    \/ /\ AtGate1(q)
       /\ GoTo(q, IF ReserveAllows(q, remaining) THEN "gate2" ELSE "refused")
       /\ UNCHANGED inflight
    \/ /\ ~AtGate1(q)
       /\ GoTo(q, "waiting")
       /\ inflight' = inflight \cup {q}

DecideUnreserved(q, remaining) ==
    /\ GoTo(q, IF ~ReserveAllows(q, remaining) THEN "refused"
               ELSE IF AtGate1(q) THEN "gate2" ELSE "waiting")
    /\ UNCHANGED inflight

Decide(q, remaining) ==
    \/ /\ ~ReserveAllows(q, remaining)
       /\ GoTo(q, "refused")
       /\ UNCHANGED inflight
    \/ /\ ReserveAllows(q, remaining) /\ AtGate1(q)
       /\ GoTo(q, IF NeedsApproval(q) \/ (req[q].typed /\ req[q].extend)
                  THEN "approving" ELSE "gate2")
       /\ UNCHANGED inflight
    \/ /\ ReserveAllows(q, remaining) /\ ~AtGate1(q)
       /\ GoTo(q, "waiting")
       /\ inflight' = inflight \cup {q}

\* _remaining_units with a fresh observation returns without suspending.
UseObservation(q) ==
    /\ phase[q] \in {"gate1", "gate2"}
    /\ observed # Unknown /\ fresh
    /\ Decide(q, observed)
    /\ UNCHANGED <<req, method, observed, fresh, seen, ledger, slots, long>>
    /\ UNCHANGED <<xsiamVars, historyVars>>

\* Otherwise it keeps the observation it read, if any, and asks get_quota.
AskQuota(q) ==
    /\ phase[q] \in {"gate1", "gate2"}
    /\ observed = Unknown \/ ~fresh
    /\ GoTo(q, IF phase[q] = "gate1" THEN "reading1" ELSE "reading2")
    /\ seen' = [seen EXCEPT ![q] = IF observed = Unknown THEN Unknown ELSE Current]
    /\ UNCHANGED <<req, method, observed, fresh, inflight, ledger, slots, long>>
    /\ UNCHANGED <<xsiamVars, historyVars>>

QuotaArrives(q) ==
    /\ Reading(q) /\ Deliverable(q)
    /\ Observe(q, msg[q].units)
    /\ Decide(q, msg[q].units)
    /\ Drop(q)
    /\ UNCHANGED <<req, method, ledger, slots, long, xsiam, open, charge, historyVars>>

\* get_quota failed: fall back to the observation held since before the request.
QuotaFails(q) ==
    /\ Reading(q) /\ "unreadable" \in Faults
    /\ Decide(q, IF seen[q] = Current THEN observed ELSE seen[q])
    /\ seen' = [seen EXCEPT ![q] = Unknown]
    /\ Drop(q)
    /\ UNCHANGED <<req, method, observed, fresh, ledger, slots, long, xsiam, open,
                   charge, historyVars>>

(***************************************************************************)
(* Approval                                                                *)
(***************************************************************************)

\* An argument that only extends the timeout is recorded with zero units.
ApprovalUnits(q) == IF NeedsApproval(q) THEN req[q].high ELSE 0

\* Mutant: each approval is compared with the cap on its own.
CapPerApproval(q) == ApprovalUnits(q) <= ApprovalCap

CapAllows(q) ==
    /\ ApprovalCap > 0
    /\ ApprovalUnits(q) = 0 \/ ledger[req[q].who] + ApprovalUnits(q) <= ApprovalCap

Prompted(q) == NeedsApproval(q) /\ req[q].prompt

ApproveByPrompt(q) ==
    /\ phase[q] = "approving" /\ Prompted(q)
    /\ method' = [method EXCEPT ![q] = "elicitation"]
    /\ GoTo(q, "gate2")
    /\ UNCHANGED <<req, observed, fresh, seen, inflight, ledger, slots, long>>
    /\ UNCHANGED <<xsiamVars, historyVars>>

\* The analyst declines, or nobody answers and there is no argument to use
\* instead, or the argument does not fit under the cap.
RefuseApproval(q) ==
    /\ phase[q] = "approving"
    /\ Prompted(q) \/ ~req[q].typed \/ ~CapAllows(q)
    /\ GoTo(q, "refused")
    /\ UNCHANGED <<req, method, observed, fresh, seen, inflight, ledger, slots, long>>
    /\ UNCHANGED <<xsiamVars, historyVars>>

\* Mutant: a cancelled prompt falls through without an argument to use.
ApproveByNothing(q) ==
    /\ phase[q] = "approving" /\ CapAllows(q)
    /\ ledger' = [ledger EXCEPT ![req[q].who] = @ + ApprovalUnits(q)]
    /\ method' = [method EXCEPT ![q] = "argument"]
    /\ argDay' = [argDay EXCEPT ![q] = day]
    /\ GoTo(q, "gate2")
    /\ UNCHANGED <<req, observed, fresh, seen, inflight, slots, long, day>>
    /\ UNCHANGED xsiamVars

\* No prompt, or one that was cancelled or timed out: the argument counts, and
\* the cap is read and charged in one step.
ApproveByArgument(q) ==
    /\ phase[q] = "approving" /\ req[q].typed
    /\ CapAllows(q)
    /\ ledger' = [ledger EXCEPT ![req[q].who] = @ + ApprovalUnits(q)]
    /\ method' = [method EXCEPT ![q] = "argument"]
    /\ argDay' = [argDay EXCEPT ![q] = day]
    /\ GoTo(q, "gate2")
    /\ UNCHANGED <<req, observed, fresh, seen, inflight, slots, long, day>>
    /\ UNCHANGED xsiamVars

(***************************************************************************)
(* run_xql_query after admission: the semaphore, the request, the reply    *)
(***************************************************************************)

AcquireSlot(q) ==
    /\ phase[q] = "waiting" /\ Cardinality(slots) < MaxConcurrent
    /\ slots' = slots \cup {q}
    /\ GoTo(q, "starting")
    /\ UNCHANGED <<req, method, observed, fresh, seen, inflight, ledger, long>>
    /\ UNCHANGED <<xsiamVars, historyVars>>

\* ticket.submitted is set in the same step that sends the start request.
Submit(q) ==
    /\ phase[q] = "starting"
    /\ open' = open \cup {q}
    /\ GoTo(q, "running")
    /\ UNCHANGED <<req, method, observed, fresh, seen, inflight, ledger, slots, long>>
    /\ UNCHANGED <<xsiam, charge, msg, ahead, historyVars>>

\* Mutant: the slot is forgotten.
ReleaseReservation(q) == inflight' = inflight \ {q} /\ UNCHANGED <<slots, long>>

\* The reservation and the slot go together: the slot's context manager exits
\* and finish_query or abandon runs with no await in between.
Release(q) ==
    /\ inflight' = inflight \ {q}
    /\ slots' = slots \ {q} /\ long' = long \ {q}

ReplyArrives(q) ==
    /\ phase[q] = "running" /\ Deliverable(q)
    /\ Release(q)
    /\ \/ /\ msg[q].kind = "reading"
          /\ Observe(q, msg[q].units)
       \/ /\ msg[q].kind = "cost"
          /\ Debit(msg[q].units)
       \/ /\ msg[q].kind = "failure"
          /\ UNCHANGED <<observed, fresh, seen>>
    /\ Drop(q)
    /\ GoTo(q, "finished")
    /\ UNCHANGED <<req, method, ledger, xsiam, open, charge, historyVars>>

\* The polling deadline passes: finish_query debits the whole estimate.
TimeOut(q) ==
    /\ phase[q] = "running" /\ "lost" \in Faults
    /\ Release(q)
    /\ Debit(req[q].high)
    /\ Drop(q)
    /\ GoTo(q, "finished")
    /\ UNCHANGED <<req, method, ledger, xsiam, open, charge, historyVars>>

\* Mutant: an exception skips the semaphore's exit.
AbortKeepsSlot(q) ==
    /\ phase[q] = "running" /\ "lost" \in Faults
    /\ ReleaseReservation(q)
    /\ Debit(req[q].high)
    /\ Drop(q)
    /\ GoTo(q, "gone")
    /\ UNCHANGED <<req, method, ledger, xsiam, open, charge, historyVars>>

\* Cancellation or an exception after the start request: abandon debits too.
AbortSubmitted(q) ==
    /\ phase[q] = "running" /\ "lost" \in Faults
    /\ Release(q)
    /\ Debit(req[q].high)
    /\ Drop(q)
    /\ GoTo(q, "gone")
    /\ UNCHANGED <<req, method, ledger, xsiam, open, charge, historyVars>>

\* Cancellation or an exception (an unreachable audit sink, a credential the
\* broker rejects) at any earlier await: whatever is held is given back.
AbortUnsubmitted(q) ==
    /\ phase[q] \in {"gate1", "reading1", "approving", "gate2", "reading2",
                     "waiting", "starting"}
    /\ Release(q)
    /\ seen' = [seen EXCEPT ![q] = Unknown]
    /\ Drop(q)
    /\ GoTo(q, "gone")
    /\ UNCHANGED <<req, method, observed, fresh, ledger, xsiam, open, charge,
                   historyVars>>

(***************************************************************************)
(* Time                                                                    *)
(***************************************************************************)

SlotAges(q) ==
    /\ q \in slots \ long
    /\ long' = long \cup {q}
    /\ UNCHANGED <<phase, req, method, observed, fresh, seen, inflight, ledger, slots>>
    /\ UNCHANGED <<xsiamVars, historyVars>>

ObservationAges ==
    /\ fresh /\ fresh' = FALSE
    /\ UNCHANGED <<phase, req, method, observed, seen, inflight, ledger, slots, long>>
    /\ UNCHANGED <<xsiamVars, historyVars>>

\* Midnight UTC: the observation and the approvals are yesterday's, and the
\* tenant has its daily units again.
NewDay ==
    /\ day < MaxDay /\ day' = day + 1
    /\ observed' = Unknown /\ fresh' = FALSE
    /\ seen' = Frozen
    /\ ledger' = [p \in Principals |-> 0]
    /\ xsiam' = Budget
    /\ UNCHANGED <<phase, req, method, inflight, slots, long, open, charge, msg,
                   ahead, argDay>>

(***************************************************************************)
(* XSIAM                                                                   *)
(***************************************************************************)

ReadQuota(q) ==
    /\ Reading(q) /\ msg[q] = NoMsg
    /\ Send(q, [kind |-> "reading", units |-> xsiam])
    /\ UNCHANGED <<gatewayVars, xsiam, open, charge, historyVars>>

\* XSIAM ends query q, charges c units and answers with remaining_quota, with
\* query_cost alone, or with a failure that names neither.  Nobody hears the
\* answer to a query the gateway gave up.
Complete(q, c, kind) ==
    /\ q \in open
    /\ kind = "failure" => c = 0 \/ "lost" \in Faults
    /\ open' = open \ {q}
    /\ xsiam' = Minus(xsiam, c)
    /\ charge' = [charge EXCEPT ![q] = c]
    /\ IF phase[q] = "running"
       THEN Send(q, [kind |-> kind,
                     units |-> CASE kind = "reading" -> Minus(xsiam, c)
                                 [] kind = "cost"    -> c
                                 [] kind = "failure" -> 0])
       ELSE UNCHANGED <<msg, ahead>>
    /\ UNCHANGED <<gatewayVars, historyVars>>

SpendElsewhere ==
    /\ "others" \in Faults
    /\ xsiam > 0 /\ xsiam' = xsiam - 1
    /\ UNCHANGED <<gatewayVars, open, charge, msg, ahead, historyVars>>

XsiamCompletes(q) ==
    \E c \in 0..req[q].high, kind \in {"reading", "cost", "failure"} : Complete(q, c, kind)

\* Every query has ended and XSIAM owes nothing: the only state with no work left.
Idle ==
    /\ \A q \in Queries : Final(q)
    /\ open = {}
    /\ UNCHANGED vars

Next ==
    \/ \E q \in Queries :
         \/ RefuseLongSlots(q) \/ PassLongSlots(q)
         \/ UseObservation(q) \/ AskQuota(q) \/ QuotaArrives(q) \/ QuotaFails(q)
         \/ ApproveByPrompt(q) \/ RefuseApproval(q) \/ ApproveByArgument(q)
         \/ AcquireSlot(q) \/ Submit(q) \/ ReplyArrives(q)
         \/ TimeOut(q) \/ AbortSubmitted(q) \/ AbortUnsubmitted(q)
         \/ SlotAges(q) \/ ReadQuota(q) \/ XsiamCompletes(q)
    \/ ObservationAges \/ NewDay \/ SpendElsewhere
    \/ Idle

Spec == Init /\ [][Next]_vars

\* What the event loop, the clients' timeouts and XSIAM give: every await of a
\* query returns.  A get_quota call and the poll loop end by an answer or by
\* their deadline (the HTTP client's 30 seconds, cap_timeout), a prompt ends by
\* wait_for, and asyncio.Semaphore serves its waiters in turn.
QueryFairness(q) ==
    /\ WF_vars(RefuseLongSlots(q) \/ PassLongSlots(q))
    /\ WF_vars(UseObservation(q) \/ AskQuota(q))
    /\ WF_vars(QuotaArrives(q) \/ QuotaFails(q))
    /\ WF_vars(ApproveByPrompt(q) \/ RefuseApproval(q) \/ ApproveByArgument(q))
    /\ WF_vars(AcquireSlot(q)) /\ WF_vars(Submit(q))
    /\ WF_vars(ReplyArrives(q) \/ TimeOut(q))

FairSpec == Spec /\ \A q \in Queries : QueryFairness(q)

(***************************************************************************)
(* Properties                                                              *)
(***************************************************************************)

\* The type of every variable; a figure is a natural number or Unknown.
TypeOK ==
    /\ phase \in [Queries -> Phases]
    /\ req \in [Queries -> Requests]
    /\ method \in [Queries -> {"none", "elicitation", "argument"}]
    /\ observed \in Nat \cup {Unknown} /\ fresh \in BOOLEAN
    /\ seen \in [Queries -> Nat \cup {Unknown, Current}]
    /\ inflight \subseteq Queries /\ slots \subseteq Queries /\ long \subseteq Queries
    /\ ledger \in [Principals -> Nat]
    /\ xsiam \in Nat /\ open \subseteq Queries
    /\ charge \in [Queries -> Nat]
    /\ msg \in [Queries -> Msgs]
    /\ ahead \in [Queries -> SUBSET Queries]
    /\ day \in Nat /\ argDay \in [Queries -> Nat]

\* Reservations and semaphore slots are held by exactly the queries that are
\* admitted and not yet ended, whichever way the others ended: no exit path of
\* run_xql_query leaks a reservation or a slot or gives one back early, and the
\* slots never exceed the semaphore.
HoldsMatchPhases ==
    /\ inflight = {q \in Queries : phase[q] \in {"waiting", "starting", "running"}}
    /\ slots = {q \in Queries : phase[q] \in {"starting", "running"}}
    /\ long \subseteq slots
    /\ Cardinality(slots) <= MaxConcurrent

\* A query reaches XSIAM only after the guard: it was approved if its estimate
\* is above the threshold, by an analyst who could be asked or by an argument
\* that was given, and XSIAM never owes a charge for a query that did not.
SubmittedWithinGuard ==
    \A q \in Queries :
        q \in open \/ phase[q] \in {"waiting", "starting", "running", "finished"} =>
            /\ NeedsApproval(q) => method[q] # "none"
            /\ method[q] = "elicitation" => req[q].prompt
            /\ method[q] = "argument" => req[q].typed

\* What a principal's queries were approved for by argument on the current day,
\* however the approvals of concurrent queries interleave and however those
\* queries ended, is what its ledger shows, and never above the daily cap.
ByArgument(p) ==
    {q \in Queries : method[q] = "argument" /\ argDay[q] = day /\ req[q].who = p}

ArgumentUnits(p) ==
    Over([q \in Queries |-> ApprovalUnits(q)], ByArgument(p), NumQueries)

ApprovalsWithinCap ==
    \A p \in Principals : /\ ledger[p] = ArgumentUnits(p)
                          /\ ledger[p] <= ApprovalCap

\* The units the tenant has left when every query that was admitted and is not
\* charged yet is assumed to cost its whole estimate.
Outstanding == {q \in Queries : phase[q] \in {"waiting", "starting"}} \cup open
Headroom == xsiam - UnitsOf(Outstanding)

\* Queries XSIAM has charged whose answer the gateway has not read.
Settling == {q \in Queries : phase[q] = "running"} \ open
ChargeOf(S) == Over(charge, S, NumQueries)

\* No figure the guard decides on is better than the truth by more than the
\* charges it is about to hear of: the observation is at most what the tenant has
\* left plus what is charged and unheard of, and so is every reading on its way,
\* counting only the charges made after it.
FiguresBounded ==
    /\ observed # Unknown => observed <= xsiam + ChargeOf(Settling)
    /\ \A q \in Queries : msg[q].kind = "reading" =>
         msg[q].units <= xsiam + ChargeOf({p \in Settling : q \in ahead[p]})

\* The reserve of the module docstring: no query the guard lets through can take
\* the tenant's true remaining quota below the smallest reserve in force, even
\* if every admitted query costs its whole estimate.
ReserveKept == \E r \in Requests : Headroom >= r.reserve

\* A query is admitted only if the true quota then leaves its own reserve.
AdmissionKeepsReserve ==
    [][\A q \in Queries : q \in inflight' \ inflight => Headroom' >= req[q].reserve]_vars

\* A query is never admitted against the reserve on a figure that another reply
\* or reading has already replaced.
AdmissionUsesLatestReading ==
    [][\A q \in Queries : q \in inflight' \ inflight /\ observed' # Unknown =>
          observed' - UnitsOf(inflight') >= req[q].reserve]_vars

\* While the limit of long-running slots is reached, no new heavy or extreme
\* query is let through.
NoHeavyWhileSlotsAreLong ==
    [][\A q \in Queries : q \in inflight' \ inflight /\ req[q].heavy =>
          Cardinality(long) < LongSlotLimit]_vars

\* A query that entered the guard ends, so what it holds is given back.
QueriesEnd == \A q \in Queries : phase[q] # "new" ~> Final(q)

\* The guard as QuotaReserve sees it: the true budget, and for each admitted
\* query XSIAM has not charged its whole estimate.
SetAside == [q \in Queries |-> IF q \in Outstanding THEN req[q].high ELSE 0]
SmallestReserve ==
    CHOOSE n \in {r.reserve : r \in Requests} : \A r \in Requests : n <= r.reserve

Promise == INSTANCE QuotaReserve WITH
    Reserve <- SmallestReserve, budget <- xsiam, setAside <- SetAside

\* CostGuard, with its stale and travelling figures, implements QuotaReserve:
\* the guard decides as if it saw the tenant's true budget.
KeepsPromise == Promise!Spec
===============================================================================
