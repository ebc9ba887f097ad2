# Verification of the Cortex XSIAM MCP gateway

TLA+ models of the gateway's core logic, TLC configurations that check them on
small instances, and TLAPS proofs of the theorems that matter most. Paths below
are relative to the repository; `cost_guard.py` and its neighbours live in
`src/usecase/`.

## 1. The system

The gateway is one asyncio process that serves MCP tools over Cortex XSIAM. A
tool call passes identity, audit, tool policy, engagement guidance and learning
middleware; a tool that needs data calls `run_xql_query`, which is guarded by
the cost guard, limited by a semaphore, and answered by XSIAM. A second process,
the learner, turns what the gateway journals into facts that the gateway serves
and the cost guard reads.

| Component | State it keeps | Operations | Talks to | What is hard | What makes it correct |
| --- | --- | --- | --- | --- | --- |
| Cost guard (`cost_guard.py`) | `_quota` observation per tenant, `_inflight` reservations, `_slots`, `_approved_units`, `_spent_units` per principal and day | `prepare_query`, `finish_query`, `abandon`, approval by prompt or argument | executor, XSIAM `/xql/get_quota`, the analyst | decisions on figures that are old when they are used; awaits between check and use; midnight | the reserve is kept, the approval cap is exact, nothing leaks, nothing runs unapproved |
| Result cache (`cost_guard.py`, `fetcher.py`, `credential_broker.py`) | `_cache`, an ordered dictionary with time stamps | lookup, store, evict | broker, fetcher | the credential is selected twice and may be rotated in between | a hit is the asker's own, fetched with the credential it is keyed by, and not too old |
| Executor (`xql_executor.py`) | the query semaphore | submit, poll, time out, cancel | guard, fetcher, telemetry | exit paths | every query ends and gives back what it holds |
| Learned store (`learned_store.py`) | one JSON file of entries per kind, the change log | confirm, contradict, verify, pin, unpin, revert, sweep, read with pending requests | learner, tools, cost guard | counters and states set by long sequences of legal calls | a human's decision wins; trust labels mean what they say |
| Journal and learner (`learning_journal.py`, `learner.py`) | queue in memory, append-only files, offsets, open engagements, held samples, daily spend | enqueue, flush, fold, audit, commit, save state, prune | gateway replicas, audit sink, XSIAM | crash and failure between writes | each record counts once; nothing acknowledged is lost; the unit cap holds |
| Observers (`learning_observers.py`) | `_last_remaining` per credential profile (of the tenant's one quota), `_pending_enum_pairs`, the observation of each call's context | observe a query, a failure or a field catalog; pair an equality with a `contains`; begin and end a call | executor, journal | calls of one process share both memories; replies are observed in any order | only what was measured becomes a fact; a step is its own call's |
| Engagement (`engagement.py`) | session record, case file | set, record fact, log query | session store, case directory | two stores written one after the other | facts cite recorded queries; mode and case agree |
| Cost model and alternatives (`cost_guard.py`) | none | parse, estimate, learned units, rewrites of a refused query | guard, learned store, the analyst | a rewrite is edited, rated, submitted and rated again | rewrites are priced, lead somewhere (or are known not to) and keep what they promise |
| Paging (`dataset_query.py`, `builtin_components/datasets.py`) | none; encrypted cursors at the caller | query, continue | executor, identity, dataset policy | rows arrive, time passes and the caller's context changes between pages | no row twice, none skipped |
| Validation (`xql_validation.py`) | two caches of lookups | validate, probe, correct | XSIAM, dataset policy | lookups are awaited while time and other calls go on | answers are fresh and the caller's; the policy comes first; the probe is bounded |
| Identity, tool policy, credentials (`identity.py`, `tool_policy.py`, `credential_broker.py`) | the nonces of signed assertions | authenticate, authorize, select a profile | every call | a request delivered twice; a cache at its limit; a mode changed by another call | an assertion is used once while it is valid; one mode and the right key per call |
| Audit (`service/cortex_mcp/audit_middleware.py`, `audit.py`) | none | start and end event, export | sink | the export may fail before, after or during an exception | fail-closed means nothing happens and nothing is answered unaudited |
| Replay cache (`replay.py`) | manifests and result files | replay | learner | none (read only) | a replay spends nothing |
| Other tools, query text, CLI, client, configuration, OpenAPI | none shared | build, format, I/O | XSIAM | text | see section 7 |

## 2. Modules

| Module | Models | Role |
| --- | --- | --- |
| `UnitSums` | sums of units over queries | helper, a recursive function rather than a `RECURSIVE` operator, so that proofs can use it |
| `QuotaReserve` | what the guard promises about the tenant's budget | abstract specification |
| `CostGuard` | `prepare_query`, `finish_query`, `abandon`, approvals, the executor's slots; XSIAM and the network as environment | core specification |
| `MCCostGuard` | instances for TLC | five configurations |
| `ResultCache`, `MCResultCache` | the result cache and credential rotation | specification and instance |
| `LearnedFact` | the life of one learned entry, as functions | pure operators, used by `Learner` |
| `Learner` | journal queue and files, the learner's run, the gateway's read paths, `revert_learned` | specification |
| `MCLearner` | instances for TLC | six configurations |
| `Engagement`, `MCEngagement` | session record and case file under the tool calls of one principal | specification and instance |
| `CostModel` | `parse_xql`, `estimate_xql`, the learned units, `build_alternatives` | pure operators |
| `CostOffers`, `MCCostOffers` | an analyst who is refused and takes what is offered | specification over `CostModel` and instance |
| `DatasetPages`, `MCDatasetPages` | `query_dataset` and `continue_dataset_query` on a growing dataset | specification and instance |
| `XqlValidation`, `MCXqlValidation` | concurrent `validate_xql` calls over the two lookup caches | specification and instance |
| `GatewayCall`, `MCGatewayCall` | the way of a call through identity, engagement scope, audit, tool policy, credentials and handler | specification and instance |
| `Observers`, `MCObservers` | what is concluded from the queries of concurrent calls | specification and instance |
| `CostGuardProofs` | | proofs: the laws of the sums, the guard, the result cache |
| `CostOffersProofs`, `LearnerProofs`, `EngagementProofs`, `DatasetPagesProofs`, `XqlValidationProofs`, `GatewayCallProofs`, `ObserversProofs` | | proofs, one module for each specification |

`CostGuard` uses `UnitSums` and instantiates `QuotaReserve` under a refinement
mapping; `Learner` extends `LearnedFact`; `CostOffers` extends `CostModel`; an `MC`
module extends one specification and gives its constants their values.
`ResultCache` and `CostGuard` meet in `run_xql_query` only: a hit touches no state of
the guard, so the two are checked apart, and each represents the other by a phase
(`admitted` in `ResultCache`; in `CostGuard` every query misses). Both belong to one Python
class, and `CostGuardProofs` extends both: the names of `ResultCache` that `CostGuard` has too begin with
`Cache` (`CacheSpec`, `CacheTypeOK`, `cacheVars`). In the same way
`GatewayCall` has one await for whatever a handler asks of XSIAM, `DatasetPages` one
for its query, and `Observers` takes replies as `Learner` takes the records that
`Observers` journals.

### 2.1 `CostGuard` and the code

The gateway is one asyncio process, so an action is the code between two awaits.
One query is one pass through `run_xql_query`.

| Action | Code |
| --- | --- |
| `RefuseLongSlots`, `PassLongSlots` | the count of long-running slots at the start of `prepare_query`, taken once |
| `UseObservation` | `_remaining_units` with a fresh observation; the decision follows without an await |
| `AskQuota`, `QuotaArrives`, `QuotaFails` | `_remaining_units` with a stale or missing one: keep the object held, await `get_quota`, record the answer or fall back |
| `Decide` (part of the three above) | `_check_reserve`; at the first gate the approval step follows, at the second the reservation, in the same step |
| `ApproveByPrompt`, `ApproveByArgument`, `RefuseApproval` | the elicitation, the typed `approval` argument with its daily cap, the refusals |
| `AcquireSlot`, `Submit` | the semaphore, `ticket.submitted` and the start request |
| `ReplyArrives`, `TimeOut` | the poll loop's ends and `finish_query` |
| `AbortSubmitted`, `AbortUnsubmitted` | cancellation or an exception (an audit sink that fails closed, for one) after and before the start request, and `abandon` |
| `SlotAges`, `ObservationAges`, `NewDay` | time, as far as the guard compares it with something |
| `ReadQuota`, `Complete`, `SpendElsewhere` | XSIAM: external, as the guard uses it |

| Variable | Code |
| --- | --- |
| `observed`, `fresh` | today's entry of `_quota`, and its age against `COST_GUARD_QUOTA_STALE_SECONDS` |
| `seen` | the observation object a suspended `_remaining_units` still holds; `Current` while it is the one in the table, the frozen figure once it has been replaced |
| `inflight`, `slots`, `long`, `ledger` | `_inflight`, the semaphore with `_slots`, the old ones among them, `_approved_units` |
| `method` | `ticket.approved` and `approval_method` |
| `msg`, `ahead` | answers on their way, and which were made earlier and still travel |
| `day`, `argDay` | history, read by properties only |

The estimate and the mode policy are data of a request (`Request`): the class
(heavy or not), the estimate's high bound, threshold and reserve. Units are
integers. The day's spend records, alternatives and messages only feed the reply.

### 2.2 `ResultCache` and the code

`Fingerprint` is the credential selected for the cache key, `Hit` and `Miss`
are `_cache_lookup`, `GetFetcher` is the second selection, `RecordFetchCredential`
reads what that fetcher really holds, `Succeed` is the awaits of `finish_query`,
`Store` is the write with eviction, and `Fail` is every other end. `Rotate` lets
the operator change the key at any time, also back. `At` is the place of a call's entry in the ordered
dictionary, `Found` what a lookup may serve of it, `Without` the rest. The fields `by` and `made` of an
entry and the variable `served` are history.

### 2.3 `LearnedFact`, `Learner` and the code

`LearnedFact` has one operator per function of `learned_store.py`:
`NoteEngagement`, `MaybeVerify`, `Confirm`, `Contradict`, `ApplyObservation`,
`ApplyAdmin` (`apply_admin_action`), `Sweep`, `WithPending` (the read path with the
latest journalled request applied), `Live`.

| Action of `Learner` | Code |
| --- | --- |
| `Observe` | a record enters the queue of `learning_journal.py`, or is dropped when it is full |
| `Ask`, `Acknowledge` | `revert_learned`: its checks and the queueing; the wait for the flush and the answer |
| `Flush`, `FlushFails`, `Restart` | the batch is appended, lost to an error or a full file, or lost with the process |
| `Start` | `run` of the learner reads everything after the saved offsets |
| `Fold` | one record into the copy in memory |
| `Commit` | the nightly sweep when it is due, the audit event, the fact files |
| `Prune`, `SaveState` | `prune_journal`, then `learner_state.json`: the order the code has |
| `Abort` | the run ends between any two of these |

What is abstracted, and why it does not hide what the properties speak of:

- One entry. Entries do not touch each other except at the capacity of their kind,
  which is the fault `full`, chosen anew for every record.
- A day is the unit of time: thresholds, expiry and retention count days. `Retention`
  and `Ttl` are scaled down so that pruning and expiry happen within the bound.
- Records pass one gateway process, so the journal is in the order of their times. A request
  also carries its second (`at`), because `pending_admin_actions` sorts by second and then by
  name of the action (`SortsAfter`, `Latest`): of an unpin and a later revert or pin of one second the
  unpin is shown, until the learner, which keeps the journal's order, has folded both. `Orderly` says that
  this does not happen; `RevertIsFinal` and `PinIsKept` hold while it does not, and `RevertStands` and `PinStands`,
  the same without it, fail (`LearnerSameSecond`, section 6).
- A run reads its records in the order of the journal. In the code an administrator's request and an observation of one second are
  folded request first, since the file names sort so (`learner.py:389`).
- The queue is taken and written in one step, and a run reads the whole backlog
  (the code reads up to `MAX_JOURNAL_READ_BYTES` and leaves the rest for the next
  run, which is a later `Start`).
- Engagement tags are a set; the code keeps the latest 20, and never asks for more.
- `told` and `kept` are history: the last answer an administrator got, and whether a run has deleted the fact
  since the latest request. The field `live` of an answer says that the fact was never deleted since
  the request and had not expired when the answer came: a request about an expired fact promises nothing,
  and one about a fact that a nightly run deletes under it finds nothing to change.

### 2.4 `Engagement` and the code

| Action | Code |
| --- | --- |
| `Enter`, `EnterUnset` | the audit middleware opens the scope of a call: `enter_engagement_scope`, or the unset scope when the store fails |
| `Load` | `_session_lock` is taken and `_load_session_record` answers |
| `SaveEngagement`, `SaveQuery`, `SaveFact` | what `set_session_engagement`, `record_query_telemetry` and `record_fact` do up to the end of `_save_session_record` |
| `RefuseFact` | `record_fact` finds no engagement or no such query |
| `StoreEngagement`, `StoreQuery`, `StoreFact` | the case file, the release of the lock and the end of the call |
| `Raise` | an exception or a cancellation at any of the awaits; telemetry swallows it |
| `Expire`, `Restart` | the session store's time to live; the end of the process |

The case file is read for an omitted scope before `_save_session_record` is awaited (`SaveEngagement`), and written after it.

`session` and `lock` are the session records and `_session_locks`, `file` the case
files, `scope` the `ContextVar` of each call, `held` the record a call has loaded
and then what it wrote. `saved`, `since` and `overtaken` are history: everything
that was saved in a session, the record of what was saved since it last began, uncut, and the calls whose case another
call has set since they read it. What is abstracted:

- One principal: the key of a record and the directory of a case contain the owner.
- One scope list for `iocs`, `internal`, `front_ends`, `servers`, `window` and `notes`,
  which are omitted and restored alike. `by` stands for `set_at`.
- An accepted request: validation and formatting happen before anything is read.
- An expiry between a call's load and its save is undone by the save, so `Expire`
  waits for the lock without loss.
- Lock stripes shared by two sessions only make them wait for each other.

### 2.5 `CostModel`, `CostOffers` and the code

A query is a sequence of stages: keyword, datasets named, hours of a `config timeframe`,
whether a filter has a positive equality on a host field, the kind of text scan, the
stages of a subquery. `ParseQuery` is the shape `parse_xql` reads from it, with its
approximation: the first stage inside a parenthesis shares a piece with the stage that
opens it (`Pieces`), so its keyword is not seen. `EstimateQuery` is the seed table,
`EstimateXql` adds the learned units (two minima and two maxima against the seed band),
`BuildAlternatives` the rewrites. The field of an inserted host filter comes from `COST_GUARD_HOST_FIELDS`, and what counts as a
selective key from `COST_GUARD_SELECTIVE_FIELDS`; nothing makes the two agree, so the datasets whose host field is in both
(`SelectiveHosts`) are a constant of their own, and the filter of another dataset has a key that does not count (`HostFilter`). Names of datasets stand for strings; what a glob of
`COST_GUARD_DATASET_TIERS` matches and how long it is are data of the entry.

`CostOffers` lets an analyst submit a query, be refused (`Refuse`) and submit an
offered rewrite (`Take`) until it runs (`Run`) or no rewrite is left. The quota, the reserve and
approvals are `CostGuard`'s. `taken` counts the rewrites taken in a row, up to `MaxTaken`. A rewrite that is a sentence (no query text) has the empty
query and cannot be taken. A subquery holds no subquery and a stage that shapes rows holds none (`AnyStage`).

### 2.6 `DatasetPages` and the code

| Action | Code |
| --- | --- |
| `QueryDataset` | `query_dataset` up to the query: policy, `_freeze_timeframe`, compilation with one row of lookahead |
| `ContinueDatasetQuery` | decryption, expiry and binding of a cursor, policy again, `_build_seek_clause` |
| `AnswerPage` | the result cache (`prepare_query`, `finish_query`) or XSIAM, then the reply: cut by the limit and by the response budget, `has_more`, the cursor or the reason there is none |
| `FailQuery` | a refusal of the guard or an error of XSIAM |
| `Ingest`, `Tick`, `Change` | XSIAM takes in a row, perhaps with an old time; time; identity, mode or policy change |
| `Evict` | the result cache drops an entry, or its credential was rotated |

One call at a time: calls share nothing, and a change can fall into a call all the same. A
cursor carries history (`seen`, `first`, `base`) that no guard reads: the rows shown before, those the first
page's reading found, and those of them that were there for every later reading. The response budget
is a number of rows; encryption is a cursor that nobody else can make. `id` is a unique field:
every plan that orders at all orders by it last, since the tool asks the caller for a unique
tie-breaker (`builtin_components/datasets.py:407`) and cannot check it; without one rows of equal values
are skipped, as the documentation says. A row without a sort value is the case the code excludes from a cursor.
`Replies` is every answer XSIAM may give: rows in the order of the sort stage, the first of them, up to the limit.

A page is a query like any other, so the cost guard's result cache may answer it. `Compiled` is the query text of a page,
`CacheKey` that text with the caller, mode, case and policy, `Readings` the cached reply or a new one, `Stored` the entry it leaves. Two
callers of one text share an entry only if they are the same caller, and a page of one query may be answered by an older query's. A later
page can so be older than an earlier one: a row that arrived between the two readings is on neither, although the last page says
`complete`. `NothingSkipped` therefore speaks of the rows that were there at the reading of every page; `NothingSkippedSinceFirst`, of
all that were there for the first, fails (`DatasetPagesCached`, section 6). The lookup and the answer are one step, since a reply is kept
as of when it was made; the bound of the cache is `ResultCache`'s and here the action `Evict`.

### 2.7 `XqlValidation` and the code

An action begins a call of `validate_xql` or takes the answer the call waits for, and runs
on to the next await: `Begin`, `DatasetsAnswered`, `FieldsAnswered`, `ProbeAnswered`.
`StaticProblems`, `ExistenceProblems` and `FieldProblems` are the checks before, between
and after the lookups, with their order: the dataset policy before any lookup. `Store` is the
insertion with eviction of the oldest entry, `Fresh` the lookup; the two caches are in
insertion order. An entry is dated when its lookup is decided, as in the code. `ProbeWindow`
cuts the caller's window to an hour. `Corrected` is the deterministic rewriting, a query to a
query. `lists`, `samples` and the moments in a call are history. `Stage`, `Comparison` and `Timeframe`
are what a query and a window consist of. A stage keeps the fields it reads and
defines, its comparisons, the datasets it names and whether it sets a window; the wording of problems is
left out. The monotonic and the epoch clock tick together.

### 2.8 `GatewayCall` and the code

| Action | Code |
| --- | --- |
| `Arrive` | `IdentityMiddleware`, `authenticate_http_headers`: bearer token first, then the signed assertion; the nonce cache |
| `Enter` | `enter_engagement_scope` in `AuditMiddleware.on_call_tool`; unset when the store fails |
| `StartAudited` | the start event; then `authorize_tool` and `begin_tool_call` (`Admit`) |
| `Send`, `NoCredential` | `get_fetcher`, `select_xsiam_credentials`, the request |
| `Answered` | the outcomes of the HTTP client and of the handler |
| `SetEngagement` | `set_session_engagement` changes the session and the scope of its own call |
| `EndAudited` | the end event and the answer, or the error that replaces it |
| `Cancel`, `Tick` | a client gives up at an await; time |

A token or a signature is sound or not (`sound`), and its claims are who and when. The same
`Request` may be delivered any number of times. The clock is read twice for an assertion, for the skew and for the nonce
(`identity.py:141`, `:192`), and may move on in between (`later` in `Arrive`); it never goes back. An acceptance is
counted as `within` the assertion's validity or `across` its end, by the second reading. `Before` orders profiles by priority and place.
`accepted`, `acted` and call identifiers are history. The body of `set_engagement` and the
guard of a query are other modules; here they are one step each.

### 2.9 `Observers` and the code

`Observe` is `observe_xql_execution` with what it calls (`_query_units`,
`_enum_observations`, the schema and cost observations) and, for `discover_log_fields`,
`observe_field_catalog`: there is no await in between. `Ask`, `Succeed`, `Fail`, `Lose` are the
executor and XSIAM as the observers see them, `End` and `Cancel` the two ends of a tool call
(`end_tool_call`, or nothing). The quota is the tenant's, one for all profiles (`cost_guard.py:1589-1594`), and others spend it too
(`docs/CONFIGURATION.md:165`): `SpendElsewhere` charges it for another client, `Renew` begins a day's quota; both are bounded with the faults. `calls` holds the `ContextVar` of each
call (that it separates calls is taken for granted), `last` and `pending` the two module variables, `journal` and `steps` what is
queued for the learner; `asked`, and `charged` in `quota`, are history.

A query is one dataset and its stages; the skeleton of a query without one clause, which the code
compares as text, is the rest of its stages and its window. Its clauses are handled one after another
(`PairStage`), each with what the earlier ones left of the pending pairs (`PairedUpTo`). The types of a sample are sets. Calls
have begun when the model begins, an identifier is the order of observation, and the clock moves
when it is read. The fields `number` and `charged` of a reply are history as well: which reading of the quota it is, and what the tenant had been charged by then. A filter stage has one clause. Queues that are full and a restart lose
what they held, as in `Learner`, and are not repeated here.

## 3. Runs

| Run | Properties | Instance | Distinct states |
| --- | --- | --- | --- |
| `reserve` | `FiguresBounded`, `ReserveKept`, `AdmissionKeepsReserve`, `KeepsPromise` | three heavy queries of 2 units, budget 5, reserve 2, one midnight, no faults | 187,158 |
| `faults` | `TypeOK`, `HoldsMatchPhases`, `SubmittedWithinGuard`, `ApprovalsWithinCap`, `QueriesEnd` | two queries of two callers, all four faults, one slot, cap 1, one midnight, fairness | 239,718 |
| `result_cache` | `CacheTypeOK`, `HitsAreOwn`, `HitsAreFresh` | three calls, two scopes, two keys, two entries, four moments, symmetry | 93,972 |
| `learner_facts` | `VerifiedIsEarned`, `ServedIsAgreed` | four records of four kinds, two days, lost batches, capacity | 2.55 million |
| `learner_decisions` | `TypeOK`, `RevertIsFinal`, `PinIsKept` | four records, one administrator, three days, one run that dies, restarts, two requests of one second or not | 4.79 million |
| `engagement` | `TypeOK`, `SessionIsSerial`, `CaseFollowsSession`, `FactsAreEvidenced`, `SessionMatchesCase`, `OmittedScopeIsKept` | four calls of one session, two cases, one fault | 2.09 million |
| `offers` | `NarrowerIsPriced`, `LearnedKeepsFloor`, `OffersProgress` | 210 queries over four datasets, two with a host field, one of them selective, six windows, two modes, learned units for two datasets, five rewrites in a row | 48,388 |
| `pages` | `NoRowTwice`, `NothingSkipped`, `WindowStays` | four calls, three rows, three plans, three moments, a cache of one tick, one eviction or change of context | 3.23 million |
| `validation` | `AnswersAreFresh`, `RevealsOnlyAllowed`, `ProbeIsBounded`, `CorrectionSettles` | two concurrent calls, eight requests, two principals, caches of one entry, an hour of two ticks, symmetry | 2.44 million |
| `calls` | `AssertionSpent`, `AuditFailsClosed`, `OneModePerCall`, `KeysAreBrokered` | two calls in flight, three deliveries of eight requests, four seconds, one cancellation, symmetry | 1.80 million |
| `observers` | `EnumPairsAreReal`, `StepsAreOwn`, `DropsFitCharges` | three concurrent calls, three queries, one with two equality filters, two engagements, two profiles on one quota, two waiting pairs, one fault, renewal or charge of another client | 2.43 million |
| `learner_lost_request` | `RevertIsFinal`, violated | four records, one failed write | see section 6 |

**`reserve`.** The budget covers the reserve and one query and leaves one unit over,
so the second and third query must be refused on exactly the right figure. Three
queries are needed for one to have its reply in the network while another
decides and a third holds a reservation; a fourth adds no new pair of messages, and the theorems
of section 5 cover every number. `FiguresBounded` is the reason the others hold:
the observation and every reading on its way exceed the truth by at most the
charges not heard of. `AdmissionKeepsReserve` is about each admission, `ReserveKept`
about every state, `KeepsPromise` says the guard implements `QuotaReserve`.

**`faults`.** Nothing about the reserve is claimed here (it does not hold under
faults). Two queries suffice for one to wait for the slot and the ledger
the other one uses; the three requests differ in every way a query can be approved
or refused. `ApprovalsWithinCap` compares the ledger with the approvals that were
really given on the day. `QueriesEnd` is the liveness property.

**`result_cache`.** Three calls: one stores, one evicts or replaces, one hits. Two
keys are enough to rotate away and back between the two selections, which is how a
reply could be stored under a fingerprint it was not fetched with. Calls, scopes and keys are only
compared for equality, so symmetry is sound (the run has no liveness property).

**`learner_facts`.** Thresholds 2 confirmations, 2 engagements, 1 day, so a fact
can be learned, verified, contradicted, promoted and tombstoned within the four
records. `MaxAborts` is 0: a run that dies after the fact file and before the state
folds the same records twice, the code counts them twice, and neither property
holds then (listed as a hazard).

**`learner_decisions`.** `MinConfirmations` is out of reach, so the run is about
states, not labels. `Retention` 0 and `Ttl` 2 within three days make pruning happen while a
tombstone is still in force, and one aborted run puts a crash between any two writes. Requests fall into one second
or not, and the properties speak of journals whose requests sort as they were made (`Orderly`, 2.3). With one
administrator requests are sequential; the races of two are listed as a hazard. Restarts of the gateway are in `learner_facts`, and
in the theorems about requests (5.2).

**`engagement`.** The calls run in parallel, are numbered as they begin, and choose among opening a
case with a list, returning to it with the list omitted, moving to another case with an empty
list, a query, and a fact that cites the second call. Four calls are enough to set, query, move and cite
or come back; session logs of one entry and case logs of two are at their limits at once.
One fault of any kind anywhere: a store that fails, a cancellation, an expiry, a restart.
`SessionIsSerial` says that the record is always what the calls wrote one after the other,
which is what the lock is for. The session holds the only reference to its case:
with two sessions on one case `SessionMatchesCase` does not hold. `OmittedScopeIsKept` does, since it leaves out the one thing
two sessions add, that a case is set by another call between the reading and the write of a call (`overtaken`); `EngagementShared` checks it by hand
with two sessions on one case (1.11 million states), its theorem holds for any number, and without the exception it fails (`EngagementOvertaken`, section 6). The case store is configured (`HasStore`); the branch without it is modelled and not run.

**`offers`.** Every source, middle and end of a query is combined with every other: one dataset, two, a union, a
join whose subquery reads a heavy dataset or sets a window, host filters that are positive, negated
or absent, text scans, aggregates. The six windows lie on both sides of the limits of a day, a week and 30 days.
All are initial states, and the chains of refusal and rewrite start from each. `OffersProgress` looks at every
offer of every chain: a rank of the query falls with each rewrite that is taken, but for a host filter on a field that the rating does
not count as selective. That filter leaves the rank as it is and is offered again (`CostOffersRepeats`, section 6); nothing else can repeat.

**`pages`.** Four calls are a first page and three uses of its cursors, one cursor used twice, or a query that finds in the cache the pages of another. The budget of 0, 1
or 3 rows cuts before, in and behind the limit of one to three rows. Rows may arrive late with an old time, one has no
user. The change of groups, mode or policy falls between the calls or into one. `NothingSkipped` is about rows that
have their sort values and were there for the reading of every page.

**`validation`.** Two calls are enough for one to look up what the other has evicted, overtaken or let grow
old. The requests are a clean query, one whose window moves the probe, aliases and a subquery, comparisons that take one or
two rewrites, a missing dataset, a dataset the caller may not see, and queries with errors. Callers are compared for
equality only, so symmetry is sound.

**`calls`.** Skew 1 and a nonce cache of one entry make a replay before, at and behind the expiry happen, and a
full cache. `AssertionSpent` allows one acceptance while the assertion is valid and one as it expires between the two readings of
the clock; that the second exists is `GatewayCallClock` (section 6). Two assertions share a nonce, one is not sound, a wrong token comes with an assertion, and one group's profile has
no key. Fail-closed is the case checked: with it off the export may be skipped by design. Slots are
compared for equality only.

**`observers`.** Two calls of one engagement ask the same comparison both ways, a third of another engagement and profile
repeats it or names a field that the dataset lacks. One query has two equality filters on one field and queries that fit either:
it is part of two pairs, as it may be, so `EnumPairsAreReal` promises one pair only to a query with one such filter.
Two waiting pairs for four that can arise and a time to live below one tick
put the table and its pruning at their limits. `DropsFitCharges` is claimed for replies observed in the order they
were written; `InOrder` says so. It compares the drops of a profile between two of its readings with what the tenant was charged in
between, by whomever, so it says that no unit is counted twice and not whose it was (`ObserversShared`, section 6).

Deadlock is checked in the runs of `CostGuard`, `ResultCache`, `Learner` and `Engagement`. In `CostGuard` the
action `Idle` marks the one state in which nothing is left to do (every query ended, XSIAM owes nothing); any other
state without a step would be reported. The other five specifications stop when their bounded calls are spent, or
when an analyst's query runs, so their configurations say `CHECK_DEADLOCK FALSE`. They also state `TypeOK`, which
no run lists because section 5 proves it.

Every property of a passing run has a mutant: a definition of the model with a
plausible bug (reservations of others not counted, a debit forgotten or not floored,
the reserve decided once, the slot not returned, the cap compared per
approval, a hit that renews its time, a streak that survives a contradiction, offsets
taken from the current size of the file, and so on), under which TLC finds the
property violated in the same configuration.

## 4. Fairness

Only `faults` uses fairness (`FairSpec`), for `QueriesEnd`. It is weak fairness per
query and await, which the code's scheduling gives:

- the event loop runs a coroutine that can continue (`PassLongSlots`,
  `UseObservation`, `Submit`);
- `get_quota` returns or fails: the HTTP client has a 30 s timeout (`pkg/client.py:25`);
- an elicitation ends by an answer or by `wait_for` (`cost_guard.py:1066`);
- the poll loop ends by a reply or its deadline (`cap_timeout`, `cost_guard.py:291`), hence
  `WF(ReplyArrives \/ TimeOut)`: no answer of XSIAM is assumed;
- `asyncio.Semaphore` serves its waiters in turn. With two queries weak fairness of
  `AcquireSlot` is enough, because the only other holder gives its slot back once.

Nothing is assumed of XSIAM, of aborts, of new queries' arrival times or of time
itself (`NewDay`, `SlotAges`).

## 5. Proofs

Forty-four theorems, in eight modules. Thirty-nine state a property that the runs check, and every property of a passing run but
`QueriesEnd` is proved (5.3). The other five are the type invariants of the specifications whose run does not list it: `OffersAreValid`,
`PagesTypes`, `ValidationTypes`, `GatewayTypes`, `ObserversTypes`. They hold for every number of actors, records and
steps and every value of the constants that satisfies the named assumptions of the specification. A theorem that needs more
says so as a hypothesis; each hypothesis is listed here with its reason.

### 5.1 The cost guard

The theorems of the guard hold for every number of queries, every budget, cap, semaphore size
and every set of requests, from the named assumptions of `CostGuard` only (types of the
constants; `Unknown` and `Current` are not numbers).

| Theorem | States | Extra assumption |
| --- | --- | --- |
| `TypeCorrect` | `Spec => []TypeOK` | none, every fault allowed |
| `HoldsCorrect` | `Spec => []HoldsMatchPhases` | none |
| `GuardCorrect` | `Spec => []SubmittedWithinGuard` | none |
| `LedgerCorrect` | `Spec => []ApprovalsWithinCap` | none |
| `FiguresCorrect` | `Spec => []FiguresBounded` | `Faults = {}` |
| `AdmissionCorrect` | `Spec => AdmissionKeepsReserve` | `Faults = {}` |
| `ReserveCorrect` | `Spec => []ReserveKept` | `Faults = {}`, some reserve is at most the daily budget |
| `PromiseKept` | `Spec => KeepsPromise` | `Faults = {}` |

The argument.

- `TypeOK` and `HoldsMatchPhases` (relative to it) are inductive as they stand: each
  exit path releases in the step that leaves the phase.
- `SubmittedWithinGuard` is not inductive, since it says nothing of a query between its
  approval and its admission. `ApprovalInv` extends it to every phase past the
  approval and says that nothing before it has a method yet.
- `ApprovalsWithinCap` needs `LedgerInv`: no approval is dated after today, so midnight, which clears the
  ledgers, also leaves no approval of the new day behind.
- For the reserve, `NetworkInv` says what is in the network when nothing fails: XSIAM
  works on running queries only, an answer exists for queries that await one,
  and it says what was charged, at most the estimate. With it `FiguresBounded` is
  inductive (`CalmInv`): a reading is exact when made, each later charge adds
  to its error and is still travelling behind it, and in-order delivery lets no charge
  be heard before it. `FigureCovered` then shows that
  the reservations of the queries charged and not heard of cover the error of the
  figure, so the guard's decision is at least as careful as one on the true budget.
- `BudgetStep` classifies every step by what it does to the true budget: a query is admitted
  within its reserve, one settles for at most its estimate, the day is renewed, or nothing
  changes. `AdmissionCorrect`, `ReserveCorrect` and `PromiseKept` follow from it without
  looking at the actions again. The laws of the sums come first in `CostGuardProofs`.

The reserve theorems exclude faults because the reserve is not kept under them. A query
whose answer is lost stays debited only until the next reading
(`docs/CONFIGURATION.md:221-223` accepts this); other clients' spending is unseen between
readings; `reorder` and `unreadable` are the subjects of `CostGuardLateReading.cfg` and
`CostGuardStaleFallback.cfg` (section 6).

### 5.2 The other components

| Theorem | States | From |
| --- | --- | --- |
| `CacheTypes`, `HitsBelong`, `HitsAreYoung` (`CostGuardProofs`) | `CacheSpec => []CacheTypeOK`, `[]HitsAreOwn`, `[]HitsAreFresh` | `CacheAssumption` |
| `LearnerTypes` (`LearnerProofs`) | `Spec => []TypeOK` | the assumptions of `LearnedFact` and `Learner`: thresholds are numbers, the sentinels `None` and `Absent` nothing else |
| `RevertsHold`, `PinsHold` | `Spec /\ []OneWaits /\ [][~FlushFails]_vars => []RevertIsFinal`, `[]PinIsKept` (each `Orderly => ...`) | the same |
| `VerificationIsEarned`, `ServiceIsAgreed` | `Spec /\ [][~Abort]_vars => []VerifiedIsEarned`, `[]ServedIsAgreed` | the same, and `NoPins` |
| `EngagementTypes`, `EvidenceKept` (`EngagementProofs`) | `Spec => []TypeOK`, `[]FactsAreEvidenced` | `EngagementAssumption`, `NoneAssumption` |
| `SessionsAreSerial`, `CaseLogsInOrder` | `Spec => []SessionIsSerial`, `[]CaseFollowsSession` | the same |
| `OmittedScopeStays` | `Spec => OmittedScopeIsKept` | the same |
| `EngagementsMatch` | `Spec => []SessionMatchesCase` | the same, and `OneSessionPerCase` |
| `PagesTypes`, `RowsOnce`, `WindowFixed` (`DatasetPagesProofs`) | `Spec => []TypeOK`, `[]NoRowTwice`, `[]WindowStays` | `PagesAssumption` |
| `NoneSkipped` | `Spec => []NothingSkipped` | the same, and `TieBroken` |
| `ValidationTypes`, `OnlyAllowedIsRevealed`, `ProbeStaysBounded`, `AnswersStayFresh`, `CorrectionsSettle` (`XqlValidationProofs`) | `Spec => []TypeOK`, `[]RevealsOnlyAllowed`, `[]ProbeIsBounded`, `[]AnswersAreFresh`, `[]CorrectionSettles` | `XqlAssumption`: the types of queries and windows, caches of at least one entry |
| `GatewayTypes`, `AssertionsSpent`, `AuditCloses` (`GatewayCallProofs`) | `Spec => []TypeOK`, `[]AssertionSpent`, `[]AuditFailsClosed` | `GatewayAssumption`: integer time stamps and cache size, a skew and a bound of time that are natural numbers |
| `ModesAgree` | `Spec => []OneModePerCall` | the same, and no mode hides the engagement tools (`engagement.py:195` refuses such a policy) |
| `KeysBrokered` | `Spec => []KeysAreBrokered` | `ProfilesAssumption`: finitely many profiles with integer priorities and a place each; no profile names the gateway's own key |
| `FloorKept` (`CostOffersProofs`) | `Spec => []LearnedKeepsFloor` | `BandsAssumption`, `LearnedAssumption`: a band's low is at most its high, learned units are natural numbers |
| `OffersEnd`, `OffersAreValid` | `Spec => []OffersProgress`, `[]TypeOK` | the same, `TiersAssumption`, `HostsAssumption`, `SpanAssumption`, `OffersAssumption`: the types of the tier map, the host fields, the longest window, queries and timeframes |
| `NarrowerPriced` | `Spec => []NarrowerIsPriced` | the same, and `BandsAscend` |
| `ObserversTypes`, `PairsCorrect`, `StepsCorrect`, `DropsCorrect` (`ObserversProofs`) | `Spec => []TypeOK`, `[]EnumPairsAreReal`, `[]StepsAreOwn`, `[]DropsFitCharges` | `ObserversAssumption`: the types of queries, prices and quotas, room for at least one pending pair |

The hypotheses, and why they are there:

- `OneWaits` (no two administrators wait for an answer at once) and `[][~FlushFails]_vars` (no batch is lost). Without the second
  `RevertIsFinal` is false, which is the run `learner_lost_request`. Without the first it is false too:
  `revert_learned` looks at the requests on disk (`builtin_components/learning.py:260`), so a pin can be accepted while another
  administrator's revert is still queued. `Orderly` is part of the two properties: see 2.3. Any number of administrators may ask one after another. Crashes of runs, restarts of the
  gateway and a full kind are all allowed.
- `NoPins` (`Actions` without `pin`): with pins `VerifiedIsEarned` is false (`LearnerPinned`, section 6). `[][~Abort]_vars`: a run that ends
  between the fact files and the saved offsets is repeated, and counts its records twice. Lost batches, restarts and
  reverts are allowed.
- `OneSessionPerCase`: two sessions of one principal on one case overwrite each other's engagement of the case, as they
  may; the lock is per session. Only `SessionMatchesCase` rests on it. It is stated of the requests, so it constrains who asks and not what the code does.
- `TieBroken`: two rows with the same sort values are one row, for a plan that asks for continuation. The tool asks this of its callers
  (`builtin_components/datasets.py:127`, `:407`) and cannot check it; a seek clause over values that are not unique
  skips the rest of a tie. `NoRowTwice` and `WindowStays` do not need it.
- `BandsAscend`: a dearer class has no smaller high bound. The default bands ascend; `_parse_unit_bands` (`cost_guard.py:151`) asks of configured
  ones only that each has its low under its high. Without it a narrower window may fall into a cheaper class with a larger high bound. Only
  the second conjunct of `NarrowerIsPriced`, never dearer, rests on it.

The arguments.

**Result cache.** Nothing the run checks is inductive alone. `IInv` adds `EntriesAreHonest` (an entry is filed under the credential that
fetched it and dated by its reply), `CallsAreKeyed` (what a call has fingerprinted, holds and has recorded, phase by
phase) and `HitsEndCalls`. The heart is `Store`: a reply is kept only if the recorded credential is the fingerprint, and the recorded
one is read from the fetcher that runs the query, so no rotation in between can separate the two. Lemmas about sequences say that
removing, appending and trimming keep a cache without double keys. These lemmas, and those of the guard's sums, are about finite sets
and sequences, so the two proofs share a module.

**Learned facts: requests.** `TypeInv` is `TypeOK` with the bounds of offsets, pruned records and the run. `RevertIsFinal` and
`PinIsKept` speak of one answer; the invariant follows the request from the queue to the tombstone. `WaitInv`: a request that is
queued finds a fact that it can be applied to, in the files and in the run under way; one that has left the queue is `Written`: it is
the latest request of the journal, and either the stored fact is what it asked for or its record is still unread and its file not pruned,
and a run that folds past it has it in its batch. `ToldInv` says the same of an answered request, and that the sweep of a run that has
not read it spares the fact. `RevertInv` and `BatchInv` say that the gateway's view (the last request of the files that
exist) agrees: a revert is out of the files before another request is accepted, and a run makes a tombstone only
of a revert the gateway still reads. These rest on the code's orders: files before offsets, pruning only of what the run has read,
offsets of what it read rather than of what is there.

**Learned facts: counts.** `CountInv`: the streak of an entry, its engagements, its verification and its promotion are covered by the observations
of the journal up to the record it was folded to (`Counted`), for the stored entry and for the copy a run holds. Each
operator of `LearnedFact` has a lemma that one more record keeps this.

**Engagement.** `EngagementTypes` uses `HeldInv`: what a call holds has the type that its phase and its request say. `EvidenceInv`: every
query in a record was written into that session's record, every query in a case file was logged under that case, every fact is cited by a
query of one or the other, and the same of what each call has loaded or is about to store; it needs no lock, because what
was written stays written (`Onward`) even when the record is lost. `TurnInv` is what the lock is for: a call holds the lock of
its session from its load to its end, what it has loaded is what it will replace, and the record is the cut of `since`. `OrderInv`: a call logs
its query once, no other call writes into the session before it has written into the case, and every case log is in the
order of its sessions' logs. `MatchInv`: the engagement of a session is its own setter's, and what a call is about to store is that
engagement. `RestoredInv` needs no lock and no limit on sessions: a call about to store an engagement is its setter, and a scope it
restored is still the case's unless the call has been overtaken, because only another `StoreEngagement` of the case can change it.

**Paging.** `PageInv` places each cursor and each continuing call: what was shown lies in the window and not behind the last row sent, so the
seek clause of the next page cannot match it, however the dataset grows. That a row not behind the old place is not behind the new one is
transitivity of the order (`BehindBehind`, by which sort field decides first). `LeftInv`
adds the converse for `NothingSkipped`: a row that was there at every reading so far, has its sort values and was not shown lies behind the place; a reply
to the next query that was read when the row was there either holds it or ends before it. A cached reply needs no more: the same text
selects the same rows of whatever it was read from (`Readings`). `PagesTypes` needs of `PageInv` that a call that continues has the plan of its cursor: what
it hands out is the old plan at the last row sent, and a row without a sort value makes no cursor.

**Validation.** `CallInv` says of a call, at each of its awaits, what it may be about to ask and what it has concluded from what; `CachesHoldAnswers`
that both caches consist of answers. `CorrectionSettles` needs no induction on the query: rewriting acts on
each stage alone, leaves nothing to rewrite there, and never changes which enumerations and limits the query has.
`ValidationTypes` follows an insertion: the old entry of the key goes, the new one is put behind the rest, and the oldest goes when
the cache is full, which leaves one entry for a key (`StoreFiles`).

**Calls.** `AssertionSpent` is not inductive: `OnceInv` adds that an assertion accepted within its validity has expired
by now or is still remembered with its expiry, and that one accepted across its end has expired. The cache drops an entry only when it is past its expiry,
and every later check of the time stamp then refuses; only a check that had passed already can still be accepted, once, and not again since the clock has passed the expiry;
a full cache refuses. `CallsInv` types the calls, and `AuditInv` says
that a call past its start event has one, that what reached XSIAM or a session is behind such an event, and that an answered
call has its end event. `OneModePerCall` needs `IdInv`, identifiers of calls are distinct and none is in a log before its call began, and
`ModeInv`, which ties each event and each act of a call to the mode its record holds as long as the call runs.
`KeysAreBrokered` needs that a nonempty set of profiles has a first one, by priority and then by place. `GatewayTypes` needs no more than
`NoncesInv`: an assertion enters the cache only when its nonce is not there and there is room after the expired entries are dropped.

**Ratings.** `FloorKept` needs no invariant, only the arithmetic of the bands. The theorems about offers need `QueryInv`: the query is
well formed and the timeframe valid whichever offers led to them, and the offers are those of this query. Each kind of rewrite has a lemma that says
what it leaves alone. Cutting the config windows keeps everything else that is read of every stage and of every piece (`RewriteMirrors`), so that
the rewritten text reads as the old shape with the window `h` (`RewriteReads`, `RewriteWindow`), which is what the offer was rated by. A query that
takes the stages of another over (`Carries`, `Carried`) has its window, its host filters and its aggregates; this serves the host filter, at the top or in a subquery,
and the aggregation. A host filter that counts makes the query scoped, and one that does not leaves the rank as it is (`OffersStep`). The kept stages of an aggregation are counted: the map from a kept place to the number of kept places up to it is
one to one, hence onto (`KeptAre`). A smaller window never scores higher (`ScoreGrows`), since each dataset has a tier
(`BestEntry`) and points only grow with the window.

**Observers.** `IInv` of `ObserversProofs` has three groups, each checked with TLC on the instance of the run before it was proved.

- Steps: `CallsAreOwn` says that the observation of a running call lists its queries in the order they were observed, and that its
  units are all known exactly when there are as many as queries, and then their sum is the sum over its queries. The sums are
  recursive functions (`UnitSums`), and what one more query does to them is one step of their recursion. `StepsAreLast` keeps a step true after its call
  has ended, because no query of an ended call is in flight (`FlightIsRunning`).
- Drops: a reply carries, as history, which charge of its profile it reports and what had been charged by then. `RepliesAreOrdered`: remaining plus charged never falls
  from a reading to a later one, since a charge moves units from one to the other and a renewal only adds. So a drop between two readings observed in order is at most what the tenant was charged
  between them. `LastIsReading`: what is remembered of a profile is its latest observed reading. With it `DropsFitCharges` is inductive itself: a new drop
  fits between the latest reading and the new one, and the earlier drops fitted before.
- Pairs: `PendingAreAsked` (a pending pair is an equality filter, without rows, of the query whose id it has, and was seen then), `Distinct` (no key waits twice, the oldest
  is first, so that pruning from the front leaves nothing too old) and `TakenOnce` (a filter that confirmed is not pending any more). The pairing of one query is a recursion over its
  clauses; `Sound` says what holds of the pairs and of the conclusions after each clause. The induction on the stages is written
  out: a set of numbers that has 0 and the successor of each of its members is all of `Nat`, by its least missing one (`SetInduction`).

### 5.3 Only model-checked

- `QueriesEnd`: liveness is out of the prover's reach.
- Everything in section 6: these are counterexamples.

## 6. Where the code disagrees with what it says

Each row is a configuration and a property that it checks, and TLC's counterexample is the evidence. The run
`learner_lost_request` is listed in `PROJECT.json`; the others are checked by hand with
`tlc -config <configuration> <MC module>` (`CostOffersUnpriced`, which checks two, with `-continue`).

| Configuration | Property | The code | The statement |
| --- | --- | --- | --- |
| `LearnerLostRequest` (run) | `RevertIsFinal` | a request whose journal write failed is acknowledged | `learning_journal.py:309` |
| `CostGuardLateReading` | `ReserveKept` | `observe_remaining_quota` keeps the figure read last, not the one made last; a query is admitted below the reserve | `docs/SECURITY_MODEL.md:114-116` |
| `CostGuardStaleFallback` | `AdmissionUsesLatestReading` | when `get_quota` fails, `_remaining_units` decides on the object it read before the await although a newer one is in the table | `docs/CONFIGURATION.md:217-218` |
| `CostGuardLongSlots` | `NoHeavyWhileSlotsAreLong` | long-running slots are counted once, before reads, approval and the wait for a slot | `docs/CONFIGURATION.md:213-214` |
| `LearnerPinned` | `VerifiedIsEarned` | a contradiction of a pinned fact leaves its verification; unpinned, it is served as verified | `learned_store.py:25-26` |
| `LearnerSpan` | `VerifiedSpansDays` | the verification window is measured in the times of learner runs, not of observations | `docs/LEARNING.md:431` |
| `XqlValidationProbe` | `ProbeWithinOneHour` | a `config timeframe` inside a subquery is not seen by the check that forbids one, so the probe reads that window | `xql_validation.py:7-8`: "a probe of the query over one hour" |
| `CostOffersUnpriced` | `OfferIsPriced` | the rewrite with a host filter or an aggregate is rated from an edited shape and without learned units; submitted, its text is rated differently | none; a refusal shows the figure |
| `CostOffersUnpriced` | `HostFilterScopes` | the host filter is offered although a subquery reads the heavy dataset again, unscoped | none; the offer names the host |
| `CostOffersRepeats` | `RewritesRunOut` | the field of the host filter comes from `COST_GUARD_HOST_FIELDS`; if it is not in `COST_GUARD_SELECTIVE_FIELDS` the rewritten query is still unscoped, is refused and is offered the same filter again (`cost_guard.py:1289-1291`, `:503`) | none; the refusal offers it as a way on |
| `DatasetPagesCached` | `NothingSkippedSinceFirst` | pages pass the result cache, so a later page may be older than the first; a row in between is on neither (`cost_guard.py:728-737`) | none; the last page says `complete` |
| `GatewayCallClock` | `AssertionOnce` | an assertion whose skew check falls in its last second and whose nonce check falls in the next drops its own entry and is accepted again (`identity.py:141`, `:192`) | `docs/SECURITY_MODEL.md:219`: "reject replayed gateway nonces" |
| `LearnerSameSecond` | `RevertStands` | of an unpin and a revert of one second the unpin sorts last, so the reverted fact is served until the next run folds it (`learned_store.py:1041`); `PinStands` fails likewise | `learned_store.py:1013`: "The latest journalled admin action per entry id" |
| `ObserversShared` | `DropIsOwnCost` | a drop of the tenant's quota since a profile's last reading counts what other profiles and clients spent (`learning_observers.py:371-385`) | `docs/LEARNING.md:454` calls the deltas approximate |
| `EngagementOvertaken` | `OmittedScopeIsAlwaysKept` | two sessions on one case: the second restores a scope it read before the first replaced it (`engagement.py:277-291`) | `engagement.py:268`: "fields the caller omitted are restored from it" |
| `DatasetPagesNulls` | `NothingSkippedAtAll` | where XSIAM sorts rows without the sort field last, the seek clause excludes them from every later page | none; the last page says `complete` |
| `ObserversDropped` | `AbsentIsAbsent` | `field_read_from_dataset` decides by the first mention of a field; XSIAM may fail at a later one, after a stage that dropped it, or in an in-list | `docs/LEARNING.md:230` |

`EngagementShared` is the one configuration checked by hand that passes: `TypeOK`, `SessionIsSerial` and `OmittedScopeIsKept` with two sessions on one case.

`ReserveKept`, `VerifiedIsEarned` and `RevertIsFinal` hold in the passing runs, where the situation that breaks them is
left out (in-order answers, no pins, no failed writes), which shows that this situation is the only cause within
the bounds.

## 7. Not modelled, and why

- Text: building query text and cursors' encryption, error texts, result shaping, documentation lookup, OpenAPI
  conversion. No shared state; their properties are about strings. Validation, rating and paging take
  a query as stages.
- Start-up, CLI, configuration, logging: I/O and settings. Settings appear as constants.
- Identity: token cryptography, key sets, the sources of groups, listing of tools. Dataset and log policy are sets of grants.
- Tools for logs, issues and cases: one call, one request, no state; what they share with others is in `GatewayCall`.
- Audit: the content, redaction and size of events.
- The HTTP client makes one attempt with one deadline; its outcomes are modelled where they are used.
- Restarts and replicas of the guard: its state is documented as per process
  (`SpendElsewhere` stands for whoever else spends). The nonces of replicas are separate, as documented (`docs/CONFIGURATION.md:88`).
- In the learned store: the merging of measured samples into costs and timings, evidence,
  the change log and the digest. In the learner: tool steps, fact links, engagement
  closes, held cost samples, the weekly job and the daily unit cap.
- Engagement: quota drops and units of a log entry (documented as approximate), the mode policy, the size
  limit of a case file (a failure of the case store covers it), reads for the log tool.
- Observers: fact links, the payload kept for the replay cache, full queues.
- Replay: reads manifests and files and writes nothing.

The `hazards` list of `PROJECT.json` names, at its line, each thing in this code that is hard to test, with the
properties that cover it, or why none does yet.

## 8. Plan

In order of importance; a module is listed after those it uses.

| Module | Models | Composes | Checks | Theorems |
| --- | --- | --- | --- | --- |
| `LearnerBudget` | nightly and weekly jobs, `_add_spend`, the daily cap and reserve of history queries, held cost samples and their recalibration, a run repeated after a failure | beside `Learner`, fed by `Observers` | spend of a day stays within the cap plus one query; a sample is recalibrated at most once and never lost while it is held | the same for every cap |
| `CaseStore` (abstract) | one case as one atomic record | refined by `Engagement` where no write fails | a run with two sessions on two cases, and without a case store | step simulation |
| `CallGuard` | guard and result cache in one call | `CostGuard`, `ResultCache` | a hit spends nothing and holds nothing | |

Instances stay in the sizes of section 3: two or three actors, values in twos, one midnight or
three days, one failure of each kind. Pure modules enumerate their inputs as initial
states and compare the operator with its reference in one step.
