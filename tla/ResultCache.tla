------------------------------ MODULE ResultCache ------------------------------
(***************************************************************************)
(* The per-principal result cache of the cost guard: prepare_query builds  *)
(* a key that holds a fingerprint of the XSIAM credential the query is     *)
(* expected to use, get_fetcher selects the credential again when the      *)
(* query has its slot, and finish_query stores the reply.  The operator    *)
(* may rotate the credential at any time, to a new one or back to an old   *)
(* one, and time passes between any two steps.                             *)
(*                                                                         *)
(* What happens between a miss and the slot (approval, reserve, waiting)   *)
(* is module CostGuard; here it is one stage, left or abandoned at will.   *)
(***************************************************************************)
EXTENDS Integers, Sequences, SequencesExt

CONSTANTS
    Calls,        \* calls of run_xql_query
    Scopes,       \* who asks: principal, groups, mode, case, dataset policy, profile
    Texts,        \* what is asked: query text, timeframe and row limit
    Credentials,  \* XSIAM API keys; fingerprints tell them apart
    MaxEntries,   \* COST_GUARD_CACHE_MAX_ENTRIES
    Ttl,          \* COST_GUARD_CACHE_TTL_SECONDS
    MaxTime,      \* bound: the last moment of the model
    NoKey         \* a fingerprint that was not taken

ASSUME CacheAssumption ==
    /\ MaxEntries \in Nat \ {0} /\ Ttl \in Nat \ {0} /\ MaxTime \in Nat
    /\ NoKey \notin Credentials

VARIABLES
    stage,    \* where each call is
    ask,      \* [scope, text] of each call
    keyed,    \* ticket.credential_fingerprint
    held,     \* the key of the fetcher that runs the query
    fetched,  \* ticket.fetch_fingerprint
    cache,    \* the OrderedDict, least recently used entry first
    key,      \* the credential the gateway is configured with now
    now,      \* the monotonic clock
    served    \* history: the entries each call was answered with from the cache

cacheVars == <<stage, ask, keyed, held, fetched, cache, key, now, served>>

Stages == {"new", "keying", "admitted", "starting", "running", "replied", "ended"}

\* An entry: what its key is made of, its time stamp, and (history, which no
\* action reads) the credential the reply was really fetched with and when.
Entry == [scope: Scopes, text: Texts, credential: Credentials, stored: Nat,
          by: Credentials, made: Nat]

CacheInit ==
    /\ stage = [c \in Calls |-> "new"]
    /\ ask \in [Calls -> [scope: Scopes, text: Texts]]
    /\ keyed = [c \in Calls |-> NoKey]
    /\ held = [c \in Calls |-> NoKey]
    /\ fetched = [c \in Calls |-> NoKey]
    /\ cache = <<>>
    /\ key \in Credentials
    /\ now = 0
    /\ served = [c \in Calls |-> {}]

MoveTo(c, to) == stage' = [stage EXCEPT ![c] = to]

\* The cache key of call c names entry e.
Names(c, e) ==
    /\ e.scope = ask[c].scope /\ e.text = ask[c].text /\ e.credential = keyed[c]

\* An entry stays good for Ttl seconds after it was stored.
Expired(e) == now - e.stored > Ttl

\* Where the entry of call c is (no key is there twice), what its lookup can
\* serve, and the rest of the cache, in order.
At(c)      == {i \in DOMAIN cache : Names(c, cache[i])}
Found(c)   == {cache[i] : i \in {j \in At(c) : ~Expired(cache[j])}}
Without(c) == IF At(c) = {} THEN cache ELSE RemoveAt(cache, CHOOSE i \in At(c) : TRUE)

\* select_xsiam_credentials, then the fingerprint in a worker thread.
Fingerprint(c) ==
    /\ stage[c] = "new"
    /\ keyed' = [keyed EXCEPT ![c] = key]
    /\ MoveTo(c, "keying")
    /\ UNCHANGED <<ask, held, fetched, cache, key, now, served>>

\* Mutant: a hit starts the time to live again.
HitRenews(c) ==
    /\ stage[c] = "keying"
    /\ \E e \in Found(c) :
         /\ cache' = Append(Without(c), [e EXCEPT !.stored = now])
         /\ served' = [served EXCEPT ![c] = {[entry |-> e, at |-> now]}]
    /\ MoveTo(c, "ended")
    /\ UNCHANGED <<ask, keyed, held, fetched, key, now>>

\* _cache_lookup: a hit becomes the most recently used entry.
Hit(c) ==
    /\ stage[c] = "keying"
    /\ \E e \in Found(c) :
         /\ cache' = Append(Without(c), e)
         /\ served' = [served EXCEPT ![c] = {[entry |-> e, at |-> now]}]
    /\ MoveTo(c, "ended")
    /\ UNCHANGED <<ask, keyed, held, fetched, key, now>>

\* An expired entry is dropped by the lookup that finds it.
Miss(c) ==
    /\ stage[c] = "keying"
    /\ Found(c) = {}
    /\ cache' = Without(c)
    /\ MoveTo(c, "admitted")
    /\ UNCHANGED <<ask, keyed, held, fetched, key, now, served>>

\* get_fetcher selects the credential again.
GetFetcher(c) ==
    /\ stage[c] = "admitted"
    /\ held' = [held EXCEPT ![c] = key]
    /\ MoveTo(c, "starting")
    /\ UNCHANGED <<ask, keyed, fetched, cache, key, now, served>>

\* Mutant: the credential is read from the settings once more.
RecordCurrentKey(c) ==
    /\ stage[c] = "starting"
    /\ fetched' = [fetched EXCEPT ![c] = key]
    /\ MoveTo(c, "running")
    /\ UNCHANGED <<ask, keyed, held, cache, key, now, served>>

\* record_fetch_credential reads the fetcher, not the settings; then the start
\* request goes out.
RecordFetchCredential(c) ==
    /\ stage[c] = "starting"
    /\ fetched' = [fetched EXCEPT ![c] = held[c]]
    /\ MoveTo(c, "running")
    /\ UNCHANGED <<ask, keyed, held, cache, key, now, served>>

\* finish_query has a reply without an error and waits for the session spend.
Succeed(c) ==
    /\ stage[c] = "running"
    /\ MoveTo(c, "replied")
    /\ UNCHANGED <<ask, keyed, held, fetched, cache, key, now, served>>

\* A refusal, an error, a timeout or a cancellation: nothing is cached.
Fail(c) ==
    /\ stage[c] \in {"keying", "admitted", "starting", "running", "replied"}
    /\ MoveTo(c, "ended")
    /\ UNCHANGED <<ask, keyed, held, fetched, cache, key, now, served>>

Cacheable(c) == fetched[c] = keyed[c]

\* The stored reply replaces an entry of the same key and becomes the most
\* recently used; the least recently used one leaves a full cache.
Stored(c) ==
    Append(Without(c),
           [scope |-> ask[c].scope, text |-> ask[c].text, credential |-> keyed[c],
            stored |-> now, by |-> held[c], made |-> now])

\* Mutant: nothing gives way.
NeverTrimmed(s) == s

Trimmed(s) == IF Len(s) > MaxEntries THEN Tail(s) ELSE s

Store(c) ==
    /\ stage[c] = "replied"
    /\ cache' = IF Cacheable(c) THEN Trimmed(Stored(c)) ELSE cache
    /\ MoveTo(c, "ended")
    /\ UNCHANGED <<ask, keyed, held, fetched, key, now, served>>

Rotate ==
    /\ key' \in Credentials \ {key}
    /\ UNCHANGED <<stage, ask, keyed, held, fetched, cache, now, served>>

Tick ==
    /\ now < MaxTime /\ now' = now + 1
    /\ UNCHANGED <<stage, ask, keyed, held, fetched, cache, key, served>>

CacheNext ==
    \/ \E c \in Calls :
         \/ Fingerprint(c) \/ Hit(c) \/ Miss(c) \/ GetFetcher(c)
         \/ RecordFetchCredential(c) \/ Succeed(c) \/ Fail(c) \/ Store(c)
    \/ Rotate \/ Tick

CacheSpec == CacheInit /\ [][CacheNext]_cacheVars

(***************************************************************************)
(* Properties                                                              *)
(***************************************************************************)

\* The type of every variable; no two entries have the same key.
CacheTypeOK ==
    /\ stage \in [Calls -> Stages]
    /\ ask \in [Calls -> [scope: Scopes, text: Texts]]
    /\ keyed \in [Calls -> Credentials \cup {NoKey}]
    /\ held \in [Calls -> Credentials \cup {NoKey}]
    /\ fetched \in [Calls -> Credentials \cup {NoKey}]
    /\ cache \in Seq(Entry) /\ Len(cache) <= MaxEntries
    /\ \A i, j \in DOMAIN cache : i # j =>
         \/ cache[i].scope # cache[j].scope
         \/ cache[i].text # cache[j].text
         \/ cache[i].credential # cache[j].credential
    /\ key \in Credentials /\ now \in 0..MaxTime

\* A cached reply is only ever given to the caller identity and the question it
\* was stored for, and it was fetched with the very credential the caller is
\* fingerprinted with, however the key was rotated, and rotated back, while the
\* query that stored it waited or ran.
HitsAreOwn ==
    \A c \in Calls : \A s \in served[c] :
        /\ s.entry.scope = ask[c].scope /\ s.entry.text = ask[c].text
        /\ s.entry.by = keyed[c]

\* Nothing is served once its time to live is over, however often it was served
\* before: a hit makes an entry recent, not young.
HitsAreFresh ==
    \A c \in Calls : \A s \in served[c] : s.at - s.entry.made <= Ttl
===============================================================================
