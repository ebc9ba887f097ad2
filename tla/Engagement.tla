------------------------------ MODULE Engagement ------------------------------
(***************************************************************************)
(* Engagement state (usecase/engagement.py): tool calls of one principal   *)
(* set the mode and scope, record facts and log executed queries.  Each    *)
(* call changes the record of its session, in the session store, and then  *)
(* the file of its case.  The session lock is held over the two awaits of  *)
(* the session store; the case file is read and written without an await,  *)
(* but at two different moments.                                           *)
(*                                                                         *)
(* A case directory belongs to one principal, and the key of a session     *)
(* record names the principal, so principals do not meet here.  One scope  *)
(* list stands for the omittable fields, which are treated alike.          *)
(***************************************************************************)
EXTENDS Integers, Sequences

CONSTANTS
    NumCalls,    \* how many tool calls are made
    Sessions,    \* MCP sessions of the principal
    Cases,       \* case ids
    Modes,       \* engagement modes other than unset
    Items,       \* values of a scope list
    Requests,    \* what a call may ask for (see Request)
    HasStore,    \* ENGAGEMENT_STORE_DIR is configured
    SessionCap,  \* MAX_SESSION_QUERIES, MAX_SESSION_FACTS
    CaseCap,     \* MAX_CASE_QUERIES, MAX_CASE_FACTS
    MaxFaults,   \* bound: how many things go wrong
    None,        \* Python's None
    Unset,       \* the mode unset
    Empty,       \* an empty scope list
    Omitted      \* a scope list the caller did not send

\* Calls are numbered in the order they begin.
Calls == 1..NumCalls

Request ==
    [kind: {"set"}, session: Sessions, mode: Modes, case: Cases \cup {None},
     scope: Items \cup {Empty, Omitted}]
        \cup [kind: {"query"}, session: Sessions]
        \cup [kind: {"fact"}, session: Sessions, evidence: Calls]

ASSUME EngagementAssumption ==
    /\ NumCalls \in Nat /\ MaxFaults \in Nat /\ Requests \subseteq Request
    /\ HasStore \in BOOLEAN /\ SessionCap \in Nat \ {0} /\ CaseCap \in Nat \ {0}
    /\ None \notin Calls \cup Cases /\ Unset \notin Modes /\ Empty \notin Items
    /\ Omitted \notin Items \cup {Empty}

VARIABLES
    phase,    \* where each call is
    req,      \* what it asks, or None
    scope,    \* the mode and case in effect for it (a ContextVar)
    session,  \* the session records, or None
    lock,     \* the call that holds each session's lock, or None
    held,     \* the record a call has loaded, then what it wrote into it
    file,     \* the case files, or None
    faults,   \* how many things have gone wrong
    \* history, read only by the properties
    saved,    \* for each session, what was written into its record
    since,    \* and all of it since the record was last gone, nothing cut off
    overtaken \* the calls whose case another call has set since they read it

vars == <<phase, req, scope, session, lock, held, file, faults, saved, since, overtaken>>

Phases == {"new", "entered", "loaded", "saved", "done", "failed"}
Over(c) == phase[c] \in {"done", "failed"}

\* by: the call that set it (set_at).
Scoped == [mode: Modes \cup {Unset}, case: Cases \cup {None},
           scope: Items \cup {Empty}, by: Calls \cup {None}]

\* query_id is None when XSIAM gave the query no id.
Query == [by: Calls, query_id: Calls \cup {None}, mode: Modes \cup {Unset},
          case: Cases \cup {None}]
Fact  == [by: Calls, evidence: Calls, mode: Modes, case: Cases \cup {None}]

Record   == [engagement: Scoped, facts: Seq(Fact), queries: Seq(Query)]
CaseFile == [engagement: Scoped \cup {None}, facts: Seq(Fact), queries: Seq(Query)]
Written  == [type: {"engagement"}, what: Scoped] \cup [type: {"query"}, what: Query]
              \cup [type: {"fact"}, what: Fact]

\* None is not a record.
ASSUME NoneAssumption == None \notin Record \cup CaseFile

Blank      == [mode |-> Unset, case |-> None, scope |-> Empty, by |-> None]
NewRecord  == [engagement |-> Blank, facts |-> <<>>, queries |-> <<>>]
NewFile    == [engagement |-> None, facts |-> <<>>, queries |-> <<>>]
NoScope    == [mode |-> Unset, case |-> None]
OrNew(x, new) == IF x = None THEN new ELSE x

Elements(seq) == {seq[i] : i \in 1..Len(seq)}
\* Mutant: the log grows.
Uncapped(seq, n) == seq

Capped(seq, n) == IF Len(seq) <= n THEN seq ELSE SubSeq(seq, Len(seq) - n + 1, Len(seq))

Init ==
    /\ phase = [c \in Calls |-> "new"]
    /\ req = [c \in Calls |-> None]
    /\ scope = [c \in Calls |-> NoScope]
    /\ session = [s \in Sessions |-> None]
    /\ lock = [s \in Sessions |-> None]
    /\ held = [c \in Calls |-> None]
    /\ file = [k \in Cases |-> None]
    /\ faults = 0
    /\ saved = [s \in Sessions |-> <<>>] /\ since = [s \in Sessions |-> NewRecord]
    /\ overtaken = {}

Go(c, to) == phase' = [phase EXCEPT ![c] = to]
SessionOf(c) == req[c].session
GoesWrong == faults < MaxFaults /\ faults' = faults + 1

------------------------------------------------------------------------------
(* The steps of a call *)

Begins(c, request) ==
    /\ phase[c] = "new" /\ \A d \in Calls : d < c => phase[d] # "new"
    /\ req' = [req EXCEPT ![c] = request]
    /\ Go(c, "entered")
    /\ UNCHANGED <<session, lock, held, file, saved, since, overtaken>>

\* enter_engagement_scope reads the record without the lock.
Enter(c, request) ==
    /\ Begins(c, request)
    /\ LET e == OrNew(session[request.session], NewRecord).engagement
       IN  scope' = [scope EXCEPT ![c] = [mode |-> e.mode, case |-> e.case]]
    /\ UNCHANGED faults

\* The session store cannot be read: the call goes on with the mode unset.
EnterUnset(c, request) ==
    /\ Begins(c, request)
    /\ GoesWrong
    /\ UNCHANGED scope

\* Mutant: the session lock is not taken in turn.
LoadUnlocked(c) ==
    /\ phase[c] = "entered"
    /\ lock' = [lock EXCEPT ![SessionOf(c)] = c]
    /\ held' = [held EXCEPT ![c] = session[SessionOf(c)]]
    /\ Go(c, "loaded")
    /\ UNCHANGED <<req, scope, session, file, faults, saved, since, overtaken>>

\* The lock, then _load_session_record.  A query has run by then.
Load(c) ==
    /\ phase[c] = "entered"
    /\ lock[SessionOf(c)] = None
    /\ lock' = [lock EXCEPT ![SessionOf(c)] = c]
    /\ held' = [held EXCEPT ![c] = session[SessionOf(c)]]
    /\ Go(c, "loaded")
    /\ UNCHANGED <<req, scope, session, file, faults, saved, since, overtaken>>

\* What the call writes, of one of three types, is added to what there was.
Added(r, type, what) ==
    [engagement |-> IF type = "engagement" THEN what ELSE r.engagement,
     facts      |-> IF type = "fact"  THEN Append(r.facts, what) ELSE r.facts,
     queries    |-> IF type = "query" THEN Append(r.queries, what) ELSE r.queries]

Noted(c, type, what) ==
    /\ saved' = [saved EXCEPT ![SessionOf(c)] = Append(@, [type |-> type, what |-> what])]
    /\ since' = [since EXCEPT ![SessionOf(c)] = Added(@, type, what)]

\* Mutant: the lock is given back before the case file is written, in a step of
\* its own.
SaveAndUnlock(c, record, type, what) ==
    /\ session' = [session EXCEPT ![SessionOf(c)] = record]
    /\ Noted(c, type, what)
    /\ held' = [held EXCEPT ![c] = what]
    /\ lock' = [lock EXCEPT ![SessionOf(c)] = None]
    /\ Go(c, "saved")
    /\ UNCHANGED <<req, scope, file, faults, overtaken>>

\* _save_session_record writes the record the call has built.
Save(c, record, type, what) ==
    /\ session' = [session EXCEPT ![SessionOf(c)] = record]
    /\ Noted(c, type, what)
    /\ held' = [held EXCEPT ![c] = what]
    /\ Go(c, "saved")
    /\ UNCHANGED <<req, scope, lock, file, faults, overtaken>>

Record0(c) == OrNew(held[c], NewRecord)

\* The file of a case, or the one it would begin with.
CaseOf(k) == OrNew(file[k], NewFile)

\* Mutant: an omitted scope is restored from the session, whatever its case.
SourceIsSession(c) == Record0(c).engagement

\* The engagement that omitted fields are restored from: the case file or,
\* without a case store, the session's own engagement of the same case.
Source(c) ==
    IF req[c].case = None THEN Blank
    ELSE IF HasStore
         THEN OrNew(CaseOf(req[c].case).engagement, Blank)
    ELSE IF Record0(c).engagement.case = req[c].case THEN Record0(c).engagement
    ELSE Blank

Given(c) ==
    [mode |-> req[c].mode, case |-> req[c].case, by |-> c,
     scope |-> IF req[c].scope = Omitted THEN Empty ELSE req[c].scope]

\* _merge_omitted_scope
Merged(c) ==
    IF req[c].scope = Omitted THEN [Given(c) EXCEPT !.scope = Source(c).scope] ELSE Given(c)

SaveEngagement(c) ==
    /\ phase[c] = "loaded" /\ req[c].kind = "set"
    /\ Save(c, [Record0(c) EXCEPT !.engagement = Merged(c)], "engagement", Merged(c))

\* record_query_telemetry logs the query under the scope its call began with.
SaveQuery(c) ==
    /\ phase[c] = "loaded" /\ req[c].kind = "query"
    /\ \E id \in {c, None} :
         LET entry == [by |-> c, query_id |-> id, mode |-> scope[c].mode, case |-> scope[c].case]
         IN  Save(c, [Record0(c) EXCEPT !.queries = Capped(Append(@, entry), SessionCap)],
                  "query", entry)

\* Queries a fact may cite: those of the session and those of its case.
Known(c) ==
    LET k == Record0(c).engagement.case
    IN  {q.query_id : q \in Elements(Record0(c).queries)}
          \cup (IF HasStore /\ k # None
                THEN {q.query_id : q \in Elements(CaseOf(k).queries)} ELSE {})

\* Mutant: the evidence is not looked up.
AcceptsAny(c) == held[c] # None /\ Record0(c).engagement.mode # Unset

Accepts(c) ==
    /\ held[c] # None /\ Record0(c).engagement.mode # Unset
    /\ req[c].evidence \in Known(c)

SaveFact(c) ==
    /\ phase[c] = "loaded" /\ req[c].kind = "fact"
    /\ Accepts(c)
    /\ LET e == Record0(c).engagement
           fact == [by |-> c, evidence |-> req[c].evidence, mode |-> e.mode, case |-> e.case]
       IN  Save(c, [Record0(c) EXCEPT !.facts = Capped(Append(@, fact), SessionCap)],
                "fact", fact)

\* The end of a call: it gives the lock back, if it holds it, its copy and its
\* scope (which set_engagement has updated by then, for the audit event only).
End(c, to) ==
    /\ scope' = [scope EXCEPT ![c] = NoScope]
    /\ lock' = [s \in Sessions |-> IF lock[s] = c THEN None ELSE lock[s]]
    /\ held' = [held EXCEPT ![c] = None]
    /\ Go(c, to)

RefuseFact(c) ==
    /\ phase[c] = "loaded" /\ req[c].kind = "fact"
    /\ ~Accepts(c)
    /\ End(c, "failed")
    /\ UNCHANGED <<req, session, file, faults, saved, since, overtaken>>

\* CaseStore.update, without effect if there is no store or no case.
Update(k, case) == file' = IF HasStore /\ k # None THEN [file EXCEPT ![k] = case] ELSE file

\* History: the calls of other sessions that have read the case c sets and not yet
\* stored it.
Overtakes(c) ==
    overtaken' = overtaken \cup
        {d \in Calls \ {c} : phase[d] = "saved" /\ req[d].kind = "set" /\ req[d].case = req[c].case}

\* Mutant: what the caller sent is stored, not what was restored.
StoreGiven(c) ==
    /\ phase[c] = "saved" /\ req[c].kind = "set"
    /\ Update(req[c].case, [CaseOf(req[c].case) EXCEPT !.engagement = Given(c)])
    /\ End(c, "done")
    /\ Overtakes(c)
    /\ UNCHANGED <<req, session, faults, saved, since>>

StoreEngagement(c) ==
    /\ phase[c] = "saved" /\ req[c].kind = "set"
    /\ Update(req[c].case, [CaseOf(req[c].case) EXCEPT !.engagement = held[c]])
    /\ End(c, "done")
    /\ Overtakes(c)
    /\ UNCHANGED <<req, session, faults, saved, since>>

StoreQuery(c) ==
    /\ phase[c] = "saved" /\ req[c].kind = "query"
    /\ Update(scope[c].case,
              [CaseOf(scope[c].case) EXCEPT !.queries = Capped(Append(@, held[c]), CaseCap)])
    /\ End(c, "done")
    /\ UNCHANGED <<req, session, faults, saved, since, overtaken>>

StoreFact(c) ==
    /\ phase[c] = "saved" /\ req[c].kind = "fact"
    /\ Update(held[c].case,
              [CaseOf(held[c].case) EXCEPT !.facts = Capped(Append(@, held[c]), CaseCap)])
    /\ End(c, "done")
    /\ UNCHANGED <<req, session, faults, saved, since, overtaken>>

\* An error or a cancellation: set_engagement and record_fact answer with it,
\* telemetry swallows it.  What was written before stays written.
Raise(c) ==
    /\ GoesWrong
    /\ phase[c] \in {"entered", "loaded", "saved"}
    /\ End(c, "failed")
    /\ UNCHANGED <<req, session, file, saved, since, overtaken>>

------------------------------------------------------------------------------
(* The environment *)

Gone(lost) == since' = [s \in Sessions |-> IF s \in lost THEN NewRecord ELSE since[s]]

\* A session record reaches its time to live.  An expiry between a call's load
\* and its save is undone by the save.
Expire(s) ==
    /\ GoesWrong
    /\ session[s] # None /\ lock[s] = None
    /\ session' = [session EXCEPT ![s] = None]
    /\ Gone({s})
    /\ UNCHANGED <<phase, req, scope, lock, held, file, saved, overtaken>>

\* The gateway ends with the session records, which are its memory.
Restart ==
    /\ GoesWrong
    /\ session' = [s \in Sessions |-> None]
    /\ Gone(Sessions)
    /\ lock' = [s \in Sessions |-> None]
    /\ held' = [c \in Calls |-> None]
    /\ scope' = [c \in Calls |-> NoScope]
    /\ phase' = [c \in Calls |-> IF phase[c] = "new" \/ Over(c) THEN phase[c] ELSE "failed"]
    /\ UNCHANGED <<req, file, saved, overtaken>>

\* Every call has ended.
Idle == (\A c \in Calls : Over(c)) /\ UNCHANGED vars

Next ==
    \/ \E c \in Calls :
         \/ \E request \in Requests : Enter(c, request) \/ EnterUnset(c, request)
         \/ Load(c)
         \/ SaveEngagement(c) \/ SaveQuery(c) \/ SaveFact(c) \/ RefuseFact(c)
         \/ StoreEngagement(c) \/ StoreQuery(c) \/ StoreFact(c)
         \/ Raise(c)
    \/ \E s \in Sessions : Expire(s)
    \/ Restart
    \/ Idle

Spec == Init /\ [][Next]_vars

------------------------------------------------------------------------------
(* Properties *)

\* Every variable has its type; the logs are capped.
TypeOK ==
    /\ phase \in [Calls -> Phases]
    /\ req \in [Calls -> Requests \cup {None}]
    /\ scope \in [Calls -> [mode: Modes \cup {Unset}, case: Cases \cup {None}]]
    /\ session \in [Sessions -> Record \cup {None}]
    /\ lock \in [Sessions -> Calls \cup {None}]
    /\ held \in [Calls -> Record \cup Scoped \cup Query \cup Fact \cup {None}]
    /\ file \in [Cases -> CaseFile \cup {None}]
    /\ faults \in 0..MaxFaults
    /\ saved \in [Sessions -> Seq(Written)] /\ since \in [Sessions -> Record]
    /\ overtaken \subseteq Calls
    /\ \A k \in Cases : file[k] # None =>
         Len(file[k].queries) <= CaseCap /\ Len(file[k].facts) <= CaseCap

\* However set_engagement, record_fact and query telemetry interleave in a
\* session, its record is what they wrote, one after the other: no call undoes
\* another's change (the read-modify-write under _session_lock).
SessionIsSerial ==
    \A s \in Sessions : session[s] # None =>
        session[s] = [engagement |-> since[s].engagement,
                      facts      |-> Capped(since[s].facts, SessionCap),
                      queries    |-> Capped(since[s].queries, SessionCap)]

\* A case file logs the queries of a session in the order of the session's own
\* log, although the two are written at different moments.
Position(s, c) ==
    CHOOSE i \in 1..Len(saved[s]) : saved[s][i].type = "query" /\ saved[s][i].what.by = c

CaseFollowsSession ==
    \A k \in Cases : file[k] # None =>
        \A i, j \in 1..Len(file[k].queries) :
            LET a == file[k].queries[i].by
                b == file[k].queries[j].by
            IN  i < j /\ SessionOf(a) = SessionOf(b) =>
                    Position(SessionOf(a), a) < Position(SessionOf(a), b)

\* Every fact, in a session record or a case file, cites a query with an id that
\* was logged in the fact's session or under the fact's case.
Evidenced(f) ==
    \E s \in Sessions : \E i \in 1..Len(saved[s]) :
        /\ saved[s][i].type = "query"
        /\ saved[s][i].what.query_id = f.evidence
        /\ s = SessionOf(f.by) \/ saved[s][i].what.case = f.case

FactsAreEvidenced ==
    /\ \A s \in Sessions : session[s] # None => \A f \in Elements(session[s].facts) : Evidenced(f)
    /\ \A k \in Cases : file[k] # None => \A f \in Elements(file[k].facts) : Evidenced(f)

\* Once set_engagement has succeeded, the session's engagement and its case's
\* are the same until the next one: a query, a fact, a failed call or an expiry
\* in between does not separate them.  (With one session per case at a time.)
SessionMatchesCase ==
    \A s \in Sessions :
        (HasStore /\ session[s] # None /\ session[s].engagement.by # None) =>
            LET e == session[s].engagement
            IN  (e.case # None /\ phase[e.by] = "done" /\ lock[s] = None) =>
                    file[e.case] # None /\ file[e.case].engagement = e

\* set_engagement never changes the scope of a case by leaving it out: "Omitted
\* scope fields are restored from an existing case" (docs/ENGAGEMENT_MODES.md),
\* unless another session has set the case between the call's read of it and its
\* write, around the await of the session store.
Resets(k) ==
    /\ file[k] # None /\ file[k].engagement # None
    /\ file'[k].engagement # file[k].engagement /\ req[file'[k].engagement.by].scope = Omitted
Keeps(k) == file'[k].engagement.scope = file[k].engagement.scope
OmittedScopeIsKept ==
    [][\A k \in Cases : Resets(k) /\ file'[k].engagement.by \notin overtaken => Keeps(k)]_vars

\* Refuted: without the exception.  A call that only omits the scope writes back the
\* one it read, over the one another session has set meanwhile.
OmittedScopeIsAlwaysKept == [][\A k \in Cases : Resets(k) => Keeps(k)]_vars
===============================================================================
