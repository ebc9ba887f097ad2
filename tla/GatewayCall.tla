------------------------------ MODULE GatewayCall ------------------------------
(***************************************************************************)
(* The way of a tool call through the gateway: HTTP identity, engagement   *)
(* scope, audit, tool policy, credentials, the handler's request to XSIAM, *)
(* the learning step and the answer (src/service/cortex_mcp/*.py with      *)
(* identity, tool_policy, credential_broker, fetcher and audit).           *)
(*                                                                         *)
(* Calls share one event loop.  An action runs a call from one await to    *)
(* the next; requests are delivered any number of times, parallel calls    *)
(* change the engagement mode, exports fail, and a client may give up.     *)
(*                                                                         *)
(* The clock is read where the code reads it: it may move on between two   *)
(* readings of one verification, and never goes back.                      *)
(*                                                                         *)
(* Observability only: "accepted" (how often an assertion was accepted,    *)
(* by the second reading of the clock), "acted" (what reached XSIAM or the *)
(* session, for which call, under which mode and key) and the identifiers  *)
(* of calls.                                                               *)
(***************************************************************************)
EXTENDS Integers, FiniteSets, FiniteSetsExt

CONSTANTS
    Slots,           \* calls in flight at a time
    Requests,        \* requests that may arrive: [bearer, assertion, tool]
    IdentityMode,    \* MCP_IDENTITY_AUTH_MODE
    Default,         \* the principal of an unauthenticated deployment
    GroupsOf,        \* [principals -> groups of their identity]
    ToolPolicy,      \* TOOL_ACCESS_POLICY: [groups -> tools, AllTools among them]
    Hidden,          \* [modes -> tools the mode hides]
    Profiles,        \* XSIAM_CREDENTIAL_PROFILES: [groups -> [priority, rank, key]], key None if unset
    BrokerEnabled,   \* XSIAM_CREDENTIAL_BROKER_ENABLED
    Skew,            \* MCP_GATEWAY_MAX_CLOCK_SKEW_SECONDS
    NonceCacheSize,  \* MCP_GATEWAY_NONCE_CACHE_SIZE
    FailClosed,      \* AUDIT_LOG_FAIL_CLOSED
    StartEvents,     \* AUDIT_LOG_EMIT_START_EVENTS
    MaxTime,         \* bound: seconds
    MaxCalls,        \* bound: requests delivered
    MaxCancels,      \* bound: clients that give up
    OwnKey,          \* the gateway's own API key
    AllTools, None

VARIABLES
    now,             \* the epoch second
    nonces,          \* _gateway_nonces: [key, expiry]
    mode,            \* [principals -> engagement mode of the session]
    calls,           \* [Slots -> call]
    audit,           \* events exported: [id, phase, outcome, mode]
    steps,           \* calls the learning middleware began to observe
    acted, accepted, \* see above
    count, cancels   \* behind the bounds

vars == <<now, nonces, mode, calls, audit, steps, acted, accepted, count, cancels>>
logs == <<audit, steps, acted>>

Principals == DOMAIN GroupsOf
Modes      == DOMAIN Hidden
Assertions == {r.assertion : r \in Requests}

\* Timestamps and settings are parsed as integers; the mode policy has an entry for a session
\* without a mode, and is refused when it hides the engagement tools (engagement.py).
ASSUME GatewayAssumption ==
    /\ Skew \in Nat /\ NonceCacheSize \in Int /\ MaxTime \in Nat
    /\ Default \in Principals /\ None \notin Principals
    /\ \A a \in Assertions \ {None} : a.who \in Principals /\ a.time \in Int
    /\ "unset" \in Modes
    /\ \A m \in Modes : "set_engagement" \notin Hidden[m]
    /\ None \notin {"success", "error", "denied"}

\* validate_credential_profiles: a priority is any integer; rank is the order of
\* the groups' names.
ASSUME ProfilesAssumption ==
    /\ IsFiniteSet(DOMAIN Profiles)
    /\ \A g \in DOMAIN Profiles : Profiles[g].priority \in Int /\ Profiles[g].rank \in Nat

-----------------------------------------------------------------------------
\* Identity.

\* Mutant: an entry of this very second is dropped too.
LiveEarly(cache, time) == {n \in cache : n.expiry > time}

\* _consume_gateway_nonce drops the entries whose expiry has passed.
Live(cache, time) == {n \in cache : n.expiry >= time}

\* What the cache remembers of an assertion; its timestamp is not part of it.
NonceKey(a) == <<a.who, a.nonce>>

Absolute(n) == IF n < 0 THEN -n ELSE n
Expiry(a) == a.time + Skew

\* verify_gateway_headers: a trusted signature of a timestamp within the skew.
Trusted(a) == a.sound /\ Absolute(now - a.time) <= Skew

\* _consume_gateway_nonce reads the clock again, at a later moment: a nonce not used
\* before, and room to remember it.
Verifies(a, later) ==
    /\ Trusted(a)
    /\ \A n \in Live(nonces, later) : n.key # NonceKey(a)
    /\ Cardinality(Live(nonces, later)) < Max({NonceCacheSize, 1})

\* The cache is pruned whenever an assertion gets as far as its nonce.
Remember(a, later) ==
    Live(nonces, later) \cup
    (IF Verifies(a, later) THEN {[key |-> NonceKey(a), expiry |-> Expiry(a)]} ELSE {})

\* An acceptance counts as "across" when the assertion expired between the two readings.
Accept(a, later) ==
    IF Verifies(a, later)
    THEN IF later > Expiry(a) THEN [accepted EXCEPT ![a].across = @ + 1]
                              ELSE [accepted EXCEPT ![a].within = @ + 1]
    ELSE accepted

ByBearer(r)    == IdentityMode \in {"entra", "entra_or_gateway"} /\ r.bearer \in Principals
ByAssertion(r) == IdentityMode \in {"gateway", "entra_or_gateway"} /\ ~ByBearer(r) /\ r.assertion # None

\* The clock is read a second time only for an assertion that gets as far as its nonce.
Consulted(r) == ByAssertion(r) /\ Trusted(r.assertion)
Readings(r)  == IF Consulted(r) THEN now..MaxTime ELSE {now}

\* authenticate_http_headers: the principal, or None for a 401.
Principal(r, later) ==
    CASE IdentityMode = "none" -> Default
      [] ByBearer(r)           -> r.bearer
      [] ByAssertion(r)        -> IF Verifies(r.assertion, later) THEN r.assertion.who ELSE None
      [] OTHER                 -> None

-----------------------------------------------------------------------------
\* Policy and credentials.

AllowedByGroups(who, tool) ==
    \E g \in GroupsOf[who] \cap DOMAIN ToolPolicy :
        AllTools \in ToolPolicy[g] \/ tool \in ToolPolicy[g]

\* authorize_tool: the mode only takes away from what the groups grant.
Authorized(who, m, tool) == AllowedByGroups(who, tool) /\ tool \notin Hidden[m]

Before(g, h) == \/ Profiles[g].priority < Profiles[h].priority
                \/ Profiles[g].priority = Profiles[h].priority /\ Profiles[g].rank <= Profiles[h].rank

\* Mutant: a profile without keys gives way to the gateway's own.
KeyOrOwn(who) ==
    LET groups == GroupsOf[who] \cap DOMAIN Profiles
        key    == IF groups = {} THEN None
                  ELSE Profiles[CHOOSE g \in groups : \A h \in groups : Before(g, h)].key
    IN IF ~BrokerEnabled \/ key = None THEN OwnKey ELSE key

\* select_xsiam_credentials: the key, or None for a CredentialBrokerError.
Key(who) ==
    LET groups == GroupsOf[who] \cap DOMAIN Profiles
    IN IF ~BrokerEnabled THEN OwnKey
       ELSE IF groups = {} THEN None
       ELSE Profiles[CHOOSE g \in groups : \A h \in groups : Before(g, h)].key

-----------------------------------------------------------------------------
\* The steps of a call.

Idle == [pc |-> "idle"]
Init ==
    /\ now = 0 /\ count = 0 /\ cancels = 0
    /\ nonces = {}
    /\ mode = [p \in Principals |-> "unset"]
    /\ calls = [c \in Slots |-> Idle]
    /\ audit = {} /\ steps = {} /\ acted = {}
    /\ accepted = [a \in Assertions |-> [within |-> 0, across |-> 0]]

Goto(c, pc) == calls' = [calls EXCEPT ![c].pc = pc]
Reply(c, reply) == calls' = [calls EXCEPT ![c].pc = "done", ![c].reply = reply]

\* A result or an exception of the handler goes to the end event.
Ends(c, outcome) == calls' = [calls EXCEPT ![c].pc = "end", ![c].outcome = outcome]

Event(call, phase, outcome) ==
    [id |-> call.id, phase |-> phase, outcome |-> outcome, mode |-> call.mode]

\* IdentityMiddleware: a request is delivered, perhaps not for the first time.
Arrive(c) ==
    /\ calls[c].pc \in {"idle", "done"}
    /\ count < MaxCalls
    /\ count' = count + 1
    /\ \E r \in Requests : \E later \in Readings(r) :
          LET who == Principal(r, later)
          IN  /\ now' = later
              /\ calls' = [calls EXCEPT ![c] =
                    [pc |-> IF who = None THEN "done" ELSE "enter", id |-> count, tool |-> r.tool,
                     who |-> who, mode |-> "unset", outcome |-> None,
                     reply |-> IF who = None THEN "unauthenticated" ELSE None]]
              /\ IF Consulted(r)
                 THEN nonces' = Remember(r.assertion, later) /\ accepted' = Accept(r.assertion, later)
                 ELSE UNCHANGED <<nonces, accepted>>
    /\ UNCHANGED <<mode, logs, cancels>>

\* The policy middleware and begin_tool_call, once the start event is out.
Admit(c, call) ==
    IF Authorized(call.who, call.mode, call.tool)
    THEN /\ steps' = steps \cup {call.id}
         /\ calls' = [calls EXCEPT ![c] = [call EXCEPT !.pc = "handler"]]
    ELSE /\ calls' = [calls EXCEPT ![c] = [call EXCEPT !.pc = "end", !.outcome = "denied"]]
         /\ UNCHANGED steps

\* enter_engagement_scope: the session's mode, or unset when it cannot be read.
Enter(c) ==
    /\ calls[c].pc = "enter"
    /\ \E m \in {mode[calls[c].who], "unset"} :
          LET call == [calls[c] EXCEPT !.mode = m]
          IN IF StartEvents
             THEN /\ calls' = [calls EXCEPT ![c] = [call EXCEPT !.pc = "start"]]
                  /\ UNCHANGED steps
             ELSE Admit(c, call)
    /\ UNCHANGED <<now, nonces, mode, audit, acted, accepted, count, cancels>>

\* Mutant: a start event that was not exported is let pass.
StartAuditedAnyway(c) ==
    /\ calls[c].pc = "start"
    /\ \/ audit' = audit \cup {Event(calls[c], "start", "started")}
       \/ UNCHANGED audit
    /\ Admit(c, calls[c])
    /\ UNCHANGED <<now, nonces, mode, acted, accepted, count, cancels>>

\* emit_audit_event for the start event; fail-closed, its failure ends the call.
StartAudited(c) ==
    /\ calls[c].pc = "start"
    /\ \/ /\ audit' = audit \cup {Event(calls[c], "start", "started")}
          /\ Admit(c, calls[c])
       \/ /\ ~FailClosed /\ Admit(c, calls[c])
          /\ UNCHANGED audit
       \/ /\ FailClosed /\ Reply(c, "audit_error")
          /\ UNCHANGED <<audit, steps>>
    /\ UNCHANGED <<now, nonces, mode, acted, accepted, count, cancels>>

Acts(c, key) == acted' = acted \cup {[id |-> calls[c].id, tool |-> calls[c].tool, who |-> calls[c].who,
                                       mode |-> calls[c].mode, key |-> key]}

\* Mutant: the tool is checked again with the mode the session has by now.
SendInSessionMode(c) ==
    /\ calls[c].pc = "handler" /\ calls[c].tool # "set_engagement"
    /\ Key(calls[c].who) # None
    /\ Acts(c, Key(calls[c].who))
    /\ calls' = [calls EXCEPT ![c].pc = "xsiam", ![c].mode = mode[calls[c].who]]
    /\ UNCHANGED <<now, nonces, mode, audit, steps, accepted, count, cancels>>

\* A handler that asks XSIAM: get_fetcher selects the key, the request leaves.
Send(c) ==
    /\ calls[c].pc = "handler" /\ calls[c].tool # "set_engagement"
    /\ Key(calls[c].who) # None
    /\ Acts(c, Key(calls[c].who))
    /\ Goto(c, "xsiam")
    /\ UNCHANGED <<now, nonces, mode, audit, steps, accepted, count, cancels>>

\* No usable profile: CredentialBrokerError before any request.
NoCredential(c) ==
    /\ calls[c].pc = "handler" /\ calls[c].tool # "set_engagement"
    /\ Key(calls[c].who) = None
    /\ Ends(c, "error")
    /\ UNCHANGED <<now, nonces, mode, logs, accepted, count, cancels>>

\* XSIAM answers and the handler returns a result, a refusal of its own or an
\* error: the client raises one of its errors on all but a 2xx with JSON.
Answered(c) ==
    /\ calls[c].pc = "xsiam"
    /\ \E outcome \in {"success", "error", "denied"} : Ends(c, outcome)
    /\ UNCHANGED <<now, nonces, mode, logs, accepted, count, cancels>>

\* set_engagement: the session and the scope of its own call take the mode.
SetEngagement(c) ==
    /\ calls[c].pc = "handler" /\ calls[c].tool = "set_engagement"
    /\ \E m \in Modes \ {"unset"} :
          /\ mode' = [mode EXCEPT ![calls[c].who] = m]
          /\ calls' = [calls EXCEPT ![c].pc = "end", ![c].outcome = "success", ![c].mode = m]
    /\ Acts(c, None)
    /\ UNCHANGED <<now, nonces, audit, steps, accepted, count, cancels>>

\* emit_audit_event for the end event, then the answer; fail-closed, a failed
\* export replaces the result or the exception.
EndAudited(c) ==
    /\ calls[c].pc = "end"
    /\ \/ /\ audit' = audit \cup {Event(calls[c], "end", calls[c].outcome)}
          /\ Reply(c, calls[c].outcome)
       \/ /\ Reply(c, IF FailClosed THEN "audit_error" ELSE calls[c].outcome)
          /\ UNCHANGED audit
    /\ UNCHANGED <<now, nonces, mode, steps, acted, accepted, count, cancels>>

\* The client gives up at an await: only the finally block runs.
Cancel(c) ==
    /\ calls[c].pc \in {"enter", "start", "handler", "xsiam", "end"}
    /\ cancels < MaxCancels
    /\ cancels' = cancels + 1
    /\ Reply(c, "cancelled")
    /\ UNCHANGED <<now, nonces, mode, logs, accepted, count>>

Tick ==
    /\ now < MaxTime
    /\ now' = now + 1
    /\ UNCHANGED <<nonces, mode, calls, logs, accepted, count, cancels>>

Step(c) ==
    \/ Enter(c) \/ StartAudited(c) \/ Send(c) \/ NoCredential(c)
    \/ Answered(c) \/ SetEngagement(c) \/ EndAudited(c)

Next == (\E c \in Slots : Arrive(c) \/ Step(c) \/ Cancel(c)) \/ Tick
Spec == Init /\ [][Next]_vars

-----------------------------------------------------------------------------
Exported(id, phase) == {e \in audit : e.id = id /\ e.phase = phase}
Begun == {c \in Slots : calls[c].pc # "idle"}

\* The nonce cache stays within its size, holds no two entries for one
\* nonce of a principal, and every call is at one of its awaits or answered.
TypeOK ==
    /\ Cardinality(nonces) <= Max({NonceCacheSize, 1})
    /\ \A n, o \in nonces : n.key = o.key => n = o
    /\ mode \in [Principals -> Modes]
    /\ \A c \in Slots : calls[c].pc \in {"idle", "enter", "start", "handler", "xsiam", "end", "done"}

\* A signed assertion is accepted once, however often and whenever it is delivered: while it is
\* within the skew its nonce is remembered, and a cache without room refuses.  One more
\* acceptance is possible, and no third: when it expires between the two readings of
\* the clock of one verification, its own entry is dropped before it is looked for.
AssertionSpent == \A a \in DOMAIN accepted : accepted[a].within <= 1 /\ accepted[a].across <= 1

\* The same without that exception: a replayed nonce is rejected.
AssertionOnce == \A a \in DOMAIN accepted : accepted[a].within + accepted[a].across <= 1

\* With AUDIT_LOG_FAIL_CLOSED nothing is sent to XSIAM or written to a session
\* before the call's start event is exported, and no caller is told of a
\* result whose end event is not.
AuditFailsClosed ==
    FailClosed =>
        /\ StartEvents => \A a \in acted : Exported(a.id, "start") # {}
        /\ \A c \in Begun : calls[c].reply \in {"success", "error", "denied"} =>
                               Exported(calls[c].id, "end") # {}

\* The audit events, the policy decision, the learner's step and the tool of one
\* call go by one engagement mode, whatever other calls do to the session meanwhile; only
\* set_engagement is audited at its end with the mode it set.
OneModePerCall ==
    /\ \A e, f \in audit : e.id = f.id /\ e.mode # f.mode =>
            \E a \in acted : a.id = e.id /\ a.tool = "set_engagement"
    /\ \A a \in acted : a.tool # "set_engagement" =>
            /\ Authorized(a.who, a.mode, a.tool)
            /\ \A e \in audit : e.id = a.id => e.mode = a.mode
    /\ \A c \in Begun : calls[c].id \in steps => Authorized(calls[c].who, calls[c].mode, calls[c].tool)

\* With the credential broker on, every request to XSIAM carries the key of
\* the caller's first profile, never the gateway's own.
KeysAreBrokered ==
    BrokerEnabled =>
        \A a \in acted : a.key # None =>
            /\ a.key # OwnKey
            /\ \E g \in GroupsOf[a.who] \cap DOMAIN Profiles :
                  /\ Profiles[g].key = a.key
                  /\ \A h \in GroupsOf[a.who] \cap DOMAIN Profiles : Before(g, h)
===============================================================================
