--------------------------- MODULE GatewayCallProofs ---------------------------
(***************************************************************************)
(* Proofs about GatewayCall for every number of slots, deliveries and      *)
(* seconds, every policy and every size of the nonce cache.                *)
(***************************************************************************)
EXTENDS GatewayCall, FiniteSetTheorems, WellFoundedInduction, TLAPS

(***************************************************************************)
(* An assertion is accepted once while it lasts, and once as it expires.   *)
(***************************************************************************)

Expired(a) == now > Expiry(a)

\* Whoever was accepted is still remembered, or too old to be accepted again.
Spent(a) ==
    \/ Expired(a)
    \/ \E n \in nonces : n.key = NonceKey(a) /\ n.expiry = Expiry(a)

OnceInv ==
    /\ now \in Nat
    /\ accepted \in [Assertions -> [within : {0, 1}, across : {0, 1}]]
    /\ \A a \in Assertions \ {None} :
          /\ accepted[a].within = 1 => Spent(a)
          /\ accepted[a].across = 1 => Expired(a)

LEMMA OnceInit == Init => OnceInv
BY DEF Init, OnceInv

\* A request by assertion carries one.
LEMMA AssertionOf ==
    ASSUME NEW r \in Requests, ByAssertion(r)
    PROVE  r.assertion \in Assertions \ {None}
BY DEF ByAssertion, Assertions

LEMMA ExpiryType ==
    ASSUME NEW a \in Assertions \ {None}
    PROVE  a.time \in Int /\ Skew \in Nat /\ Expiry(a) \in Int
BY GatewayAssumption DEF Expiry

\* What is trusted has not expired, so it was not accepted as it expired.
LEMMA TrustedLasts ==
    ASSUME OnceInv, NEW a \in Assertions \ {None}, Trusted(a)
    PROVE  ~Expired(a) /\ accepted[a].across = 0
<1>1. a.time \in Int /\ Skew \in Nat /\ now \in Nat
  BY ExpiryType DEF OnceInv
<1>2. ~Expired(a)
  BY <1>1 DEF Trusted, Absolute, Expired, Expiry
<1> QED BY <1>2 DEF OnceInv

\* What verifies before it expires was not accepted before.
LEMMA NewVerifies ==
    ASSUME OnceInv, NEW a \in Assertions \ {None}, NEW later \in Nat,
           Verifies(a, later), ~(later > Expiry(a))
    PROVE  accepted[a].within = 0
<1> SUFFICES ASSUME accepted[a].within = 1 PROVE FALSE
  BY DEF OnceInv
<1>1. ~Expired(a)
  BY TrustedLasts DEF Verifies
<1>2. PICK n \in nonces : n.key = NonceKey(a) /\ n.expiry = Expiry(a)
  BY <1>1 DEF OnceInv, Spent
<1>3. n \in Live(nonces, later)
  BY <1>2, ExpiryType DEF Live
<1> QED BY <1>2, <1>3 DEF Verifies

\* Delivering an assertion forgets no nonce that still counts at the later reading.
LEMMA RememberKeeps ==
    ASSUME OnceInv, NEW a \in Assertions \ {None}, NEW b, NEW later \in Nat, later >= now,
           Spent(a), nonces' = Remember(b, later), now' = later
    PROVE  Spent(a)'
<1>1. Expiry(a) \in Int /\ now \in Nat
  BY ExpiryType DEF OnceInv
<1>2. CASE later > Expiry(a)
  BY <1>2 DEF Spent, Expired, Expiry
<1>3. CASE ~(later > Expiry(a))
  <2>1. ~Expired(a)
    BY <1>1, <1>3 DEF Expired
  <2>2. PICK n \in nonces : n.key = NonceKey(a) /\ n.expiry = Expiry(a)
    BY <2>1 DEF Spent
  <2>3. n \in nonces'
    BY <1>1, <1>3, <2>2 DEF Remember, Live
  <2> QED BY <2>2, <2>3 DEF Spent, NonceKey, Expiry
<1> QED BY <1>2, <1>3

\* The clock does not go back between the two readings.
LEMMA ReadingsAscend ==
    ASSUME NEW r \in Requests, now \in Nat, NEW later \in Readings(r)
    PROVE  later \in Nat /\ later >= now
BY GatewayAssumption DEF Readings

\* How the count of an assertion changes with its delivery.
LEMMA AcceptCounts ==
    ASSUME OnceInv, NEW b \in Assertions \ {None}, Trusted(b), NEW later \in Nat,
           accepted' = Accept(b, later)
    PROVE  /\ accepted' \in [Assertions -> [within : {0, 1}, across : {0, 1}]]
           /\ \A a \in Assertions \ {None} :
                 /\ accepted'[a].within = 1 =>
                        accepted[a].within = 1 \/ (a = b /\ Verifies(b, later))
                 /\ accepted'[a].across = 1 =>
                        accepted[a].across = 1 \/ (a = b /\ later > Expiry(b))
<1>1. accepted[b].across = 0
  BY TrustedLasts
<1>2. CASE ~Verifies(b, later)
  BY <1>2 DEF Accept, OnceInv
<1>3. CASE Verifies(b, later) /\ later > Expiry(b)
  <2>1. accepted' = [accepted EXCEPT ![b] = [accepted[b] EXCEPT !.across = 1]]
    BY <1>1, <1>3 DEF Accept, OnceInv
  <2> QED BY <1>3, <2>1 DEF OnceInv
<1>4. CASE Verifies(b, later) /\ ~(later > Expiry(b))
  <2>1. accepted[b].within = 0
    BY <1>4, NewVerifies
  <2>2. accepted' = [accepted EXCEPT ![b] = [accepted[b] EXCEPT !.within = 1]]
    BY <1>4, <2>1 DEF Accept, OnceInv
  <2> QED BY <1>4, <2>2 DEF OnceInv
<1> QED BY <1>2, <1>3, <1>4

LEMMA ArriveOnce ==
    ASSUME OnceInv, NEW c \in Slots, Arrive(c)
    PROVE  OnceInv'
<1>1. PICK r \in Requests : \E later \in Readings(r) :
          /\ now' = later
          /\ IF Consulted(r)
             THEN nonces' = Remember(r.assertion, later) /\ accepted' = Accept(r.assertion, later)
             ELSE UNCHANGED <<nonces, accepted>>
  BY DEF Arrive
<1>2. PICK later \in Readings(r) :
          /\ now' = later
          /\ IF Consulted(r)
             THEN nonces' = Remember(r.assertion, later) /\ accepted' = Accept(r.assertion, later)
             ELSE UNCHANGED <<nonces, accepted>>
  BY <1>1
<1>3. now \in Nat /\ later \in Nat /\ later >= now
  BY ReadingsAscend DEF OnceInv
<1>4. CASE ~Consulted(r)
  <2>1. now' = now
    BY <1>2, <1>4 DEF Readings
  <2> QED BY <1>2, <1>4, <2>1 DEF OnceInv, Spent, Expired
<1>5. CASE Consulted(r)
  <2> DEFINE b == r.assertion
  <2>1. b \in Assertions \ {None} /\ Trusted(b)
    BY <1>5, AssertionOf DEF Consulted
  <2>2. nonces' = Remember(b, later) /\ accepted' = Accept(b, later)
    BY <1>2, <1>5
  <2> HIDE DEF b
  <2>3. /\ accepted' \in [Assertions -> [within : {0, 1}, across : {0, 1}]]
        /\ \A a \in Assertions \ {None} :
              /\ accepted'[a].within = 1 => accepted[a].within = 1 \/ (a = b /\ Verifies(b, later))
              /\ accepted'[a].across = 1 => accepted[a].across = 1 \/ (a = b /\ later > Expiry(b))
    BY <1>3, <2>1, <2>2, AcceptCounts
  <2>4. ASSUME NEW a \in Assertions \ {None}, accepted'[a].within = 1
        PROVE  Spent(a)'
    <3>1. CASE accepted[a].within = 1
      <4>1. Spent(a)
        BY <3>1 DEF OnceInv
      <4> QED BY <1>2, <1>3, <2>2, <4>1, RememberKeeps
    <3>2. CASE accepted[a].within # 1
      <4>1. a = b /\ Verifies(b, later)
        BY <2>3, <2>4, <3>2
      <4>2. [key |-> NonceKey(b), expiry |-> Expiry(b)] \in nonces'
        BY <2>2, <4>1 DEF Remember
      <4> QED BY <4>1, <4>2 DEF Spent, NonceKey, Expiry
    <3> QED BY <3>1, <3>2
  <2>5. ASSUME NEW a \in Assertions \ {None}, accepted'[a].across = 1
        PROVE  Expired(a)'
    <3>1. Expired(a) \/ later > Expiry(a)
      BY <2>3, <2>5 DEF OnceInv
    <3> QED BY <1>2, <1>3, <3>1, ExpiryType DEF Expired, Expiry
  <2> QED BY <1>2, <1>3, <2>3, <2>4, <2>5 DEF OnceInv
<1> QED BY <1>4, <1>5

\* Time only makes an assertion older.
LEMMA TickOnce ==
    ASSUME OnceInv, Tick
    PROVE  OnceInv'
<1>1. now \in Nat /\ now' = now + 1 /\ UNCHANGED <<nonces, accepted>>
  BY DEF Tick, OnceInv
<1>2. ASSUME NEW a \in Assertions \ {None}
      PROVE  (Expired(a) => Expired(a)') /\ (Spent(a) => Spent(a)')
  <2>1. Expired(a) => Expired(a)'
    BY <1>1, ExpiryType DEF Expired, Expiry
  <2> QED BY <1>1, <2>1 DEF Spent, NonceKey, Expiry
<1> QED BY <1>1, <1>2 DEF OnceInv

LEMMA OnceStep == OnceInv /\ [Next]_vars => OnceInv'
<1> SUFFICES ASSUME OnceInv, [Next]_vars PROVE OnceInv'
  OBVIOUS
<1>1. CASE \E c \in Slots : Arrive(c)
  BY <1>1, ArriveOnce
<1>2. CASE Tick
  BY <1>2, TickOnce
<1>3. CASE UNCHANGED <<now, nonces, accepted>>
  BY <1>3 DEF OnceInv, Spent, Expired
<1>4. ASSUME NEW c \in Slots, Step(c) \/ Cancel(c)
      PROVE  UNCHANGED <<now, nonces, accepted>>
  BY <1>4 DEF Step, Cancel, Enter, StartAudited, Send, NoCredential, Answered,
              SetEngagement, EndAudited
<1> QED BY <1>1, <1>2, <1>3, <1>4 DEF Next, vars

\* A signed assertion is accepted at most once while it is within the skew, and at most once
\* more as it expires between the two readings of the clock (verify_gateway_headers).
THEOREM AssertionsSpent == Spec => []AssertionSpent
<1>1. OnceInv => AssertionSpent
  BY DEF OnceInv, AssertionSpent
<1> QED BY <1>1, OnceInit, OnceStep, PTL DEF Spec

(***************************************************************************)
(* The records of calls.                                                   *)
(***************************************************************************)

Phases   == {"enter", "start", "handler", "xsiam", "end", "done"}
Outcomes == {"success", "error", "denied"}
Replies  == Outcomes \cup {None, "unauthenticated", "audit_error", "cancelled"}
Call     == [pc : Phases, id : Nat, tool : {r.tool : r \in Requests}, who : Principals \cup {None},
             mode : Modes, outcome : Outcomes \cup {None}, reply : Replies]
Events   == [id : Nat, phase : {"start", "end"}, outcome : Outcomes \cup {"started", None}, mode : Modes]

\* Every call that has begun has a record, with a principal while it runs.
CallsInv ==
    /\ count \in Nat
    /\ mode \in [Principals -> Modes]
    /\ calls \in [Slots -> {Idle} \cup Call]
    /\ \A c \in Begun : calls[c].pc # "done" => calls[c].who \in Principals

LEMMA Record ==
    ASSUME CallsInv, NEW c \in Slots, calls[c].pc # "idle"
    PROVE  calls[c] \in Call /\ c \in Begun
BY DEF CallsInv, Idle, Begun

\* A step of a call c that stays in its slot: it goes to phase p with a mode and a
\* reply; its identifier, tool and principal stay, and so does every other call.
Moves(c, p, m, reply) ==
    /\ c \in Begun /\ calls[c].pc # "done" /\ calls[c] \in Call
    /\ calls' \in [Slots -> {Idle} \cup Call]
    /\ \A d \in Slots \ {c} : calls'[d] = calls[d]
    /\ calls'[c] \in Call
    /\ calls'[c].pc = p /\ calls'[c].mode = m /\ calls'[c].reply = reply
    /\ calls'[c].id = calls[c].id /\ calls'[c].tool = calls[c].tool /\ calls'[c].who = calls[c].who

LEMMA Replaced ==
    ASSUME CallsInv, NEW c \in Slots, calls[c].pc \notin {"idle", "done"},
           NEW new \in Call, calls' = [calls EXCEPT ![c] = new],
           new.id = calls[c].id, new.tool = calls[c].tool, new.who = calls[c].who
    PROVE  Moves(c, new.pc, new.mode, new.reply)
BY Record DEF CallsInv, Moves

LEMMA GotoMoves ==
    ASSUME CallsInv, NEW c \in Slots, calls[c].pc \notin {"idle", "done"},
           NEW p \in Phases, Goto(c, p)
    PROVE  Moves(c, p, calls[c].mode, calls[c].reply)
<1> DEFINE new == [calls[c] EXCEPT !.pc = p]
<1>1. calls[c] \in Call
  BY Record
<1>2. /\ new \in Call /\ new.pc = p /\ new.mode = calls[c].mode /\ new.reply = calls[c].reply
      /\ new.id = calls[c].id /\ new.tool = calls[c].tool /\ new.who = calls[c].who
  BY <1>1 DEF Call
<1>3. calls' = [calls EXCEPT ![c] = new]
  BY DEF Goto
<1> HIDE DEF new
<1>4. Moves(c, new.pc, new.mode, new.reply)
  BY <1>2, <1>3, Replaced
<1> QED BY <1>2, <1>4

LEMMA ReplyMoves ==
    ASSUME CallsInv, NEW c \in Slots, calls[c].pc \notin {"idle", "done"},
           NEW reply \in Replies, Reply(c, reply)
    PROVE  Moves(c, "done", calls[c].mode, reply)
<1> DEFINE new == [calls[c] EXCEPT !.pc = "done", !.reply = reply]
<1>1. calls[c] \in Call
  BY Record
<1>2. /\ new \in Call /\ new.pc = "done" /\ new.mode = calls[c].mode /\ new.reply = reply
      /\ new.id = calls[c].id /\ new.tool = calls[c].tool /\ new.who = calls[c].who
  BY <1>1 DEF Call, Phases
<1>3. calls' = [calls EXCEPT ![c] = new]
  BY DEF Reply, CallsInv
<1> HIDE DEF new
<1>4. Moves(c, new.pc, new.mode, new.reply)
  BY <1>2, <1>3, Replaced
<1> QED BY <1>2, <1>4

LEMMA EndsMoves ==
    ASSUME CallsInv, NEW c \in Slots, calls[c].pc \notin {"idle", "done"},
           NEW outcome \in Outcomes, Ends(c, outcome)
    PROVE  Moves(c, "end", calls[c].mode, calls[c].reply)
<1> DEFINE new == [calls[c] EXCEPT !.pc = "end", !.outcome = outcome]
<1>1. calls[c] \in Call
  BY Record
<1>2. /\ new \in Call /\ new.pc = "end" /\ new.mode = calls[c].mode /\ new.reply = calls[c].reply
      /\ new.id = calls[c].id /\ new.tool = calls[c].tool /\ new.who = calls[c].who
  BY <1>1 DEF Call, Phases
<1>3. calls' = [calls EXCEPT ![c] = new]
  BY DEF Ends, CallsInv
<1> HIDE DEF new
<1>4. Moves(c, new.pc, new.mode, new.reply)
  BY <1>2, <1>3, Replaced
<1> QED BY <1>2, <1>4

\* The policy decision on a call whose mode is settled.
Decided(c, m) ==
    \/ /\ Authorized(calls[c].who, m, calls[c].tool)
       /\ Moves(c, "handler", m, calls[c].reply)
       /\ steps' = steps \cup {calls[c].id}
    \/ Moves(c, "end", m, calls[c].reply) /\ UNCHANGED steps

LEMMA AdmitDecides ==
    ASSUME CallsInv, NEW c \in Slots, calls[c].pc \notin {"idle", "done"}, NEW call \in Call,
           call.id = calls[c].id, call.tool = calls[c].tool, call.who = calls[c].who,
           call.reply = calls[c].reply, Admit(c, call)
    PROVE  Decided(c, call.mode)
<1>1. CASE Authorized(call.who, call.mode, call.tool)
  <2> DEFINE new == [call EXCEPT !.pc = "handler"]
  <2>1. /\ new \in Call /\ new.pc = "handler" /\ new.mode = call.mode /\ new.reply = call.reply
        /\ new.id = call.id /\ new.tool = call.tool /\ new.who = call.who
    BY DEF Call, Phases
  <2>2. calls' = [calls EXCEPT ![c] = new] /\ steps' = steps \cup {calls[c].id}
    BY <1>1 DEF Admit
  <2> HIDE DEF new
  <2>3. Moves(c, new.pc, new.mode, new.reply)
    BY <2>1, <2>2, Replaced
  <2> QED BY <1>1, <2>1, <2>2, <2>3 DEF Decided
<1>2. CASE ~Authorized(call.who, call.mode, call.tool)
  <2> DEFINE new == [call EXCEPT !.pc = "end", !.outcome = "denied"]
  <2>1. /\ new \in Call /\ new.pc = "end" /\ new.mode = call.mode /\ new.reply = call.reply
        /\ new.id = call.id /\ new.tool = call.tool /\ new.who = call.who
    BY DEF Call, Phases, Outcomes
  <2>2. calls' = [calls EXCEPT ![c] = new] /\ UNCHANGED steps
    BY <1>2 DEF Admit
  <2> HIDE DEF new
  <2>3. Moves(c, new.pc, new.mode, new.reply)
    BY <2>1, <2>2, Replaced
  <2> QED BY <2>1, <2>2, <2>3 DEF Decided
<1> QED BY <1>1, <1>2

(***************************************************************************)
(* What a step of a call does to its record and to the logs.               *)
(***************************************************************************)

\* The engagement scope of the call is entered.
Settles(c) ==
    /\ calls[c].pc = "enter"
    /\ UNCHANGED <<audit, acted>>
    /\ \E m \in Modes : \/ Moves(c, "start", m, calls[c].reply) /\ UNCHANGED steps
                        \/ ~StartEvents /\ Decided(c, m)

\* Its start event is exported or not.
Announces(c) ==
    /\ calls[c].pc = "start"
    /\ UNCHANGED acted
    /\ \/ audit' = audit \cup {Event(calls[c], "start", "started")} /\ Decided(c, calls[c].mode)
       \/ UNCHANGED audit /\ ~FailClosed /\ Decided(c, calls[c].mode)
       \/ UNCHANGED <<audit, steps>> /\ Moves(c, "done", calls[c].mode, "audit_error")

\* Its request leaves for XSIAM.
Sends(c) ==
    /\ calls[c].pc = "handler" /\ calls[c].tool # "set_engagement"
    /\ Moves(c, "xsiam", calls[c].mode, calls[c].reply)
    /\ \E key : Acts(c, key)
    /\ UNCHANGED <<audit, steps>>

\* It sets the mode of its session and of itself.
Sets(c) ==
    /\ calls[c].pc = "handler" /\ calls[c].tool = "set_engagement"
    /\ \E m \in Modes : Moves(c, "end", m, calls[c].reply)
    /\ Acts(c, None)
    /\ UNCHANGED <<audit, steps>>

\* Its end event is exported or not, and its caller is answered.
Finishes(c) ==
    /\ calls[c].pc = "end"
    /\ UNCHANGED <<acted, steps>>
    /\ \E outcome, reply : /\ Moves(c, "done", calls[c].mode, reply)
                          /\ \/ audit' = audit \cup {Event(calls[c], "end", outcome)}
                             \/ UNCHANGED audit /\ (FailClosed => reply = "audit_error")

\* Its handler ends, or its client gives up.
Passes(c) ==
    /\ UNCHANGED logs
    /\ \/ /\ calls[c].pc \in {"handler", "xsiam"}
          /\ Moves(c, "end", calls[c].mode, calls[c].reply)
       \/ Moves(c, "done", calls[c].mode, "cancelled")

LEMMA EnterSettles ==
    ASSUME CallsInv, NEW c \in Slots, Enter(c)
    PROVE  Settles(c)
<1>1. calls[c].pc = "enter" /\ calls[c] \in Call /\ c \in Begun
  BY Record DEF Enter
<1>2. mode[calls[c].who] \in Modes /\ "unset" \in Modes
  BY <1>1, GatewayAssumption DEF CallsInv
<1>3. PICK m \in Modes :
         LET call == [calls[c] EXCEPT !.mode = m]
         IN IF StartEvents
            THEN calls' = [calls EXCEPT ![c] = [call EXCEPT !.pc = "start"]] /\ UNCHANGED steps
            ELSE Admit(c, call)
  BY <1>2 DEF Enter
<1> DEFINE call == [calls[c] EXCEPT !.mode = m]
           new  == [call EXCEPT !.pc = "start"]
<1>4. /\ call \in Call /\ call.mode = m /\ call.reply = calls[c].reply
      /\ call.id = calls[c].id /\ call.tool = calls[c].tool /\ call.who = calls[c].who
  BY <1>1 DEF Call
<1>5. IF StartEvents THEN calls' = [calls EXCEPT ![c] = new] /\ UNCHANGED steps ELSE Admit(c, call)
  BY <1>3
<1> HIDE DEF call
<1>6. /\ new \in Call /\ new.pc = "start" /\ new.mode = m /\ new.reply = calls[c].reply
      /\ new.id = calls[c].id /\ new.tool = calls[c].tool /\ new.who = calls[c].who
  BY <1>4 DEF Call, Phases
<1> HIDE DEF new
<1>7. CASE StartEvents
  <2>1. Moves(c, new.pc, new.mode, new.reply)
    BY <1>1, <1>5, <1>6, <1>7, Replaced
  <2> QED BY <1>1, <1>5, <1>6, <1>7, <2>1 DEF Settles, Enter
<1>8. CASE ~StartEvents
  <2>1. Decided(c, call.mode)
    BY <1>1, <1>4, <1>5, <1>8, AdmitDecides
  <2> QED BY <1>1, <1>4, <1>8, <2>1 DEF Settles, Enter
<1> QED BY <1>7, <1>8

LEMMA StartAnnounces ==
    ASSUME CallsInv, NEW c \in Slots, StartAudited(c)
    PROVE  Announces(c)
<1>1. calls[c].pc = "start" /\ calls[c] \in Call
  BY Record DEF StartAudited
<1>2. Admit(c, calls[c]) => Decided(c, calls[c].mode)
  BY <1>1, AdmitDecides
<1>3. Reply(c, "audit_error") => Moves(c, "done", calls[c].mode, "audit_error")
  BY <1>1, ReplyMoves DEF Replies
<1> QED BY <1>1, <1>2, <1>3 DEF StartAudited, Announces

LEMMA SendSends ==
    ASSUME CallsInv, NEW c \in Slots, Send(c)
    PROVE  Sends(c)
<1>1. Moves(c, "xsiam", calls[c].mode, calls[c].reply)
  BY GotoMoves DEF Send, Phases
<1> QED BY <1>1 DEF Send, Sends

LEMMA SetSets ==
    ASSUME CallsInv, NEW c \in Slots, SetEngagement(c)
    PROVE  Sets(c) /\ mode' \in [Principals -> Modes]
<1>1. calls[c].pc = "handler" /\ calls[c] \in Call
  BY Record DEF SetEngagement
<1>2. PICK m \in Modes :
         /\ mode' = [mode EXCEPT ![calls[c].who] = m]
         /\ calls' = [calls EXCEPT ![c] = [calls[c] EXCEPT !.pc = "end", !.outcome = "success", !.mode = m]]
  BY <1>1 DEF SetEngagement, CallsInv
<1> DEFINE new == [calls[c] EXCEPT !.pc = "end", !.outcome = "success", !.mode = m]
<1>3. /\ new \in Call /\ new.pc = "end" /\ new.mode = m /\ new.reply = calls[c].reply
      /\ new.id = calls[c].id /\ new.tool = calls[c].tool /\ new.who = calls[c].who
  BY <1>1 DEF Call, Phases, Outcomes
<1>4. calls' = [calls EXCEPT ![c] = new]
  BY <1>2
<1> HIDE DEF new
<1>5. Moves(c, new.pc, new.mode, new.reply)
  BY <1>1, <1>3, <1>4, Replaced
<1>6. mode' \in [Principals -> Modes]
  BY <1>2 DEF CallsInv
<1> QED BY <1>1, <1>3, <1>5, <1>6 DEF Sets, SetEngagement

LEMMA EndFinishes ==
    ASSUME CallsInv, NEW c \in Slots, EndAudited(c)
    PROVE  Finishes(c)
<1>1. calls[c].pc = "end" /\ calls[c] \in Call
  BY Record DEF EndAudited
<1>2. calls[c].outcome \in Replies /\ "audit_error" \in Replies
  BY <1>1 DEF Call, Replies
<1>3. \A reply \in Replies : Reply(c, reply) => Moves(c, "done", calls[c].mode, reply)
  BY <1>1, ReplyMoves
<1> QED BY <1>1, <1>2, <1>3 DEF EndAudited, Finishes

LEMMA OthersPass ==
    ASSUME CallsInv, NEW c \in Slots, NoCredential(c) \/ Answered(c) \/ Cancel(c)
    PROVE  Passes(c)
<1>1. CASE NoCredential(c)
  BY <1>1, EndsMoves DEF NoCredential, Passes, Outcomes
<1>2. CASE Answered(c)
  BY <1>2, EndsMoves DEF Answered, Passes, Outcomes
<1>3. CASE Cancel(c)
  BY <1>3, ReplyMoves DEF Cancel, Passes, Replies
<1> QED BY <1>1, <1>2, <1>3

\* One of these is every step of a call after its arrival.
Proceeds(c) == \/ Settles(c) \/ Announces(c) \/ Sends(c) \/ Sets(c) \/ Finishes(c) \/ Passes(c)

LEMMA StepProceeds ==
    ASSUME CallsInv, NEW c \in Slots, Step(c) \/ Cancel(c)
    PROVE  Proceeds(c) /\ count' = count /\ mode' \in [Principals -> Modes]
<1>1. CASE Enter(c)
  BY <1>1, EnterSettles DEF Enter, Proceeds, CallsInv
<1>2. CASE StartAudited(c)
  BY <1>2, StartAnnounces DEF StartAudited, Proceeds, CallsInv
<1>3. CASE Send(c)
  BY <1>3, SendSends DEF Send, Proceeds, CallsInv
<1>4. CASE SetEngagement(c)
  BY <1>4, SetSets DEF SetEngagement, Proceeds
<1>5. CASE EndAudited(c)
  BY <1>5, EndFinishes DEF EndAudited, Proceeds, CallsInv
<1>6. CASE NoCredential(c) \/ Answered(c) \/ Cancel(c)
  BY <1>6, OthersPass DEF NoCredential, Answered, Cancel, Proceeds, CallsInv
<1> QED BY <1>1, <1>2, <1>3, <1>4, <1>5, <1>6 DEF Step

(***************************************************************************)
(* The records stay records.                                               *)
(***************************************************************************)

\* A request delivered takes a free slot under the next identifier.
Arrives(c) ==
    /\ calls[c].pc \in {"idle", "done"}
    /\ count' = count + 1
    /\ UNCHANGED logs
    /\ calls' \in [Slots -> {Idle} \cup Call]
    /\ \A d \in Slots \ {c} : calls'[d] = calls[d]
    /\ calls'[c] \in Call /\ calls'[c].id = count /\ calls'[c].pc \in {"enter", "done"}
    /\ calls'[c].pc # "done" => calls'[c].who \in Principals
    /\ calls'[c].reply \in {None, "unauthenticated"}

LEMMA PrincipalKnown ==
    ASSUME NEW r \in Requests, NEW later
    PROVE  Principal(r, later) \in Principals \cup {None}
BY GatewayAssumption, AssertionOf DEF Principal, ByBearer

LEMMA ArriveArrives ==
    ASSUME CallsInv, NEW c \in Slots, Arrive(c)
    PROVE  Arrives(c) /\ mode' = mode
<1>1. PICK r \in Requests : \E later \in Readings(r) :
         calls' = [calls EXCEPT ![c] =
            [pc |-> IF Principal(r, later) = None THEN "done" ELSE "enter", id |-> count, tool |-> r.tool,
             who |-> Principal(r, later), mode |-> "unset", outcome |-> None,
             reply |-> IF Principal(r, later) = None THEN "unauthenticated" ELSE None]]
  BY DEF Arrive
<1>2. PICK later : calls' = [calls EXCEPT ![c] =
            [pc |-> IF Principal(r, later) = None THEN "done" ELSE "enter", id |-> count, tool |-> r.tool,
             who |-> Principal(r, later), mode |-> "unset", outcome |-> None,
             reply |-> IF Principal(r, later) = None THEN "unauthenticated" ELSE None]]
  BY <1>1
<1> DEFINE new == [pc |-> IF Principal(r, later) = None THEN "done" ELSE "enter", id |-> count, tool |-> r.tool,
                   who |-> Principal(r, later), mode |-> "unset", outcome |-> None,
                   reply |-> IF Principal(r, later) = None THEN "unauthenticated" ELSE None]
<1>3. /\ new \in Call /\ new.id = count /\ new.pc \in {"enter", "done"}
      /\ new.pc # "done" => new.who \in Principals
      /\ new.reply \in {None, "unauthenticated"}
  <2>1. count \in Nat /\ "unset" \in Modes /\ Principal(r, later) \in Principals \cup {None}
    BY PrincipalKnown, GatewayAssumption DEF CallsInv
  <2> QED BY <2>1 DEF Call, Phases, Replies
<1>4. calls' = [calls EXCEPT ![c] = new]
  BY <1>2
<1> HIDE DEF new
<1> QED BY <1>3, <1>4 DEF Arrives, Arrive, CallsInv

LEMMA CallsInit == Init => CallsInv
<1> SUFFICES ASSUME Init PROVE CallsInv
  OBVIOUS
<1>1. mode \in [Principals -> Modes]
  BY GatewayAssumption DEF Init
<1>2. Begun = {}
  BY DEF Init, Idle, Begun
<1> QED BY <1>1, <1>2 DEF Init, CallsInv

LEMMA ProceedsCalls ==
    ASSUME CallsInv, NEW c \in Slots, Proceeds(c), count' = count, mode' \in [Principals -> Modes]
    PROVE  CallsInv'
<1>1. PICK p, m, reply : Moves(c, p, m, reply)
  BY DEF Proceeds, Settles, Announces, Sends, Sets, Finishes, Passes, Decided
<1> QED BY <1>1 DEF CallsInv, Moves, Begun

LEMMA CallsStep == CallsInv /\ [Next]_vars => CallsInv'
<1> SUFFICES ASSUME CallsInv, [Next]_vars PROVE CallsInv'
  OBVIOUS
<1>1. ASSUME NEW c \in Slots, Arrive(c) PROVE CallsInv'
  <2>1. Arrives(c) /\ mode' = mode
    BY <1>1, ArriveArrives
  <2> QED BY <2>1 DEF Arrives, CallsInv, Begun
<1>2. ASSUME NEW c \in Slots, Step(c) \/ Cancel(c) PROVE CallsInv'
  BY <1>2, StepProceeds, ProceedsCalls
<1>3. CASE Tick \/ UNCHANGED vars
  BY <1>3 DEF Tick, vars, CallsInv, Begun
<1> QED BY <1>1, <1>2, <1>3 DEF Next

(***************************************************************************)
(* Identifiers, and what the logs hold of each call.                       *)
(***************************************************************************)

\* Calls have different identifiers, none used in a log before its call began.
IdInv ==
    /\ \A c \in Begun : calls[c].id < count
    /\ \A c, d \in Begun : calls[c].id = calls[d].id => c = d
    /\ \A e \in audit : e.id \in Nat /\ e.id < count
    /\ \A a \in acted : a.id \in Nat /\ a.id < count
    /\ \A i \in steps : i \in Nat /\ i < count

LEMMA IdStep == CallsInv /\ IdInv /\ [Next]_vars => IdInv'
<1> SUFFICES ASSUME CallsInv, IdInv, [Next]_vars PROVE IdInv'
  OBVIOUS
<1>1. ASSUME NEW c \in Slots, Arrive(c) PROVE IdInv'
  <2>1. Arrives(c)
    BY <1>1, ArriveArrives
  <2>2. \A d \in Begun' \ {c} : d \in Begun /\ calls'[d] = calls[d]
    BY <2>1 DEF Arrives, Begun
  <2>3. \A d \in Begun : calls[d].id \in Nat
    BY Record DEF Begun, Call
  <2> QED BY <2>1, <2>2, <2>3 DEF Arrives, logs, IdInv, CallsInv
<1>2. ASSUME NEW c \in Slots, Step(c) \/ Cancel(c) PROVE IdInv'
  <2>1. Proceeds(c) /\ count' = count
    BY <1>2, StepProceeds
  <2>2. PICK p, m, reply : Moves(c, p, m, reply)
    BY <2>1 DEF Proceeds, Settles, Announces, Sends, Sets, Finishes, Passes, Decided
  <2>3. \A d \in Begun' : d \in Begun /\ calls'[d].id = calls[d].id
    BY <2>2 DEF Moves, Begun
  <2>4. calls[c].id \in Nat /\ calls[c].id < count
    BY <2>2 DEF Moves, Call, IdInv
  <2>5. steps' \subseteq steps \cup {calls[c].id}
    BY <2>1 DEF Proceeds, Settles, Announces, Sends, Sets, Finishes, Passes, Decided, logs
  <2>6. \A e \in audit' : e \in audit \/ e.id = calls[c].id
    BY <2>1 DEF Proceeds, Settles, Announces, Sends, Sets, Finishes, Passes, Event, logs
  <2>7. \A a \in acted' : a \in acted \/ a.id = calls[c].id
    BY <2>1 DEF Proceeds, Settles, Announces, Sends, Sets, Finishes, Passes, Acts, logs
  <2> QED BY <2>1, <2>3, <2>4, <2>5, <2>6, <2>7 DEF IdInv
<1>3. CASE Tick \/ UNCHANGED vars
  BY <1>3 DEF Tick, vars, logs, IdInv, Begun
<1> QED BY <1>1, <1>2, <1>3 DEF Next

LEMMA IdInit == Init => IdInv
BY DEF Init, IdInv, Idle, Begun

(***************************************************************************)
(* Fail-closed audit.                                                      *)
(***************************************************************************)

\* An event of a call in a log.
Has(log, id, phase) == \E e \in log : e.id = id /\ e.phase = phase

\* Past its start event a call has one, and what it did is behind that event.
AuditInv ==
    /\ StartEvents => \A c \in Begun : calls[c].pc \in {"handler", "xsiam", "end"} =>
                                         Has(audit, calls[c].id, "start")
    /\ StartEvents => \A a \in acted : Has(audit, a.id, "start")
    /\ \A c \in Begun : calls[c].reply \in Outcomes =>
            calls[c].pc = "done" /\ Has(audit, calls[c].id, "end")

LEMMA AuditInit == Init => AuditInv
BY DEF Init, AuditInv, Idle, Begun

\* The reply and the start event of one step.
LEMMA ProceedsAudited ==
    ASSUME CallsInv, AuditInv, FailClosed, NEW c \in Slots, Proceeds(c)
    PROVE  /\ audit \subseteq audit'
           /\ StartEvents /\ calls'[c].pc \in {"handler", "xsiam", "end"} =>
                  Has(audit', calls[c].id, "start")
           /\ acted' # acted => calls[c].pc = "handler"
           /\ calls'[c].reply \in Outcomes =>
                  calls'[c].pc = "done" /\ Has(audit', calls[c].id, "end")
<1>1. audit \subseteq audit'
  BY DEF Proceeds, Settles, Announces, Sends, Sets, Finishes, Passes, logs
<1>2. calls[c].pc \in {"handler", "xsiam", "end"} /\ StartEvents /\ c \in Begun
        => Has(audit', calls[c].id, "start")
  BY <1>1 DEF AuditInv, Has
<1>3. calls[c].pc # "done" /\ c \in Begun => calls[c].reply \notin Outcomes
  BY DEF AuditInv
<1>4. "audit_error" \notin Outcomes /\ "cancelled" \notin Outcomes
  BY DEF Outcomes
<1>5. CASE Settles(c)
  BY <1>1, <1>3, <1>5 DEF Settles, Decided, Moves
<1>6. CASE Announces(c)
  <2>1. CASE Moves(c, "done", calls[c].mode, "audit_error") /\ UNCHANGED acted
    BY <1>1, <1>4, <2>1 DEF Moves
  <2>2. CASE /\ audit' = audit \cup {Event(calls[c], "start", "started")}
             /\ Decided(c, calls[c].mode) /\ UNCHANGED acted
    <3> DEFINE event == Event(calls[c], "start", "started")
    <3>1. Has(audit', calls[c].id, "start")
      <4>1. event \in audit'
        BY <2>2
      <4>2. event.id = calls[c].id /\ event.phase = "start"
        BY DEF Event
      <4> HIDE DEF event
      <4> QED BY <4>1, <4>2 DEF Has
    <3> QED BY <1>1, <1>3, <2>2, <3>1 DEF Decided, Moves
  <2> QED BY <1>6, <2>1, <2>2 DEF Announces
<1>7. CASE Sends(c)
  BY <1>1, <1>2, <1>3, <1>7 DEF Sends, Moves
<1>8. CASE Sets(c)
  BY <1>1, <1>2, <1>3, <1>8 DEF Sets, Moves
<1>9. CASE Finishes(c)
  <2>1. PICK outcome, reply : /\ Moves(c, "done", calls[c].mode, reply)
                              /\ \/ audit' = audit \cup {Event(calls[c], "end", outcome)}
                                 \/ UNCHANGED audit /\ (FailClosed => reply = "audit_error")
    BY <1>9 DEF Finishes
  <2>2. CASE audit' = audit \cup {Event(calls[c], "end", outcome)}
    <3> DEFINE event == Event(calls[c], "end", outcome)
    <3>1. Has(audit', calls[c].id, "end")
      <4>1. event \in audit'
        BY <2>2
      <4>2. event.id = calls[c].id /\ event.phase = "end"
        BY DEF Event
      <4> HIDE DEF event
      <4> QED BY <4>1, <4>2 DEF Has
    <3> QED BY <1>1, <1>9, <2>1, <3>1 DEF Finishes, Moves
  <2>3. CASE reply = "audit_error"
    BY <1>1, <1>4, <1>9, <2>1, <2>3 DEF Finishes, Moves
  <2> QED BY <2>1, <2>2, <2>3
<1>10. CASE Passes(c)
  BY <1>1, <1>2, <1>3, <1>4, <1>10 DEF Passes, Moves, logs
<1> QED BY <1>5, <1>6, <1>7, <1>8, <1>9, <1>10 DEF Proceeds

LEMMA AuditStep == CallsInv /\ AuditInv /\ FailClosed /\ [Next]_vars => AuditInv'
<1> SUFFICES ASSUME CallsInv, AuditInv, FailClosed, [Next]_vars PROVE AuditInv'
  OBVIOUS
<1>1. ASSUME NEW c \in Slots, Arrive(c) PROVE AuditInv'
  <2>1. Arrives(c)
    BY <1>1, ArriveArrives
  <2>2. \A d \in Begun' \ {c} : d \in Begun /\ calls'[d] = calls[d]
    BY <2>1 DEF Arrives, Begun
  <2>3. calls'[c].reply \notin Outcomes /\ calls'[c].pc \notin {"handler", "xsiam", "end"}
    BY <2>1, GatewayAssumption DEF Arrives, Outcomes
  <2> QED BY <2>1, <2>2, <2>3 DEF Arrives, logs, AuditInv
<1>2. ASSUME NEW c \in Slots, Step(c) \/ Cancel(c) PROVE AuditInv'
  <2>1. Proceeds(c)
    BY <1>2, StepProceeds
  <2>2. PICK p, m, reply : Moves(c, p, m, reply)
    BY <2>1 DEF Proceeds, Settles, Announces, Sends, Sets, Finishes, Passes, Decided
  <2>3. \A d \in Begun' \ {c} : d \in Begun /\ calls'[d] = calls[d]
    BY <2>2 DEF Moves, Begun
  <2>4. /\ audit \subseteq audit'
        /\ StartEvents /\ calls'[c].pc \in {"handler", "xsiam", "end"} =>
              Has(audit', calls[c].id, "start")
        /\ acted' # acted => calls[c].pc = "handler"
        /\ calls'[c].reply \in Outcomes =>
              calls'[c].pc = "done" /\ Has(audit', calls[c].id, "end")
    BY <2>1, ProceedsAudited
  <2>5. c \in Begun /\ calls'[c].id = calls[c].id
    BY <2>2 DEF Moves
  <2>6. \A a \in acted' : a \in acted \/ (a.id = calls[c].id /\ calls[c].pc = "handler")
    BY <2>1, <2>4 DEF Proceeds, Settles, Announces, Sends, Sets, Finishes, Passes, Acts, logs
  <2>7. StartEvents => \A a \in acted' : Has(audit', a.id, "start")
    BY <2>4, <2>5, <2>6 DEF AuditInv, Has
  <2>8. StartEvents => \A d \in Begun' : calls'[d].pc \in {"handler", "xsiam", "end"} =>
                                           Has(audit', calls'[d].id, "start")
    BY <2>3, <2>4, <2>5 DEF AuditInv, Has
  <2>9. \A d \in Begun' : calls'[d].reply \in Outcomes =>
            calls'[d].pc = "done" /\ Has(audit', calls'[d].id, "end")
    BY <2>3, <2>4, <2>5 DEF AuditInv, Has
  <2> QED BY <2>7, <2>8, <2>9 DEF AuditInv
<1>3. CASE Tick \/ UNCHANGED vars
  BY <1>3 DEF Tick, vars, logs, AuditInv, Begun
<1> QED BY <1>1, <1>2, <1>3 DEF Next

\* With fail-closed audit nothing is done before the start event of its call is
\* exported, and no result is given out before the end event is.
THEOREM AuditCloses == Spec => []AuditFailsClosed
<1>1. CASE FailClosed
  <2>1. CallsInv /\ AuditInv => AuditFailsClosed
    BY DEF AuditInv, AuditFailsClosed, Outcomes, Has, Exported
  <2>2. Init => CallsInv /\ AuditInv
    BY CallsInit, AuditInit
  <2>3. CallsInv /\ AuditInv /\ [Next]_vars => (CallsInv /\ AuditInv)'
    BY <1>1, CallsStep, AuditStep
  <2> QED BY <2>1, <2>2, <2>3, PTL DEF Spec
<1>2. CASE ~FailClosed
  <2>1. AuditFailsClosed
    BY <1>2 DEF AuditFailsClosed
  <2> QED BY <2>1, PTL
<1> QED BY <1>1, <1>2

(***************************************************************************)
(* One mode per call.                                                      *)
(***************************************************************************)

\* While a call runs, the logs and its record agree on its mode; before its scope is
\* settled they hold nothing of it, and only set_engagement sets its mode anew.
Untouched(id) ==
    /\ \A e \in audit : e.id # id
    /\ \A a \in acted : a.id # id
    /\ id \notin steps
Allowed(c) == Authorized(calls[c].who, calls[c].mode, calls[c].tool)
ModeSet(id) == \E a \in acted : a.id = id /\ a.tool = "set_engagement"

CallModes(c) ==
    /\ calls[c].pc = "enter" => Untouched(calls[c].id)
    /\ calls[c].pc \in {"start", "handler"} => \A a \in acted : a.id # calls[c].id
    /\ calls[c].pc \in {"handler", "xsiam"} => Allowed(c)
    /\ calls[c].id \in steps => Allowed(c)
    /\ \A a \in acted : a.id = calls[c].id =>
            a.tool = calls[c].tool /\ (a.tool # "set_engagement" => a.mode = calls[c].mode)
    /\ \A e \in audit : e.id = calls[c].id => e.mode = calls[c].mode \/ ModeSet(e.id)

ModeInv ==
    /\ \A c \in Begun : CallModes(c)
    /\ \A e, f \in audit : e.id = f.id /\ e.mode # f.mode => ModeSet(e.id)
    /\ \A a \in acted : a.tool # "set_engagement" =>
            /\ Authorized(a.who, a.mode, a.tool)
            /\ \A e \in audit : e.id = a.id => e.mode = a.mode

LEMMA ModeInit == Init => ModeInv
BY DEF Init, ModeInv, Idle, Begun

\* What a step of call c adds to the logs carries its identifier and its mode.
LEMMA ProceedsLogs ==
    ASSUME NEW c \in Slots, Proceeds(c)
    PROVE  /\ \A e \in audit' : e \in audit \/ (e.id = calls[c].id /\ e.mode = calls[c].mode)
           /\ \A a \in acted' : a \in acted \/
                  /\ calls[c].pc = "handler"
                  /\ a.id = calls[c].id /\ a.tool = calls[c].tool
                  /\ a.who = calls[c].who /\ a.mode = calls[c].mode
           /\ steps' \subseteq steps \cup {calls[c].id}
           /\ audit \subseteq audit' /\ acted \subseteq acted'
<1>1. \A e \in audit' : e \in audit \/ (e.id = calls[c].id /\ e.mode = calls[c].mode)
  BY DEF Proceeds, Settles, Announces, Sends, Sets, Finishes, Passes, Event, logs
<1>2. \A a \in acted' : a \in acted \/
          /\ calls[c].pc = "handler"
          /\ a.id = calls[c].id /\ a.tool = calls[c].tool
          /\ a.who = calls[c].who /\ a.mode = calls[c].mode
  BY DEF Proceeds, Settles, Announces, Sends, Sets, Finishes, Passes, Acts, logs
<1>3. steps' \subseteq steps \cup {calls[c].id}
  BY DEF Proceeds, Settles, Announces, Sends, Sets, Finishes, Passes, Decided, logs
<1>4. audit \subseteq audit' /\ acted \subseteq acted'
  BY DEF Proceeds, Settles, Announces, Sends, Sets, Finishes, Passes, Acts, logs
<1> QED BY <1>1, <1>2, <1>3, <1>4

\* Another call sees none of it.
LEMMA OtherModes ==
    ASSUME IdInv, NEW c \in Begun, NEW d \in Begun, c # d, CallModes(d),
           Proceeds(c), calls'[d] = calls[d]
    PROVE  CallModes(d)'
<1>1. calls[c].id # calls[d].id
  BY DEF IdInv
<1>2. c \in Slots
  BY DEF Begun
<1>3. /\ \A e \in audit' : e.id = calls[d].id => e \in audit
      /\ \A a \in acted' : a.id = calls[d].id => a \in acted
      /\ calls[d].id \in steps' => calls[d].id \in steps
      /\ acted \subseteq acted'
  BY <1>1, <1>2, ProceedsLogs
<1> QED BY <1>3 DEF CallModes, Untouched, Allowed, ModeSet

\* The call itself: its mode changes only before anything is logged, or when it
\* is set_engagement that sets it.
LEMMA OwnModes ==
    ASSUME CallsInv, IdInv, NEW c \in Begun, CallModes(c), Proceeds(c)
    PROVE  CallModes(c)'
<1>1. c \in Slots
  BY DEF Begun
<1>2. CASE Settles(c)
  <2>1. PICK m \in Modes : \/ Moves(c, "start", m, calls[c].reply) /\ UNCHANGED steps
                           \/ Decided(c, m)
    BY <1>2 DEF Settles
  <2>2. Untouched(calls[c].id) /\ UNCHANGED <<audit, acted>>
    BY <1>2 DEF Settles, CallModes
  <2>3. CASE Moves(c, "start", m, calls[c].reply) /\ UNCHANGED steps
    BY <2>2, <2>3 DEF Moves, CallModes, Untouched, Allowed
  <2>4. CASE Decided(c, m)
    BY <2>2, <2>4 DEF Decided, Moves, CallModes, Untouched, Allowed
  <2> QED BY <2>1, <2>3, <2>4
<1>3. CASE Announces(c)
  <2>1. /\ \A a \in acted : a.id # calls[c].id
        /\ UNCHANGED acted
        /\ \A e \in audit' : e.id = calls[c].id => e.mode = calls[c].mode \/ ModeSet(e.id)
    BY <1>1, <1>3, ProceedsLogs DEF Announces, CallModes
  <2>2. CASE Decided(c, calls[c].mode)
    BY <2>1, <2>2 DEF Decided, Moves, CallModes, Allowed, ModeSet
  <2>3. CASE Moves(c, "done", calls[c].mode, "audit_error") /\ UNCHANGED steps
    BY <2>1, <2>3 DEF Moves, CallModes, Allowed, ModeSet
  <2> QED BY <1>3, <2>2, <2>3 DEF Announces
<1>4. CASE Sends(c)
  <2>1. PICK key : Acts(c, key)
    BY <1>4 DEF Sends
  <2> QED BY <1>1, <1>4, ProceedsLogs DEF Sends, Moves, CallModes, Allowed, ModeSet
<1>5. CASE Sets(c)
  <2>1. PICK m \in Modes : Moves(c, "end", m, calls[c].reply)
    BY <1>5 DEF Sets
  <2>2. calls[c].tool = "set_engagement" /\ UNCHANGED <<audit, steps>> /\ Allowed(c)
    BY <1>5 DEF Sets, CallModes
  <2>3. Allowed(c)'
    BY <2>1, <2>2, GatewayAssumption DEF Allowed, Authorized, Moves
  <2>4. ModeSet(calls[c].id)'
    <3> DEFINE act == [id |-> calls[c].id, tool |-> calls[c].tool, who |-> calls[c].who,
                       mode |-> calls[c].mode, key |-> None]
    <3>1. act \in acted'
      BY <1>5 DEF Sets, Acts
    <3>2. act.id = calls'[c].id /\ act.tool = "set_engagement"
      BY <2>1, <2>2 DEF Moves
    <3> HIDE DEF act
    <3> QED BY <3>1, <3>2 DEF ModeSet
  <2>5. \A a \in acted' : a.id = calls[c].id => a.tool = "set_engagement"
    BY <1>1, <1>5, <2>2, ProceedsLogs DEF Sets, CallModes
  <2> QED BY <2>1, <2>2, <2>3, <2>4, <2>5 DEF Moves, CallModes
<1>6. CASE Finishes(c)
  BY <1>1, <1>6, ProceedsLogs DEF Finishes, Moves, CallModes, Allowed, ModeSet
<1>7. CASE Passes(c)
  BY <1>7 DEF Passes, Moves, CallModes, Allowed, ModeSet, Untouched, logs
<1> QED BY <1>2, <1>3, <1>4, <1>5, <1>6, <1>7 DEF Proceeds

LEMMA ModeStep == CallsInv /\ IdInv /\ ModeInv /\ [Next]_vars => ModeInv'
<1> SUFFICES ASSUME CallsInv, IdInv, ModeInv, [Next]_vars PROVE ModeInv'
  OBVIOUS
<1>1. ASSUME NEW c \in Slots, Arrive(c) PROVE ModeInv'
  <2>1. Arrives(c)
    BY <1>1, ArriveArrives
  <2>2. \A d \in Begun' \ {c} : d \in Begun /\ calls'[d] = calls[d]
    BY <2>1 DEF Arrives, Begun
  <2>3. Untouched(count)
    BY DEF Untouched, IdInv, CallsInv
  <2>4. CallModes(c)'
    BY <2>1, <2>3 DEF Arrives, logs, CallModes, Untouched
  <2>5. ASSUME NEW d \in Begun', d # c PROVE CallModes(d)'
    BY <2>1, <2>2, <2>5 DEF Arrives, logs, ModeInv, CallModes, Untouched, Allowed, ModeSet
  <2> QED BY <2>1, <2>4, <2>5 DEF Arrives, logs, ModeInv, ModeSet
<1>2. ASSUME NEW c \in Slots, Step(c) \/ Cancel(c) PROVE ModeInv'
  <2>1. Proceeds(c)
    BY <1>2, StepProceeds
  <2>2. PICK p, m, reply : Moves(c, p, m, reply)
    BY <2>1 DEF Proceeds, Settles, Announces, Sends, Sets, Finishes, Passes, Decided
  <2>3. c \in Begun /\ \A d \in Begun' \ {c} : d \in Begun /\ calls'[d] = calls[d]
    BY <2>2 DEF Moves, Begun
  <2>4. \A d \in Begun' : CallModes(d)'
    BY <2>1, <2>3, OwnModes, OtherModes DEF ModeInv
  <2>5. /\ \A e \in audit' : e \in audit \/ (e.id = calls[c].id /\ e.mode = calls[c].mode)
        /\ \A a \in acted' : a \in acted \/
               /\ calls[c].pc = "handler"
               /\ a.id = calls[c].id /\ a.tool = calls[c].tool
               /\ a.who = calls[c].who /\ a.mode = calls[c].mode
        /\ acted \subseteq acted'
    BY <2>1, ProceedsLogs
  <2>6. CallModes(c)
    BY <2>3 DEF ModeInv
  <2>7. \A e, f \in audit' : e.id = f.id /\ e.mode # f.mode => ModeSet(e.id)'
    BY <2>5, <2>6 DEF ModeInv, CallModes, ModeSet
  <2>8. ASSUME NEW a \in acted', a.tool # "set_engagement"
        PROVE  Authorized(a.who, a.mode, a.tool) /\ \A e \in audit' : e.id = a.id => e.mode = a.mode
    <3>1. CASE a \in acted
      BY <2>5, <2>6, <2>8, <3>1 DEF ModeInv, CallModes
    <3>2. CASE a \notin acted
      BY <2>5, <2>6, <2>8, <3>2 DEF CallModes, Allowed, ModeSet
    <3> QED BY <3>1, <3>2
  <2> QED BY <2>4, <2>7, <2>8 DEF ModeInv
<1>3. CASE Tick \/ UNCHANGED vars
  BY <1>3 DEF Tick, vars, logs, ModeInv, CallModes, Untouched, Allowed, ModeSet, Begun
<1> QED BY <1>1, <1>2, <1>3 DEF Next

\* A call is audited, authorized, observed and sent under one engagement mode,
\* whatever other calls do to the session meanwhile.
THEOREM ModesAgree == Spec => []OneModePerCall
<1>1. CallsInv /\ IdInv /\ ModeInv => OneModePerCall
  BY DEF ModeInv, CallModes, ModeSet, Allowed, OneModePerCall
<1>2. Init => CallsInv /\ IdInv /\ ModeInv
  BY CallsInit, IdInit, ModeInit
<1>3. CallsInv /\ IdInv /\ ModeInv /\ [Next]_vars => (CallsInv /\ IdInv /\ ModeInv)'
  BY CallsStep, IdStep, ModeStep
<1> QED BY <1>1, <1>2, <1>3, PTL DEF Spec

(***************************************************************************)
(* Every request carries the key of its caller's profile.                  *)
(***************************************************************************)

LEMMA LeastNumber ==
    ASSUME NEW T, T \subseteq Nat, T # {}
    PROVE  \E m \in T : \A n \in T : m <= n
<1>1. IsWellFoundedOn(OpToRel(<, Nat), Nat)
  BY NatLessThanWellFounded
<1>2. PICK m \in T : \A n \in T : ~(<<n, m>> \in OpToRel(<, Nat))
  BY <1>1, WFMin, Zenon
<1>3. \A n \in T : ~(n < m)
  BY <1>2 DEF OpToRel
<1> QED
  BY <1>3

\* The priorities of finitely many profiles have a lower bound.
LEMMA PrioritiesBounded ==
    \E b \in Int : \A g \in DOMAIN Profiles : Profiles[g].priority >= b
<1> DEFINE S == DOMAIN Profiles
           N == Cardinality(S)
           p(g) == Profiles[g].priority
<1>1. N \in Nat /\ ExistsBijection(1..N, S)
  BY ProfilesAssumption, FS_CardinalityType
<1>2. PICK f \in Bijection(1..N, S) : TRUE
  BY <1>1 DEF ExistsBijection
<1>3. f \in [1..N -> S] /\ \A g \in S : \E i \in 1..N : f[i] = g
  BY <1>2 DEF Bijection, Injection, Surjection
<1> DEFINE T == {k \in 0..N : \E b \in Int : \A i \in 1..N : i > k => p(f[i]) >= b}
<1>4. \A g \in S : p(g) \in Int
  BY ProfilesAssumption
<1> HIDE DEF S, N, p
<1>5. N \in T
  <2>1. 0 \in Int /\ \A i \in 1..N : i > N => p(f[i]) >= 0
    BY <1>1
  <2> QED
    BY <1>1, <2>1
<1>6. PICK k \in T : \A n \in T : k <= n
  <2>1. T \subseteq 0..N
    OBVIOUS
  <2> HIDE DEF T
  <2>2. T \subseteq Nat /\ T # {}
    BY <1>1, <1>5, <2>1
  <2> QED
    BY <2>2, LeastNumber
<1>7. k \in 0..N
  OBVIOUS
<1>8. PICK b \in Int : \A i \in 1..N : i > k => p(f[i]) >= b
  BY <1>6
<1>9. k = 0
  <2> SUFFICES ASSUME k # 0 PROVE FALSE
    OBVIOUS
  <2>1. k \in 1..N /\ p(f[k]) \in Int /\ k - 1 \in 0..N
    BY <1>1, <1>3, <1>4, <1>7
  <2> DEFINE c == IF p(f[k]) < b THEN p(f[k]) ELSE b
  <2>2. c \in Int /\ c <= b /\ c <= p(f[k])
    BY <2>1
  <2> HIDE DEF c
  <2>3. ASSUME NEW i \in 1..N, i > k - 1 PROVE p(f[i]) >= c
    <3>1. CASE i = k
      BY <2>1, <2>2, <3>1
    <3>2. CASE i > k
      <4>1. p(f[i]) >= b /\ p(f[i]) \in Int
        BY <1>3, <1>4, <1>8, <3>2
      <4> QED
        BY <2>2, <4>1
    <3> QED
      BY <1>1, <1>7, <2>3, <3>1, <3>2
  <2>4. k - 1 \in T
    <3> DEFINE j == k - 1
    <3>1. j \in 0..N /\ \A i \in 1..N : i > j => p(f[i]) >= c
      BY <2>1, <2>3
    <3> HIDE DEF j
    <3>2. j \in T
      BY <2>2, <3>1
    <3> QED
      BY <3>2 DEF j
  <2>5. k <= k - 1
    <3> HIDE DEF T
    <3> QED
      BY <1>6, <2>4
  <2> QED
    BY <1>1, <1>7, <2>5
<1>10. \A g \in S : p(g) >= b
  BY <1>3, <1>8, <1>9
<1> QED
  BY <1>10 DEF S, p

\* Any groups with a profile have a first one.
LEMMA FirstProfile ==
    ASSUME NEW G, G \subseteq DOMAIN Profiles, G # {}
    PROVE  \E g \in G : \A h \in G : Before(g, h)
<1>1. PICK b \in Int : \A g \in DOMAIN Profiles : Profiles[g].priority >= b
  BY PrioritiesBounded
<1>2. \A g \in G : Profiles[g].priority \in Int /\ Profiles[g].rank \in Nat
  BY ProfilesAssumption
<1> DEFINE P == {Profiles[g].priority - b : g \in G}
<1>3. PICK m \in P : \A n \in P : m <= n
  <2>1. P \subseteq Nat /\ P # {}
    BY <1>1, <1>2
  <2> QED
    BY <2>1, LeastNumber
<1>4. PICK f \in G : Profiles[f].priority - b = m
  BY <1>3
<1> DEFINE R == {Profiles[g].rank : g \in {h \in G : Profiles[h].priority = Profiles[f].priority}}
<1>5. PICK r \in R : \A n \in R : r <= n
  <2>1. R \subseteq Nat /\ R # {}
    BY <1>2
  <2> QED
    BY <2>1, LeastNumber
<1>6. PICK g \in G : Profiles[g].priority = Profiles[f].priority /\ Profiles[g].rank = r
  BY <1>5
<1>7. ASSUME NEW h \in G PROVE Before(g, h)
  <2>1. m <= Profiles[h].priority - b
    BY <1>3
  <2>2. Profiles[g].priority <= Profiles[h].priority
    BY <1>2, <1>4, <1>6, <2>1
  <2>3. Profiles[h].priority = Profiles[f].priority => r <= Profiles[h].rank
    BY <1>5
  <2> QED
    BY <1>2, <1>6, <2>2, <2>3 DEF Before
<1> QED
  BY <1>7

KeyInv == \A a \in acted : a.key # None => a.key = Key(a.who)

LEMMA KeyStep == KeyInv /\ [Next]_vars => KeyInv'
<1> SUFFICES ASSUME KeyInv, [Next]_vars PROVE KeyInv'
  OBVIOUS
<1>1. ASSUME NEW c \in Slots, Send(c) PROVE KeyInv'
  <2>1. \A a \in acted' : a \in acted \/ a.key = Key(a.who)
    BY <1>1 DEF Send, Acts
  <2> QED
    BY <2>1 DEF KeyInv
<1>2. ASSUME NEW c \in Slots, SetEngagement(c) PROVE KeyInv'
  <2>1. \A a \in acted' : a \in acted \/ a.key = None
    BY <1>2 DEF SetEngagement, Acts
  <2> QED
    BY <2>1 DEF KeyInv
<1>3. ASSUME UNCHANGED acted PROVE KeyInv'
  BY <1>3 DEF KeyInv
<1>4. CASE UNCHANGED vars
  BY <1>3, <1>4 DEF vars, logs
<1>5. CASE Next
  <2>1. ASSUME NEW c \in Slots, Arrive(c) \/ Enter(c) \/ StartAudited(c) \/ NoCredential(c)
                                \/ Answered(c) \/ EndAudited(c) \/ Cancel(c)
        PROVE  UNCHANGED acted
    BY <2>1 DEF Arrive, Enter, StartAudited, NoCredential, Answered, EndAudited, Cancel, logs
  <2>2. Tick => UNCHANGED acted
    BY DEF Tick, logs
  <2> QED
    BY <1>1, <1>2, <1>3, <1>5, <2>1, <2>2 DEF Next, Step
<1> QED
  BY <1>4, <1>5

\* With the credential broker on, every request to XSIAM carries the key of the
\* caller's first profile by priority and name, and never the gateway's own key,
\* which no profile names (select_xsiam_credentials, get_fetcher).
THEOREM KeysBrokered ==
    ASSUME \A g \in DOMAIN Profiles : Profiles[g].key # OwnKey
    PROVE  Spec => []KeysAreBrokered
<1>1. Init => KeyInv
  BY DEF Init, KeyInv
<1>2. KeyInv /\ [Next]_vars => KeyInv'
  BY KeyStep
<1>3. KeyInv => KeysAreBrokered
  <2> SUFFICES ASSUME KeyInv, BrokerEnabled, NEW a \in acted, a.key # None
               PROVE  /\ a.key # OwnKey
                      /\ \E g \in GroupsOf[a.who] \cap DOMAIN Profiles :
                            /\ Profiles[g].key = a.key
                            /\ \A h \in GroupsOf[a.who] \cap DOMAIN Profiles : Before(g, h)
    BY DEF KeysAreBrokered
  <2> DEFINE G == GroupsOf[a.who] \cap DOMAIN Profiles
             g == CHOOSE g \in G : \A h \in G : Before(g, h)
  <2>1. a.key = Key(a.who)
    BY DEF KeyInv
  <2>2. G # {} /\ a.key = Profiles[g].key
    BY <2>1 DEF Key
  <2>3. g \in G /\ \A h \in G : Before(g, h)
    BY <2>2, FirstProfile
  <2> QED
    BY <2>2, <2>3
<1> QED
  BY <1>1, <1>2, <1>3, PTL DEF Spec

(***************************************************************************)
(* The types, and the bound of the nonce cache.                            *)
(***************************************************************************)

\* The cache holds at most its size, and one entry for a nonce of a principal.
NoncesInv ==
    /\ IsFiniteSet(nonces)
    /\ Cardinality(nonces) <= Max({NonceCacheSize, 1})
    /\ \A n, o \in nonces : n.key = o.key => n = o

LEMMA SizeIsPositive == Max({NonceCacheSize, 1}) \in Int /\ Max({NonceCacheSize, 1}) >= 1
<1>1. \E m \in {NonceCacheSize, 1} : \A k \in {NonceCacheSize, 1} : m >= k
  BY GatewayAssumption
<1> QED BY <1>1, GatewayAssumption DEF Max

\* Dropping what is past its expiry and remembering a nonce that was not there, if
\* there is room, keeps to the bound.
LEMMA RememberStep ==
    ASSUME NoncesInv, NEW a, NEW later, nonces' = Remember(a, later)
    PROVE  NoncesInv'
<1> DEFINE live  == Live(nonces, later)
           entry == [key |-> NonceKey(a), expiry |-> Expiry(a)]
<1>1. live \subseteq nonces
  BY DEF Live
<1>2. IsFiniteSet(live) /\ Cardinality(live) <= Cardinality(nonces)
  BY <1>1, FS_Subset DEF NoncesInv
<1>3. Cardinality(live) \in Nat /\ Cardinality(nonces) \in Nat
  BY <1>2, FS_CardinalityType DEF NoncesInv
<1>4. CASE Verifies(a, later)
  <2>1. nonces' = live \cup {entry}
    BY <1>4 DEF Remember
  <2>2. IsFiniteSet(live \cup {entry}) /\ Cardinality(live \cup {entry}) <= Cardinality(live) + 1
    <3> HIDE DEF live, entry
    <3>1. /\ IsFiniteSet(live \cup {entry})
          /\ Cardinality(live \cup {entry})
               = IF entry \in live THEN Cardinality(live) ELSE Cardinality(live) + 1
      BY <1>2, FS_AddElement
    <3> QED BY <1>3, <3>1
  <2>3. Cardinality(live \cup {entry}) \in Nat
    BY <2>2, FS_CardinalityType
  <2>4. Cardinality(live) < Max({NonceCacheSize, 1}) /\ \A n \in live : n.key # entry.key
    BY <1>4 DEF Verifies
  <2> HIDE DEF live, entry
  <2>5. Cardinality(nonces') <= Max({NonceCacheSize, 1})
    BY <1>3, <2>1, <2>2, <2>3, <2>4, SizeIsPositive
  <2>6. \A n, o \in nonces' : n.key = o.key => n = o
    BY <1>1, <2>1, <2>4 DEF NoncesInv
  <2> QED BY <2>1, <2>2, <2>5, <2>6 DEF NoncesInv
<1>5. CASE ~Verifies(a, later)
  <2>1. nonces' = live
    BY <1>5 DEF Remember
  <2> HIDE DEF live
  <2>2. Cardinality(nonces') <= Max({NonceCacheSize, 1})
    BY <1>2, <1>3, <2>1, SizeIsPositive DEF NoncesInv
  <2> QED BY <1>1, <1>2, <2>1, <2>2 DEF NoncesInv
<1> QED BY <1>4, <1>5

LEMMA NoncesStep == NoncesInv /\ [Next]_vars => NoncesInv'
<1> SUFFICES ASSUME NoncesInv, [Next]_vars PROVE NoncesInv'
  OBVIOUS
<1>1. ASSUME UNCHANGED nonces PROVE NoncesInv'
  BY <1>1 DEF NoncesInv
<1>2. ASSUME NEW c \in Slots, Arrive(c) PROVE NoncesInv'
  <2>1. (\E r \in Requests : \E later \in Readings(r) : nonces' = Remember(r.assertion, later))
        \/ UNCHANGED nonces
    BY <1>2 DEF Arrive
  <2> QED BY <2>1, <1>1, RememberStep
<1>3. ASSUME NEW c \in Slots, Step(c) \/ Cancel(c) PROVE UNCHANGED nonces
  BY <1>3 DEF Step, Cancel, Enter, StartAudited, Send, NoCredential, Answered,
              SetEngagement, EndAudited
<1>4. CASE Tick \/ UNCHANGED vars
  BY <1>1, <1>4 DEF Tick, vars
<1> QED BY <1>1, <1>2, <1>3, <1>4 DEF Next

\* _consume_gateway_nonce: the nonce cache stays within its size and holds one entry
\* for a nonce of a principal, however assertions arrive; modes and phases of calls
\* are what they may be.
THEOREM GatewayTypes == Spec => []TypeOK
<1>1. Init => NoncesInv
  <2> SUFFICES ASSUME Init PROVE NoncesInv
    OBVIOUS
  <2>1. IsFiniteSet({}) /\ Cardinality({}) = 0
    BY FS_EmptySet
  <2> QED BY <2>1, SizeIsPositive DEF Init, NoncesInv
<1>2. NoncesInv /\ CallsInv => TypeOK
  BY DEF NoncesInv, CallsInv, TypeOK, Call, Phases, Idle
<1> QED BY <1>1, <1>2, CallsInit, CallsStep, NoncesStep, PTL DEF Spec
================================================================================
