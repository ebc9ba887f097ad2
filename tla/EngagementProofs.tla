--------------------------- MODULE EngagementProofs ----------------------------
(***************************************************************************)
(* Proofs about Engagement for every number of calls, sessions and cases,  *)
(* every limit of the logs, with and without a case store, and with any    *)
(* number of failures, expiries and restarts.                              *)
(***************************************************************************)
EXTENDS Engagement, TLAPS

(***************************************************************************)
(* Logs                                                                    *)
(***************************************************************************)

LEMMA AppendLog ==
    ASSUME NEW S, NEW seq \in Seq(S), NEW x \in S
    PROVE  /\ Append(seq, x) \in Seq(S)
           /\ \A y \in Elements(Append(seq, x)) : y \in Elements(seq) \/ y = x
<1>1. /\ Append(seq, x) \in Seq(S) /\ Len(Append(seq, x)) = Len(seq) + 1
      /\ \A i \in 1..Len(seq) : Append(seq, x)[i] = seq[i]
      /\ Append(seq, x)[Len(seq) + 1] = x
  OBVIOUS
<1>2. ASSUME NEW i \in 1..Len(Append(seq, x))
      PROVE  Append(seq, x)[i] \in Elements(seq) \/ Append(seq, x)[i] = x
  <2>1. Len(seq) \in Nat
    OBVIOUS
  <2>2. i \in 1..Len(seq) \/ i = Len(seq) + 1
    BY <1>1, <1>2, <2>1
  <2> QED BY <1>1, <2>2 DEF Elements
<1> QED BY <1>1, <1>2 DEF Elements

LEMMA CappedLog ==
    ASSUME NEW S, NEW seq \in Seq(S), NEW n \in Nat
    PROVE  /\ Capped(seq, n) \in Seq(S)
           /\ Len(Capped(seq, n)) <= n
           /\ Elements(Capped(seq, n)) \subseteq Elements(seq)
<1>1. CASE Len(seq) <= n
  BY <1>1 DEF Capped
<1>2. CASE ~(Len(seq) <= n)
  <2> DEFINE m == Len(seq) - n + 1
             cut == SubSeq(seq, m, Len(seq))
  <2>1. Len(seq) \in Nat /\ m \in 1..Len(seq) + 1 /\ m \in Nat /\ m >= 1
    BY <1>2
  <2>2. /\ cut \in Seq(S) /\ Len(cut) = n
        /\ \A i \in 1..n : cut[i] = seq[m + i - 1]
    BY <2>1
  <2>3. Capped(seq, n) = cut
    BY <1>2 DEF Capped
  <2>4. \A i \in 1..n : m + i - 1 \in 1..Len(seq)
    BY <2>1
  <2> HIDE DEF m, cut
  <2> QED BY <2>2, <2>3, <2>4 DEF Elements
<1> QED BY <1>1, <1>2

\* What a log of at most n entries becomes when x is added.
LEMMA AddToLog ==
    ASSUME NEW S, NEW seq \in Seq(S), NEW x \in S, NEW n \in Nat
    PROVE  /\ Capped(Append(seq, x), n) \in Seq(S)
           /\ Len(Capped(Append(seq, x), n)) <= n
           /\ \A y \in Elements(Capped(Append(seq, x), n)) : y \in Elements(seq) \/ y = x
BY AppendLog, CappedLog

LEMMA BlankTypes ==
    /\ Blank \in Scoped /\ NewRecord \in Record /\ NewFile \in CaseFile
    /\ NoScope \in [mode: Modes \cup {Unset}, case: Cases \cup {None}]
BY DEF Blank, Scoped, NewRecord, Record, NewFile, CaseFile, NoScope

(***************************************************************************)
(* Types                                                                   *)
(***************************************************************************)

\* What a call holds depends on where it is and what it asks.
HeldInv ==
    \A c \in Calls :
        /\ phase[c] # "new" => req[c] \in Requests
        /\ phase[c] = "loaded" => held[c] \in Record \cup {None}
        /\ phase[c] = "saved" => /\ req[c].kind = "set"   => held[c] \in Scoped
                                 /\ req[c].kind = "query" => held[c] \in Query
                                 /\ req[c].kind = "fact"  => held[c] \in Fact

TypeInv == TypeOK /\ HeldInv

LEMMA RequestFields ==
    ASSUME NEW r \in Requests
    PROVE  /\ r.session \in Sessions
           /\ r.kind \in {"set", "query", "fact"}
           /\ r.kind = "set" => /\ r.mode \in Modes /\ r.case \in Cases \cup {None}
                                /\ r.scope \in Items \cup {Empty, Omitted}
           /\ r.kind = "fact" => r.evidence \in Calls
BY EngagementAssumption DEF Request

LEMMA InitTypes == Init => TypeInv
<1> SUFFICES ASSUME Init PROVE TypeInv
  OBVIOUS
<1>1. phase \in [Calls -> Phases] /\ scope \in [Calls -> [mode: Modes \cup {Unset}, case: Cases \cup {None}]]
  BY BlankTypes DEF Init, Phases
<1>a. since \in [Sessions -> Record]
  BY BlankTypes DEF Init
<1>2. TypeOK
  BY <1>1, <1>a, EngagementAssumption DEF Init, TypeOK
<1>3. HeldInv
  BY DEF Init, HeldInv
<1> QED BY <1>2, <1>3 DEF TypeInv

\* The record a loaded call builds on, and the file it reads.
LEMMA Bases ==
    ASSUME TypeInv, NEW c \in Calls, phase[c] = "loaded"
    PROVE  /\ Record0(c) \in Record
           /\ Record0(c).engagement \in Scoped
           /\ Record0(c).facts \in Seq(Fact) /\ Record0(c).queries \in Seq(Query)
<1>1. Record0(c) \in Record
  BY BlankTypes DEF TypeInv, HeldInv, Record0, OrNew
<1> QED BY <1>1 DEF Record

LEMMA Files ==
    ASSUME TypeInv, NEW k \in Cases
    PROVE  /\ CaseOf(k) \in CaseFile
           /\ CaseOf(k).engagement \in Scoped \cup {None}
           /\ CaseOf(k).facts \in Seq(Fact) /\ CaseOf(k).queries \in Seq(Query)
           /\ Len(CaseOf(k).queries) <= CaseCap /\ Len(CaseOf(k).facts) <= CaseCap
<1>1. CaseOf(k) \in CaseFile
  BY BlankTypes DEF TypeInv, TypeOK, CaseOf, OrNew
<1>2. Len(NewFile.queries) = 0 /\ Len(NewFile.facts) = 0
  BY DEF NewFile
<1>3. Len(CaseOf(k).queries) <= CaseCap /\ Len(CaseOf(k).facts) <= CaseCap
  BY <1>2, EngagementAssumption DEF TypeInv, TypeOK, CaseOf, OrNew
<1> QED BY <1>1, <1>3 DEF CaseFile

\* The end of a call leaves its variables typed.
LEMMA EndTypes ==
    ASSUME TypeInv, NEW c \in Calls, NEW to \in {"done", "failed"}, phase[c] # "new",
           End(c, to), req' = req
    PROVE  /\ phase' \in [Calls -> Phases]
           /\ scope' \in [Calls -> [mode: Modes \cup {Unset}, case: Cases \cup {None}]]
           /\ lock' \in [Sessions -> Calls \cup {None}]
           /\ held' \in [Calls -> Record \cup Scoped \cup Query \cup Fact \cup {None}]
           /\ HeldInv'
<1>1. phase' \in [Calls -> Phases]
  BY DEF TypeInv, TypeOK, End, Go, Phases
<1>2. scope' \in [Calls -> [mode: Modes \cup {Unset}, case: Cases \cup {None}]]
  BY BlankTypes DEF TypeInv, TypeOK, End
<1>3. lock' \in [Sessions -> Calls \cup {None}]
  BY DEF TypeInv, TypeOK, End
<1>4. held' \in [Calls -> Record \cup Scoped \cup Query \cup Fact \cup {None}]
  BY DEF TypeInv, TypeOK, End
<1>5. /\ phase'[c] = to
      /\ \A d \in Calls \ {c} : phase'[d] = phase[d] /\ held'[d] = held[d]
  BY DEF TypeInv, TypeOK, End, Go
<1>6. HeldInv'
  BY <1>5 DEF TypeInv, HeldInv
<1> QED BY <1>1, <1>2, <1>3, <1>4, <1>6

\* A call writes into its session's record.
LEMMA SaveTypes ==
    ASSUME TypeInv, NEW c \in Calls, phase[c] = "loaded",
           NEW record \in Record, NEW type \in {"engagement", "query", "fact"}, NEW what,
           type = "engagement" => what \in Scoped /\ req[c].kind = "set",
           type = "query" => what \in Query /\ req[c].kind = "query",
           type = "fact" => what \in Fact /\ req[c].kind = "fact",
           Save(c, record, type, what)
    PROVE  TypeInv'
<1> DEFINE x == [type |-> type, what |-> what]
<1>1. x \in Written
  BY DEF Written
<1>2. SessionOf(c) \in Sessions /\ req[c] \in Requests
  BY RequestFields DEF TypeInv, HeldInv, SessionOf
<1>3. saved' \in [Sessions -> Seq(Written)]
  <2>1. saved' = [saved EXCEPT ![SessionOf(c)] = Append(@, x)]
    BY DEF Save, Noted
  <2>2. saved \in [Sessions -> Seq(Written)]
    BY DEF TypeInv, TypeOK
  <2> HIDE DEF x
  <2>3. Append(saved[SessionOf(c)], x) \in Seq(Written)
    BY <1>1, <1>2, <2>2, AppendLog
  <2> QED BY <1>2, <2>1, <2>2, <2>3
<1>4. session' \in [Sessions -> Record \cup {None}]
  BY <1>2 DEF TypeInv, TypeOK, Save
<1>5. held' \in [Calls -> Record \cup Scoped \cup Query \cup Fact \cup {None}]
  BY DEF TypeInv, TypeOK, Save
<1>6. phase' \in [Calls -> Phases]
  BY DEF TypeInv, TypeOK, Save, Go, Phases
<1>10. since' \in [Sessions -> Record]
  <2>1. since' = [since EXCEPT ![SessionOf(c)] = Added(@, type, what)] /\ since \in [Sessions -> Record]
    BY DEF Save, Noted, TypeInv, TypeOK
  <2>2. \A z \in Record : Added(z, type, what) \in Record
    BY AppendLog DEF Added, Record
  <2> QED BY <1>2, <2>1, <2>2
<1>7. TypeOK'
  BY <1>3, <1>4, <1>5, <1>6, <1>10 DEF TypeInv, TypeOK, Save
<1>8. /\ phase'[c] = "saved" /\ held'[c] = what /\ req' = req
      /\ \A d \in Calls \ {c} : phase'[d] = phase[d] /\ held'[d] = held[d]
  BY DEF TypeInv, TypeOK, Save, Go
<1>9. HeldInv'
  <2> SUFFICES ASSUME NEW d \in Calls
               PROVE  /\ phase'[d] # "new" => req'[d] \in Requests
                      /\ phase'[d] = "loaded" => held'[d] \in Record \cup {None}
                      /\ phase'[d] = "saved" => /\ req'[d].kind = "set"   => held'[d] \in Scoped
                                                /\ req'[d].kind = "query" => held'[d] \in Query
                                                /\ req'[d].kind = "fact"  => held'[d] \in Fact
    BY DEF HeldInv
  <2>1. CASE d = c
    BY <1>2, <1>8, <2>1
  <2>2. CASE d # c
    BY <1>8, <2>2 DEF TypeInv, HeldInv
  <2> QED BY <2>1, <2>2
<1> QED BY <1>7, <1>9 DEF TypeInv

\* CaseStore.update writes a file of the right type into one case, or nothing.
LEMMA UpdateTypes ==
    ASSUME TypeInv, NEW k \in Cases \cup {None}, NEW case, Update(k, case),
           k \in Cases => /\ case \in CaseFile
                          /\ Len(case.queries) <= CaseCap /\ Len(case.facts) <= CaseCap
    PROVE  /\ file' \in [Cases -> CaseFile \cup {None}]
           /\ \A j \in Cases : file'[j] # None =>
                Len(file'[j].queries) <= CaseCap /\ Len(file'[j].facts) <= CaseCap
           /\ file' = file \/ (k \in Cases /\ file' = [file EXCEPT ![k] = case])
<1>1. CASE HasStore /\ k # None
  BY <1>1 DEF TypeInv, TypeOK, Update
<1>2. CASE ~(HasStore /\ k # None)
  BY <1>2 DEF TypeInv, TypeOK, Update
<1> QED BY <1>1, <1>2

LEMMA EnterTypes ==
    ASSUME TypeInv, NEW c \in Calls, NEW r \in Requests, Enter(c, r) \/ EnterUnset(c, r)
    PROVE  TypeInv'
<1>1. /\ phase' = [phase EXCEPT ![c] = "entered"] /\ req' = [req EXCEPT ![c] = r]
      /\ UNCHANGED <<session, lock, held, file, saved, since, overtaken>>
      /\ faults' \in 0..MaxFaults
  BY EngagementAssumption DEF TypeInv, TypeOK, Enter, EnterUnset, Begins, Go, GoesWrong
<1>2. scope' \in [Calls -> [mode: Modes \cup {Unset}, case: Cases \cup {None}]]
  <2>1. CASE EnterUnset(c, r)
    BY <2>1 DEF TypeInv, TypeOK, EnterUnset
  <2>2. CASE Enter(c, r)
    <3> DEFINE e == OrNew(session[r.session], NewRecord).engagement
               now == [mode |-> e.mode, case |-> e.case]
    <3>1. OrNew(session[r.session], NewRecord) \in Record
      BY BlankTypes, RequestFields DEF TypeInv, TypeOK, OrNew
    <3>2. e \in Scoped
      BY <3>1 DEF Record
    <3>3. now \in [mode: Modes \cup {Unset}, case: Cases \cup {None}]
      BY <3>2 DEF Scoped
    <3>4. scope' = [scope EXCEPT ![c] = now]
      BY <2>2 DEF Enter
    <3> HIDE DEF e, now
    <3> QED BY <3>3, <3>4 DEF TypeInv, TypeOK
  <2> QED BY <2>1, <2>2
<1>3. phase' \in [Calls -> Phases] /\ req' \in [Calls -> Requests \cup {None}]
  BY <1>1 DEF TypeInv, TypeOK, Phases
<1>4. TypeOK'
  BY <1>1, <1>2, <1>3 DEF TypeInv, TypeOK
<1>5. HeldInv'
  <2>1. /\ phase'[c] = "entered" /\ req'[c] = r
        /\ \A d \in Calls \ {c} : phase'[d] = phase[d] /\ req'[d] = req[d]
    BY <1>1 DEF TypeInv, TypeOK
  <2> QED BY <1>1, <2>1 DEF TypeInv, HeldInv
<1> QED BY <1>4, <1>5 DEF TypeInv

LEMMA LoadTypes ==
    ASSUME TypeInv, NEW c \in Calls, Load(c)
    PROVE  TypeInv'
<1>1. SessionOf(c) \in Sessions /\ req[c] \in Requests
  BY RequestFields DEF TypeInv, HeldInv, SessionOf, Load
<1>2. session[SessionOf(c)] \in Record \cup {None}
  BY <1>1 DEF TypeInv, TypeOK
<1>3. /\ phase' = [phase EXCEPT ![c] = "loaded"]
      /\ held' = [held EXCEPT ![c] = session[SessionOf(c)]]
      /\ lock' = [lock EXCEPT ![SessionOf(c)] = c]
      /\ UNCHANGED <<req, scope, session, file, faults, saved, since, overtaken>>
  BY DEF Load, Go
<1>4. phase' \in [Calls -> Phases] /\ lock' \in [Sessions -> Calls \cup {None}]
  BY <1>1, <1>3 DEF TypeInv, TypeOK, Phases
<1>5. held' \in [Calls -> Record \cup Scoped \cup Query \cup Fact \cup {None}]
  BY <1>2, <1>3 DEF TypeInv, TypeOK
<1>6. TypeOK'
  BY <1>3, <1>4, <1>5 DEF TypeInv, TypeOK
<1>7. /\ phase'[c] = "loaded" /\ held'[c] = session[SessionOf(c)]
      /\ \A d \in Calls \ {c} : phase'[d] = phase[d] /\ held'[d] = held[d]
  BY <1>3 DEF TypeInv, TypeOK
<1>8. HeldInv'
  BY <1>1, <1>2, <1>3, <1>7 DEF TypeInv, HeldInv
<1> QED BY <1>6, <1>8 DEF TypeInv

\* The engagement a call of set_engagement sets.
LEMMA MergedType ==
    ASSUME TypeInv, NEW c \in Calls, phase[c] = "loaded", req[c].kind = "set"
    PROVE  Merged(c) \in Scoped
<1>1. /\ req[c].mode \in Modes /\ req[c].case \in Cases \cup {None}
      /\ req[c].scope \in Items \cup {Empty, Omitted}
  BY RequestFields DEF TypeInv, HeldInv
<1>2. Given(c) \in Scoped
  BY <1>1 DEF Given, Scoped
<1>3. Source(c) \in Scoped
  BY <1>1, Bases, Files, BlankTypes DEF Source, OrNew
<1>4. Source(c).scope \in Items \cup {Empty}
  BY <1>3 DEF Scoped
<1>5. [Given(c) EXCEPT !.scope = Source(c).scope] \in Scoped
  BY <1>2, <1>4 DEF Scoped
<1> QED BY <1>2, <1>5 DEF Merged

LEMMA SaveEngagementTypes ==
    ASSUME TypeInv, NEW c \in Calls, SaveEngagement(c)
    PROVE  TypeInv'
<1> DEFINE record == [Record0(c) EXCEPT !.engagement = Merged(c)]
<1>1. phase[c] = "loaded" /\ req[c].kind = "set" /\ Save(c, record, "engagement", Merged(c))
  BY DEF SaveEngagement
<1>2. Merged(c) \in Scoped
  BY <1>1, MergedType
<1>3. record \in Record
  BY <1>1, <1>2, Bases DEF Record
<1> HIDE DEF record
<1> QED BY <1>1, <1>2, <1>3, SaveTypes

LEMMA SaveQueryTypes ==
    ASSUME TypeInv, NEW c \in Calls, SaveQuery(c)
    PROVE  TypeInv'
<1>1. phase[c] = "loaded" /\ req[c].kind = "query"
  BY DEF SaveQuery
<1> PICK id \in {c, None} :
      LET entry == [by |-> c, query_id |-> id, mode |-> scope[c].mode, case |-> scope[c].case]
      IN  Save(c, [Record0(c) EXCEPT !.queries = Capped(Append(@, entry), SessionCap)],
               "query", entry)
  BY DEF SaveQuery
<1> DEFINE entry == [by |-> c, query_id |-> id, mode |-> scope[c].mode, case |-> scope[c].case]
           log == Capped(Append(Record0(c).queries, entry), SessionCap)
           record == [Record0(c) EXCEPT !.queries = log]
<1>2. entry \in Query
  BY DEF TypeInv, TypeOK, Query
<1>3. Save(c, record, "query", entry)
  OBVIOUS
<1> HIDE DEF entry
<1>4. log \in Seq(Query)
  BY <1>1, <1>2, Bases, AddToLog, EngagementAssumption
<1> HIDE DEF log
<1>5. record \in Record
  BY <1>1, <1>4, Bases DEF Record
<1> HIDE DEF record
<1> QED BY <1>1, <1>2, <1>3, <1>5, SaveTypes

LEMMA SaveFactTypes ==
    ASSUME TypeInv, NEW c \in Calls, SaveFact(c)
    PROVE  TypeInv'
<1> DEFINE e == Record0(c).engagement
           fact == [by |-> c, evidence |-> req[c].evidence, mode |-> e.mode, case |-> e.case]
           log == Capped(Append(Record0(c).facts, fact), SessionCap)
           record == [Record0(c) EXCEPT !.facts = log]
<1>1. /\ phase[c] = "loaded" /\ req[c].kind = "fact" /\ Accepts(c)
      /\ Save(c, record, "fact", fact)
  BY DEF SaveFact
<1>2. e \in Scoped /\ e.mode # Unset
  BY <1>1, Bases DEF Accepts
<1>3. req[c].evidence \in Calls
  BY <1>1, RequestFields DEF TypeInv, HeldInv
<1> HIDE DEF e
<1>4. fact \in Fact
  BY <1>2, <1>3 DEF Scoped, Fact
<1> HIDE DEF fact
<1>5. log \in Seq(Fact)
  BY <1>1, <1>4, Bases, AddToLog, EngagementAssumption
<1> HIDE DEF log
<1>6. record \in Record
  BY <1>1, <1>5, Bases DEF Record
<1> HIDE DEF record
<1> QED BY <1>1, <1>4, <1>6, SaveTypes

\* A call ends after it has written a file, or nothing.
LEMMA StoreTypes ==
    ASSUME TypeInv, NEW c \in Calls, NEW to \in {"done", "failed"}, phase[c] # "new",
           End(c, to), UNCHANGED <<req, session, saved, since>>, faults' \in 0..MaxFaults,
           overtaken' \subseteq Calls,
           file' \in [Cases -> CaseFile \cup {None}],
           \A j \in Cases : file'[j] # None =>
             Len(file'[j].queries) <= CaseCap /\ Len(file'[j].facts) <= CaseCap
    PROVE  TypeInv'
<1>1. TypeOK'
  BY EndTypes DEF TypeInv, TypeOK
<1> QED BY <1>1, EndTypes DEF TypeInv

LEMMA StoreEngagementTypes ==
    ASSUME TypeInv, NEW c \in Calls, StoreEngagement(c)
    PROVE  TypeInv'
<1> DEFINE k == req[c].case
           case == [CaseOf(k) EXCEPT !.engagement = held[c]]
<1>1. /\ phase[c] = "saved" /\ req[c].kind = "set" /\ Update(k, case) /\ End(c, "done")
      /\ UNCHANGED <<req, session, faults, saved, since>> /\ Overtakes(c)
  BY DEF StoreEngagement
<1>2. k \in Cases \cup {None} /\ held[c] \in Scoped
  BY <1>1, RequestFields DEF TypeInv, HeldInv
<1> HIDE DEF k
<1>3. k \in Cases => /\ case \in CaseFile
                     /\ Len(case.queries) <= CaseCap /\ Len(case.facts) <= CaseCap
  BY <1>2, Files DEF CaseFile
<1> HIDE DEF case
<1>4. faults' \in 0..MaxFaults /\ overtaken' \subseteq Calls
  BY <1>1 DEF TypeInv, TypeOK, Overtakes
<1> QED BY <1>1, <1>2, <1>3, <1>4, UpdateTypes, StoreTypes

LEMMA StoreQueryTypes ==
    ASSUME TypeInv, NEW c \in Calls, StoreQuery(c)
    PROVE  TypeInv'
<1> DEFINE k == scope[c].case
           log == Capped(Append(CaseOf(k).queries, held[c]), CaseCap)
           case == [CaseOf(k) EXCEPT !.queries = log]
<1>1. /\ phase[c] = "saved" /\ req[c].kind = "query" /\ Update(k, case) /\ End(c, "done")
      /\ UNCHANGED <<req, session, faults, saved, since, overtaken>>
  BY DEF StoreQuery
<1>2. k \in Cases \cup {None} /\ held[c] \in Query
  BY <1>1 DEF TypeInv, TypeOK, HeldInv
<1> HIDE DEF k
<1>3. k \in Cases => log \in Seq(Query) /\ Len(log) <= CaseCap
  BY <1>2, Files, AddToLog, EngagementAssumption
<1> HIDE DEF log
<1>4. k \in Cases => /\ case \in CaseFile
                     /\ Len(case.queries) <= CaseCap /\ Len(case.facts) <= CaseCap
  BY <1>3, Files DEF CaseFile
<1> HIDE DEF case
<1>5. faults' \in 0..MaxFaults /\ overtaken' \subseteq Calls
  BY <1>1 DEF TypeInv, TypeOK
<1> QED BY <1>1, <1>2, <1>4, <1>5, UpdateTypes, StoreTypes

LEMMA StoreFactTypes ==
    ASSUME TypeInv, NEW c \in Calls, StoreFact(c)
    PROVE  TypeInv'
<1> DEFINE k == held[c].case
           log == Capped(Append(CaseOf(k).facts, held[c]), CaseCap)
           case == [CaseOf(k) EXCEPT !.facts = log]
<1>1. /\ phase[c] = "saved" /\ req[c].kind = "fact" /\ Update(k, case) /\ End(c, "done")
      /\ UNCHANGED <<req, session, faults, saved, since, overtaken>>
  BY DEF StoreFact
<1>2. k \in Cases \cup {None} /\ held[c] \in Fact
  BY <1>1 DEF TypeInv, HeldInv, Fact
<1> HIDE DEF k
<1>3. k \in Cases => log \in Seq(Fact) /\ Len(log) <= CaseCap
  BY <1>2, Files, AddToLog, EngagementAssumption
<1> HIDE DEF log
<1>4. k \in Cases => /\ case \in CaseFile
                     /\ Len(case.queries) <= CaseCap /\ Len(case.facts) <= CaseCap
  BY <1>3, Files DEF CaseFile
<1> HIDE DEF case
<1>5. faults' \in 0..MaxFaults /\ overtaken' \subseteq Calls
  BY <1>1 DEF TypeInv, TypeOK
<1> QED BY <1>1, <1>2, <1>4, <1>5, UpdateTypes, StoreTypes

LEMMA EnvironmentTypes ==
    ASSUME TypeInv, (\E s \in Sessions : Expire(s)) \/ Restart
    PROVE  TypeInv'
<1>1. ASSUME NEW lost \in SUBSET Sessions, Gone(lost)
      PROVE  since' \in [Sessions -> Record]
  BY <1>1, BlankTypes DEF TypeInv, TypeOK, Gone
<1>2. ASSUME NEW s \in Sessions, Expire(s)
      PROVE  TypeInv'
  <2>1. since' \in [Sessions -> Record]
    BY <1>1, <1>2 DEF Expire
  <2>2. /\ session' \in [Sessions -> Record \cup {None}] /\ faults' \in 0..MaxFaults
        /\ UNCHANGED <<phase, req, scope, lock, held, file, saved, overtaken>>
    BY <1>2, EngagementAssumption DEF TypeInv, TypeOK, Expire, GoesWrong
  <2> QED BY <2>1, <2>2 DEF TypeInv, TypeOK, HeldInv
<1>3. CASE Restart
  <2>1. since' \in [Sessions -> Record]
    BY <1>1, <1>3 DEF Restart
  <2>2. /\ session' \in [Sessions -> Record \cup {None}] /\ faults' \in 0..MaxFaults
        /\ lock' \in [Sessions -> Calls \cup {None}]
        /\ held' \in [Calls -> Record \cup Scoped \cup Query \cup Fact \cup {None}]
        /\ scope' \in [Calls -> [mode: Modes \cup {Unset}, case: Cases \cup {None}]]
        /\ UNCHANGED <<req, file, saved, overtaken>>
    BY <1>3, BlankTypes, EngagementAssumption DEF TypeInv, TypeOK, Restart, GoesWrong
  <2>3. phase' \in [Calls -> Phases]
    BY <1>3 DEF TypeInv, TypeOK, Restart, Phases
  <2>4. \A c \in Calls : phase'[c] \notin {"loaded", "saved"} /\ (phase'[c] # "new" => phase[c] # "new")
    BY <1>3 DEF TypeInv, TypeOK, Restart, Over, Phases
  <2>5. HeldInv'
    BY <2>2, <2>4 DEF TypeInv, HeldInv
  <2> QED BY <2>1, <2>2, <2>3, <2>5 DEF TypeInv, TypeOK
<1> QED BY <1>2, <1>3

LEMMA NextTypes == TypeInv /\ [Next]_vars => TypeInv'
<1> SUFFICES ASSUME TypeInv, [Next]_vars PROVE TypeInv'
  OBVIOUS
<1>1. ASSUME NEW c \in Calls, NEW r \in Requests, Enter(c, r) \/ EnterUnset(c, r)
      PROVE  TypeInv'
  BY <1>1, EnterTypes
<1>2. ASSUME NEW c \in Calls, Load(c) PROVE TypeInv'
  BY <1>2, LoadTypes
<1>3. ASSUME NEW c \in Calls, SaveEngagement(c) \/ SaveQuery(c) \/ SaveFact(c) PROVE TypeInv'
  BY <1>3, SaveEngagementTypes, SaveQueryTypes, SaveFactTypes
<1>4. ASSUME NEW c \in Calls, StoreEngagement(c) \/ StoreQuery(c) \/ StoreFact(c) PROVE TypeInv'
  BY <1>4, StoreEngagementTypes, StoreQueryTypes, StoreFactTypes
<1>5. ASSUME NEW c \in Calls, RefuseFact(c) \/ Raise(c) PROVE TypeInv'
  <2>1. /\ phase[c] # "new" /\ End(c, "failed")
        /\ UNCHANGED <<req, session, file, saved, since, overtaken>> /\ faults' \in 0..MaxFaults
    BY <1>5, EngagementAssumption DEF TypeInv, TypeOK, RefuseFact, Raise, GoesWrong
  <2>2. /\ file' \in [Cases -> CaseFile \cup {None}]
        /\ \A j \in Cases : file'[j] # None =>
             Len(file'[j].queries) <= CaseCap /\ Len(file'[j].facts) <= CaseCap
        /\ overtaken' \subseteq Calls
    BY <2>1 DEF TypeInv, TypeOK
  <2> QED BY <2>1, <2>2, StoreTypes
<1>6. CASE (\E s \in Sessions : Expire(s)) \/ Restart
  BY <1>6, EnvironmentTypes
<1>7. CASE UNCHANGED vars
  BY <1>7 DEF TypeInv, TypeOK, HeldInv, vars
<1> QED BY <1>1, <1>2, <1>3, <1>4, <1>5, <1>6, <1>7 DEF Next, Idle

\* Every variable has its type and the case logs stay within their limit, for
\* every number of calls and whatever fails (engagement.py:75-90).
THEOREM EngagementTypes == Spec => []TypeOK
<1>1. TypeInv => TypeOK
  BY DEF TypeInv
<1> QED BY <1>1, InitTypes, NextTypes, PTL DEF Spec

(***************************************************************************)
(* Evidence                                                                *)
(*                                                                         *)
(* What is said of a query or a fact depends on the log of what was        *)
(* written, on the requests and on which calls have begun.  These are      *)
(* parameters here (logs, asked, at), so that one lemma says what survives *)
(* a step that only adds to them.                                          *)
(***************************************************************************)

\* The query was written into the record that log describes.
Logged(q, log) == \E i \in 1..Len(log) : log[i].type = "query" /\ log[i].what = q

Cited(f, logs, asked) ==
    \E s \in Sessions : \E i \in 1..Len(logs[s]) :
        /\ logs[s][i].type = "query"
        /\ logs[s][i].what.query_id = f.evidence
        /\ s = asked[f.by].session \/ logs[s][i].what.case = f.case

Proper(f, at, logs, asked) == at[f.by] # "new" /\ Cited(f, logs, asked)

\* A record of session s.
SoundRecord(r, s, at, logs, asked) ==
    /\ \A q \in Elements(r.queries) : Logged(q, logs[s])
    /\ \A f \in Elements(r.facts) : Proper(f, at, logs, asked)

\* A file of case k.
SoundFile(r, k, at, logs, asked) ==
    /\ \A q \in Elements(r.queries) : q.case = k /\ \E s \in Sessions : Logged(q, logs[s])
    /\ \A f \in Elements(r.facts) : Proper(f, at, logs, asked)

SessionsSound ==
    \A s \in Sessions : session[s] # None => SoundRecord(session[s], s, phase, saved, req)

FilesSound ==
    \A k \in Cases : file[k] # None => SoundFile(file[k], k, phase, saved, req)

\* What a call has loaded is sound, and so is what it is about to write into
\* its case: a query goes to the case it was logged with.
HeldSound ==
    \A c \in Calls :
        /\ phase[c] = "loaded" /\ held[c] # None =>
             SoundRecord(held[c], SessionOf(c), phase, saved, req)
        /\ phase[c] = "saved" /\ req[c].kind = "query" =>
             held[c].case = scope[c].case /\ Logged(held[c], saved[SessionOf(c)])
        /\ phase[c] = "saved" /\ req[c].kind = "fact" => Proper(held[c], phase, saved, req)

EvidenceInv == SessionsSound /\ FilesSound /\ HeldSound

\* No call goes back to its beginning, none changes what it asked, and what was
\* written stays written.
Onward(at, logs, asked, at2, logs2, asked2) ==
    /\ \A c \in Calls : at[c] # "new" => at2[c] # "new" /\ asked2[c] = asked[c]
    /\ \A s \in Sessions : \A i \in 1..Len(logs[s]) :
         i \in 1..Len(logs2[s]) /\ logs2[s][i] = logs[s][i]

LEMMA OnwardKeeps ==
    ASSUME NEW at, NEW logs, NEW asked, NEW at2, NEW logs2, NEW asked2,
           Onward(at, logs, asked, at2, logs2, asked2)
    PROVE  /\ \A q : \A s \in Sessions : Logged(q, logs[s]) => Logged(q, logs2[s])
           /\ \A f \in Fact : Proper(f, at, logs, asked) => Proper(f, at2, logs2, asked2)
           /\ \A r \in Record : \A s \in Sessions :
                SoundRecord(r, s, at, logs, asked) => SoundRecord(r, s, at2, logs2, asked2)
           /\ \A r \in CaseFile : \A k \in Cases :
                SoundFile(r, k, at, logs, asked) => SoundFile(r, k, at2, logs2, asked2)
<1>1. \A q : \A s \in Sessions : Logged(q, logs[s]) => Logged(q, logs2[s])
  BY DEF Onward, Logged
<1>2. \A f \in Fact : Proper(f, at, logs, asked) => Proper(f, at2, logs2, asked2)
  <2> SUFFICES ASSUME NEW f \in Fact, Proper(f, at, logs, asked)
               PROVE  Proper(f, at2, logs2, asked2)
    OBVIOUS
  <2>1. f.by \in Calls
    BY DEF Fact
  <2>2. at2[f.by] # "new" /\ asked2[f.by] = asked[f.by]
    BY <2>1 DEF Onward, Proper
  <2>3. PICK s \in Sessions : \E i \in 1..Len(logs[s]) :
          /\ logs[s][i].type = "query"
          /\ logs[s][i].what.query_id = f.evidence
          /\ s = asked[f.by].session \/ logs[s][i].what.case = f.case
    BY DEF Proper, Cited
  <2>4. PICK i \in 1..Len(logs[s]) :
          /\ logs[s][i].type = "query"
          /\ logs[s][i].what.query_id = f.evidence
          /\ s = asked[f.by].session \/ logs[s][i].what.case = f.case
    BY <2>3
  <2>5. i \in 1..Len(logs2[s]) /\ logs2[s][i] = logs[s][i]
    BY DEF Onward
  <2> QED BY <2>2, <2>4, <2>5 DEF Proper, Cited
<1>3. \A r \in Record : Elements(r.facts) \subseteq Fact
  BY DEF Record, Elements
<1>4. \A r \in CaseFile : Elements(r.facts) \subseteq Fact
  BY DEF CaseFile, Elements
<1> QED BY <1>1, <1>2, <1>3, <1>4 DEF SoundRecord, SoundFile

\* Records and files that nothing was logged in.
LEMMA NewIsSound ==
    ASSUME NEW at, NEW logs, NEW asked
    PROVE  /\ \A s \in Sessions : SoundRecord(NewRecord, s, at, logs, asked)
           /\ \A k \in Cases : SoundFile(NewFile, k, at, logs, asked)
BY DEF SoundRecord, SoundFile, NewRecord, NewFile, Elements

\* A step that goes onward keeps everything that it does not write.
LEMMA UnwrittenSound ==
    ASSUME TypeInv, EvidenceInv, Onward(phase, saved, req, phase', saved', req')
    PROVE  /\ \A s \in Sessions : session'[s] \in {session[s], None} =>
                (session'[s] # None => SoundRecord(session'[s], s, phase', saved', req'))
           /\ \A k \in Cases : file'[k] = file[k] =>
                (file'[k] # None => SoundFile(file'[k], k, phase', saved', req'))
           /\ \A c \in Calls :
                phase'[c] = phase[c] /\ held'[c] = held[c] /\ scope'[c] = scope[c] =>
                  /\ phase'[c] = "loaded" /\ held'[c] # None =>
                       SoundRecord(held'[c], SessionOf(c)', phase', saved', req')
                  /\ phase'[c] = "saved" /\ req'[c].kind = "query" =>
                       held'[c].case = scope'[c].case /\ Logged(held'[c], saved'[SessionOf(c)'])
                  /\ phase'[c] = "saved" /\ req'[c].kind = "fact" =>
                       Proper(held'[c], phase', saved', req')
<1>1. /\ \A q : \A s \in Sessions : Logged(q, saved[s]) => Logged(q, saved'[s])
      /\ \A f \in Fact : Proper(f, phase, saved, req) => Proper(f, phase', saved', req')
      /\ \A r \in Record : \A s \in Sessions :
           SoundRecord(r, s, phase, saved, req) => SoundRecord(r, s, phase', saved', req')
      /\ \A r \in CaseFile : \A k \in Cases :
           SoundFile(r, k, phase, saved, req) => SoundFile(r, k, phase', saved', req')
  BY OnwardKeeps
<1>2. \A s \in Sessions : session'[s] \in {session[s], None} =>
        (session'[s] # None => SoundRecord(session'[s], s, phase', saved', req'))
  BY <1>1 DEF TypeInv, TypeOK, EvidenceInv, SessionsSound
<1>3. \A k \in Cases : file'[k] = file[k] =>
        (file'[k] # None => SoundFile(file'[k], k, phase', saved', req'))
  BY <1>1 DEF TypeInv, TypeOK, EvidenceInv, FilesSound
<1>4. ASSUME NEW c \in Calls, phase'[c] = phase[c], held'[c] = held[c], scope'[c] = scope[c],
             phase[c] \in {"loaded", "saved"}
      PROVE  /\ phase'[c] = "loaded" /\ held'[c] # None =>
                  SoundRecord(held'[c], SessionOf(c)', phase', saved', req')
             /\ phase'[c] = "saved" /\ req'[c].kind = "query" =>
                  held'[c].case = scope'[c].case /\ Logged(held'[c], saved'[SessionOf(c)'])
             /\ phase'[c] = "saved" /\ req'[c].kind = "fact" =>
                  Proper(held'[c], phase', saved', req')
  <2>1. req'[c] = req[c] /\ SessionOf(c)' = SessionOf(c) /\ SessionOf(c) \in Sessions
    BY <1>4, RequestFields DEF Onward, SessionOf, TypeInv, HeldInv
  <2>2. CASE phase[c] = "loaded"
    <3>1. held[c] # None => held[c] \in Record
      BY <2>2 DEF TypeInv, HeldInv
    <3> QED BY <1>1, <1>4, <2>1, <2>2, <3>1 DEF EvidenceInv, HeldSound
  <2>3. CASE phase[c] = "saved"
    <3>1. req[c].kind = "fact" => held[c] \in Fact
      BY <2>3 DEF TypeInv, HeldInv
    <3> QED BY <1>1, <1>4, <2>1, <2>3, <3>1 DEF EvidenceInv, HeldSound
  <2> QED BY <1>4, <2>2, <2>3
<1> QED BY <1>2, <1>3, <1>4

\* The step of call c: the invariant holds again if what the step wrote is sound.
LEMMA StepSound ==
    ASSUME TypeInv, EvidenceInv, Onward(phase, saved, req, phase', saved', req'),
           NEW c \in Calls,
           \A d \in Calls \ {c} : phase'[d] = phase[d] /\ held'[d] = held[d] /\ scope'[d] = scope[d],
           phase'[c] = "loaded" /\ held'[c] # None =>
             SoundRecord(held'[c], SessionOf(c)', phase', saved', req'),
           phase'[c] = "saved" /\ req'[c].kind = "query" =>
             held'[c].case = scope'[c].case /\ Logged(held'[c], saved'[SessionOf(c)']),
           phase'[c] = "saved" /\ req'[c].kind = "fact" => Proper(held'[c], phase', saved', req'),
           \A s \in Sessions : \/ session'[s] = session[s]
                               \/ SoundRecord(session'[s], s, phase', saved', req'),
           \A k \in Cases : \/ file'[k] = file[k]
                            \/ SoundFile(file'[k], k, phase', saved', req')
    PROVE  EvidenceInv'
<1>1. SessionsSound'
  BY UnwrittenSound DEF SessionsSound
<1>2. FilesSound'
  BY UnwrittenSound DEF FilesSound
<1>3. HeldSound'
  <2> SUFFICES ASSUME NEW d \in Calls
               PROVE  /\ phase'[d] = "loaded" /\ held'[d] # None =>
                           SoundRecord(held'[d], SessionOf(d)', phase', saved', req')
                      /\ phase'[d] = "saved" /\ req'[d].kind = "query" =>
                           held'[d].case = scope'[d].case /\ Logged(held'[d], saved'[SessionOf(d)'])
                      /\ phase'[d] = "saved" /\ req'[d].kind = "fact" =>
                           Proper(held'[d], phase', saved', req')
    BY DEF HeldSound
  <2>1. CASE d = c
    BY <2>1
  <2>2. CASE d # c
    BY <2>2, UnwrittenSound
  <2> QED BY <2>1, <2>2
<1> QED BY <1>1, <1>2, <1>3 DEF EvidenceInv

\* What a loaded call builds on is sound.
LEMMA BaseSound ==
    ASSUME TypeInv, EvidenceInv, NEW c \in Calls, phase[c] = "loaded"
    PROVE  SessionOf(c) \in Sessions /\ SoundRecord(Record0(c), SessionOf(c), phase, saved, req)
<1>1. SessionOf(c) \in Sessions
  BY RequestFields DEF TypeInv, HeldInv, SessionOf
<1> QED BY <1>1, NewIsSound DEF EvidenceInv, HeldSound, Record0, OrNew

LEMMA CaseSound ==
    ASSUME EvidenceInv, NEW k \in Cases
    PROVE  SoundFile(CaseOf(k), k, phase, saved, req)
BY NewIsSound DEF EvidenceInv, FilesSound, CaseOf, OrNew

(***************************************************************************)
(* The steps                                                               *)
(***************************************************************************)

LEMMA EnterSound ==
    ASSUME TypeInv, EvidenceInv, NEW c \in Calls, NEW r \in Requests,
           Enter(c, r) \/ EnterUnset(c, r)
    PROVE  EvidenceInv'
<1>1. /\ phase[c] = "new" /\ phase'[c] = "entered"
      /\ \A d \in Calls \ {c} : /\ phase'[d] = phase[d] /\ req'[d] = req[d]
                                /\ scope'[d] = scope[d]
      /\ UNCHANGED <<session, held, file, saved>>
  BY DEF TypeInv, TypeOK, Enter, EnterUnset, Begins, Go
<1>2. Onward(phase, saved, req, phase', saved', req')
  BY <1>1 DEF Onward
<1> QED BY <1>1, <1>2, StepSound

LEMMA LoadSound ==
    ASSUME TypeInv, EvidenceInv, NEW c \in Calls, Load(c)
    PROVE  EvidenceInv'
<1>1. /\ phase[c] = "entered" /\ phase'[c] = "loaded" /\ held'[c] = session[SessionOf(c)]
      /\ \A d \in Calls \ {c} : phase'[d] = phase[d] /\ held'[d] = held[d]
      /\ UNCHANGED <<req, scope, session, file, saved>>
  BY DEF TypeInv, TypeOK, Load, Go
<1>2. Onward(phase, saved, req, phase', saved', req')
  BY <1>1 DEF Onward
<1>3. SessionOf(c) \in Sessions /\ SessionOf(c)' = SessionOf(c)
  BY <1>1, RequestFields DEF TypeInv, HeldInv, SessionOf
<1>4. held'[c] # None => SoundRecord(held'[c], SessionOf(c)', phase', saved', req')
  BY <1>1, <1>2, <1>3, UnwrittenSound
<1> QED BY <1>1, <1>2, <1>4, StepSound

\* A save only adds to what was written.
LEMMA SaveOnward ==
    ASSUME TypeInv, NEW c \in Calls, phase[c] = "loaded", NEW record, NEW type, NEW what,
           [type |-> type, what |-> what] \in Written, Save(c, record, type, what)
    PROVE  /\ Onward(phase, saved, req, phase', saved', req')
           /\ type = "query" => Logged(what, saved'[SessionOf(c)])
<1> DEFINE x == [type |-> type, what |-> what]
           s == SessionOf(c)
<1>1. s \in Sessions
  BY RequestFields DEF TypeInv, HeldInv, SessionOf
<1>2. saved[s] \in Seq(Written) /\ saved' = [saved EXCEPT ![s] = Append(@, x)]
  BY <1>1 DEF TypeInv, TypeOK, Save, Noted
<1>3. x \in Written /\ x.type = type /\ x.what = what
  OBVIOUS
<1>4. UNCHANGED req /\ phase' = [phase EXCEPT ![c] = "saved"]
  BY DEF Save, Go
<1> HIDE DEF x, s
<1>5. saved'[s] = Append(saved[s], x) /\ \A t \in Sessions \ {s} : saved'[t] = saved[t]
  BY <1>1, <1>2 DEF TypeInv, TypeOK
<1>6. /\ \A i \in 1..Len(saved[s]) : i \in 1..Len(saved'[s]) /\ saved'[s][i] = saved[s][i]
      /\ Len(saved[s]) + 1 \in 1..Len(saved'[s]) /\ saved'[s][Len(saved[s]) + 1] = x
  BY <1>2, <1>3, <1>5
<1>7. Onward(phase, saved, req, phase', saved', req')
  BY <1>4, <1>5, <1>6 DEF Onward, TypeInv, TypeOK
<1>8. type = "query" => Logged(what, saved'[s])
  BY <1>3, <1>6 DEF Logged
<1> QED BY <1>7, <1>8 DEF s

\* A save of a sound record keeps the invariant.
LEMMA SaveSound ==
    ASSUME TypeInv, EvidenceInv, NEW c \in Calls, phase[c] = "loaded",
           NEW record, NEW type, NEW what,
           [type |-> type, what |-> what] \in Written, Save(c, record, type, what),
           SoundRecord(record, SessionOf(c), phase', saved', req'),
           req[c].kind = "query" => type = "query" /\ what.case = scope[c].case,
           req[c].kind = "fact" => Proper(what, phase', saved', req')
    PROVE  EvidenceInv'
<1>1. /\ Onward(phase, saved, req, phase', saved', req')
      /\ type = "query" => Logged(what, saved'[SessionOf(c)])
  BY SaveOnward
<1>2. SessionOf(c) \in Sessions /\ SessionOf(c)' = SessionOf(c)
  BY RequestFields DEF TypeInv, HeldInv, SessionOf, Save
<1>3. /\ phase'[c] = "saved" /\ held'[c] = what /\ UNCHANGED <<req, scope, file>>
      /\ \A d \in Calls \ {c} : phase'[d] = phase[d] /\ held'[d] = held[d]
      /\ session'[SessionOf(c)] = record
      /\ \A s \in Sessions \ {SessionOf(c)} : session'[s] = session[s]
  BY <1>2 DEF TypeInv, TypeOK, Save, Go
<1> QED BY <1>1, <1>2, <1>3, StepSound

LEMMA SaveEngagementSound ==
    ASSUME TypeInv, EvidenceInv, NEW c \in Calls, SaveEngagement(c)
    PROVE  EvidenceInv'
<1> DEFINE record == [Record0(c) EXCEPT !.engagement = Merged(c)]
<1>1. phase[c] = "loaded" /\ req[c].kind = "set" /\ Save(c, record, "engagement", Merged(c))
  BY DEF SaveEngagement
<1>2. [type |-> "engagement", what |-> Merged(c)] \in Written
  BY <1>1, MergedType DEF Written
<1>3. SoundRecord(Record0(c), SessionOf(c), phase', saved', req')
  BY <1>1, <1>2, Bases, BaseSound, SaveOnward, OnwardKeeps
<1>4. record.queries = Record0(c).queries /\ record.facts = Record0(c).facts
  BY <1>1, Bases DEF Record
<1>5. SoundRecord(record, SessionOf(c), phase', saved', req')
  BY <1>3, <1>4 DEF SoundRecord
<1> HIDE DEF record
<1> QED BY <1>1, <1>2, <1>5, SaveSound

LEMMA SaveQuerySound ==
    ASSUME TypeInv, EvidenceInv, NEW c \in Calls, SaveQuery(c)
    PROVE  EvidenceInv'
<1>1. phase[c] = "loaded" /\ req[c].kind = "query"
  BY DEF SaveQuery
<1> PICK id \in {c, None} :
      LET entry == [by |-> c, query_id |-> id, mode |-> scope[c].mode, case |-> scope[c].case]
      IN  Save(c, [Record0(c) EXCEPT !.queries = Capped(Append(@, entry), SessionCap)],
               "query", entry)
  BY DEF SaveQuery
<1> DEFINE entry == [by |-> c, query_id |-> id, mode |-> scope[c].mode, case |-> scope[c].case]
           log == Capped(Append(Record0(c).queries, entry), SessionCap)
           record == [Record0(c) EXCEPT !.queries = log]
<1>2. entry \in Query /\ entry.case = scope[c].case
  BY DEF TypeInv, TypeOK, Query
<1>3. Save(c, record, "query", entry)
  OBVIOUS
<1> HIDE DEF entry
<1>4. \A q \in Elements(log) : q \in Elements(Record0(c).queries) \/ q = entry
  BY <1>1, <1>2, Bases, AddToLog, EngagementAssumption
<1> HIDE DEF log
<1>5. record.queries = log /\ record.facts = Record0(c).facts
  BY <1>1, Bases DEF Record
<1> HIDE DEF record
<1>6. [type |-> "query", what |-> entry] \in Written
  BY <1>2 DEF Written
<1>7. /\ SoundRecord(Record0(c), SessionOf(c), phase', saved', req')
      /\ Logged(entry, saved'[SessionOf(c)])
  BY <1>1, <1>3, <1>6, Bases, BaseSound, SaveOnward, OnwardKeeps
<1>8. SoundRecord(record, SessionOf(c), phase', saved', req')
  BY <1>4, <1>5, <1>7 DEF SoundRecord
<1> QED BY <1>1, <1>2, <1>3, <1>6, <1>8, SaveSound

\* The lookup of record_fact finds a query of the session or of the case.
LEMMA KnownIsCited ==
    ASSUME TypeInv, EvidenceInv, NEW c \in Calls, phase[c] = "loaded", Accepts(c),
           NEW f \in Fact, f.by = c, f.evidence = req[c].evidence,
           f.case = Record0(c).engagement.case
    PROVE  Proper(f, phase, saved, req)
<1> DEFINE k == f.case
<1>1. /\ SessionOf(c) \in Sessions
      /\ \A q \in Elements(Record0(c).queries) : Logged(q, saved[SessionOf(c)])
  BY BaseSound DEF SoundRecord
<1>2. CASE \E q \in Elements(Record0(c).queries) : q.query_id = f.evidence
  BY <1>1, <1>2 DEF Proper, Cited, Logged, SessionOf
<1>3. CASE k # None /\ \E q \in Elements(CaseOf(k).queries) : q.query_id = f.evidence
  <2>1. k \in Cases
    BY <1>3 DEF Fact
  <2>2. \A q \in Elements(CaseOf(k).queries) : q.case = k /\ \E s \in Sessions : Logged(q, saved[s])
    BY <2>1, CaseSound DEF SoundFile
  <2> QED BY <1>3, <2>2 DEF Proper, Cited, Logged
<1> QED BY <1>2, <1>3 DEF Accepts, Known

LEMMA SaveFactSound ==
    ASSUME TypeInv, EvidenceInv, NEW c \in Calls, SaveFact(c)
    PROVE  EvidenceInv'
<1> DEFINE e == Record0(c).engagement
           fact == [by |-> c, evidence |-> req[c].evidence, mode |-> e.mode, case |-> e.case]
           log == Capped(Append(Record0(c).facts, fact), SessionCap)
           record == [Record0(c) EXCEPT !.facts = log]
<1>1. /\ phase[c] = "loaded" /\ req[c].kind = "fact" /\ Accepts(c)
      /\ Save(c, record, "fact", fact)
  BY DEF SaveFact
<1>2. e \in Scoped /\ e.mode # Unset
  BY <1>1, Bases DEF Accepts
<1>3. req[c].evidence \in Calls
  BY <1>1, RequestFields DEF TypeInv, HeldInv
<1>4. fact.by = c /\ fact.evidence = req[c].evidence /\ fact.case = Record0(c).engagement.case
  OBVIOUS
<1> HIDE DEF e
<1>5. fact \in Fact
  BY <1>2, <1>3 DEF Scoped, Fact
<1> HIDE DEF fact
<1>6. \A f \in Elements(log) : f \in Elements(Record0(c).facts) \/ f = fact
  BY <1>1, <1>5, Bases, AddToLog, EngagementAssumption
<1> HIDE DEF log
<1>7. record.queries = Record0(c).queries /\ record.facts = log
  BY <1>1, Bases DEF Record
<1> HIDE DEF record
<1>8. [type |-> "fact", what |-> fact] \in Written
  BY <1>5 DEF Written
<1>9. Proper(fact, phase, saved, req)
  BY <1>1, <1>4, <1>5, KnownIsCited
<1>10. /\ SoundRecord(Record0(c), SessionOf(c), phase', saved', req')
       /\ Proper(fact, phase', saved', req')
  BY <1>1, <1>5, <1>8, <1>9, Bases, BaseSound, SaveOnward, OnwardKeeps
<1>11. SoundRecord(record, SessionOf(c), phase', saved', req')
  BY <1>6, <1>7, <1>10 DEF SoundRecord
<1> QED BY <1>1, <1>8, <1>10, <1>11, SaveSound

\* A call that ends writes one case, soundly, or none.
LEMMA EndSound ==
    ASSUME TypeInv, EvidenceInv, NEW c \in Calls, NEW to \in {"done", "failed"},
           phase[c] # "new", End(c, to), UNCHANGED <<req, session, saved>>,
           \A k \in Cases : \/ file'[k] = file[k]
                            \/ file'[k] \in CaseFile /\ SoundFile(file'[k], k, phase, saved, req)
    PROVE  EvidenceInv'
<1>1. /\ phase'[c] = to
      /\ \A d \in Calls \ {c} : /\ phase'[d] = phase[d] /\ held'[d] = held[d]
                                /\ scope'[d] = scope[d]
  BY DEF TypeInv, TypeOK, End, Go
<1>2. \A d \in Calls : (phase[d] # "new" => phase'[d] # "new")
  BY <1>1
<1>3. Onward(phase, saved, req, phase', saved', req')
  BY <1>2 DEF Onward
<1>4. \A k \in Cases : \/ file'[k] = file[k]
                     \/ SoundFile(file'[k], k, phase', saved', req')
  BY <1>3, OnwardKeeps
<1> QED BY <1>1, <1>3, <1>4, StepSound

\* What CaseStore.update leaves in the cases.
LEMMA UpdateSound ==
    ASSUME TypeInv, NEW k \in Cases \cup {None}, NEW case, Update(k, case),
           k \in Cases => case \in CaseFile /\ SoundFile(case, k, phase, saved, req)
    PROVE  \A j \in Cases : \/ file'[j] = file[j]
                            \/ file'[j] \in CaseFile /\ SoundFile(file'[j], j, phase, saved, req)
<1>1. file' = file \/ (k \in Cases /\ file' = [file EXCEPT ![k] = case])
  BY DEF Update
<1>2. ASSUME k \in Cases, file' = [file EXCEPT ![k] = case]
      PROVE  file'[k] = case /\ \A j \in Cases \ {k} : file'[j] = file[j]
  BY <1>2 DEF TypeInv, TypeOK
<1> QED BY <1>1, <1>2

LEMMA StoreEngagementSound ==
    ASSUME TypeInv, EvidenceInv, NEW c \in Calls, StoreEngagement(c)
    PROVE  EvidenceInv'
<1> DEFINE k == req[c].case
           case == [CaseOf(k) EXCEPT !.engagement = held[c]]
<1>1. /\ phase[c] = "saved" /\ req[c].kind = "set" /\ Update(k, case) /\ End(c, "done")
      /\ UNCHANGED <<req, session, saved>>
  BY DEF StoreEngagement
<1>2. k \in Cases \cup {None} /\ held[c] \in Scoped
  BY <1>1, RequestFields DEF TypeInv, HeldInv
<1> HIDE DEF k
<1>3. k \in Cases => /\ case \in CaseFile
                     /\ case.queries = CaseOf(k).queries /\ case.facts = CaseOf(k).facts
  BY <1>2, Files DEF CaseFile
<1> HIDE DEF case
<1>4. k \in Cases => SoundFile(case, k, phase, saved, req)
  BY <1>3, CaseSound DEF SoundFile
<1> QED BY <1>1, <1>2, <1>3, <1>4, UpdateSound, EndSound

LEMMA StoreQuerySound ==
    ASSUME TypeInv, EvidenceInv, NEW c \in Calls, StoreQuery(c)
    PROVE  EvidenceInv'
<1> DEFINE k == scope[c].case
           log == Capped(Append(CaseOf(k).queries, held[c]), CaseCap)
           case == [CaseOf(k) EXCEPT !.queries = log]
<1>1. /\ phase[c] = "saved" /\ req[c].kind = "query" /\ Update(k, case) /\ End(c, "done")
      /\ UNCHANGED <<req, session, saved>>
  BY DEF StoreQuery
<1>2. /\ k \in Cases \cup {None} /\ held[c] \in Query /\ held[c].case = k
      /\ \E s \in Sessions : Logged(held[c], saved[s])
  BY <1>1, RequestFields DEF TypeInv, TypeOK, HeldInv, EvidenceInv, HeldSound, SessionOf
<1> HIDE DEF k
<1>3. k \in Cases => /\ log \in Seq(Query)
                     /\ \A q \in Elements(log) : q \in Elements(CaseOf(k).queries) \/ q = held[c]
  BY <1>2, Files, AddToLog, EngagementAssumption
<1> HIDE DEF log
<1>4. k \in Cases => /\ case \in CaseFile
                     /\ case.queries = log /\ case.facts = CaseOf(k).facts
  BY <1>3, Files DEF CaseFile
<1> HIDE DEF case
<1>5. k \in Cases => SoundFile(case, k, phase, saved, req)
  BY <1>2, <1>3, <1>4, CaseSound DEF SoundFile
<1> QED BY <1>1, <1>2, <1>4, <1>5, UpdateSound, EndSound

LEMMA StoreFactSound ==
    ASSUME TypeInv, EvidenceInv, NEW c \in Calls, StoreFact(c)
    PROVE  EvidenceInv'
<1> DEFINE k == held[c].case
           log == Capped(Append(CaseOf(k).facts, held[c]), CaseCap)
           case == [CaseOf(k) EXCEPT !.facts = log]
<1>1. /\ phase[c] = "saved" /\ req[c].kind = "fact" /\ Update(k, case) /\ End(c, "done")
      /\ UNCHANGED <<req, session, saved>>
  BY DEF StoreFact
<1>2. /\ k \in Cases \cup {None} /\ held[c] \in Fact
      /\ Proper(held[c], phase, saved, req)
  BY <1>1 DEF TypeInv, HeldInv, Fact, EvidenceInv, HeldSound
<1> HIDE DEF k
<1>3. k \in Cases => /\ log \in Seq(Fact)
                     /\ \A f \in Elements(log) : f \in Elements(CaseOf(k).facts) \/ f = held[c]
  BY <1>2, Files, AddToLog, EngagementAssumption
<1> HIDE DEF log
<1>4. k \in Cases => /\ case \in CaseFile
                     /\ case.queries = CaseOf(k).queries /\ case.facts = log
  BY <1>3, Files DEF CaseFile
<1> HIDE DEF case
<1>5. k \in Cases => SoundFile(case, k, phase, saved, req)
  BY <1>2, <1>3, <1>4, CaseSound DEF SoundFile
<1> QED BY <1>1, <1>2, <1>4, <1>5, UpdateSound, EndSound

\* A record that is gone holds nothing; a call that is cut off holds nothing.
LEMMA EnvironmentSound ==
    ASSUME TypeInv, EvidenceInv, (\E s \in Sessions : Expire(s)) \/ Restart
    PROVE  EvidenceInv'
<1>1. /\ \A s \in Sessions : session'[s] \in {session[s], None}
      /\ UNCHANGED <<req, file, saved>>
      /\ \A c \in Calls : \/ phase'[c] = phase[c] /\ held'[c] = held[c] /\ scope'[c] = scope[c]
                        \/ phase'[c] \notin {"loaded", "saved"}
      /\ \A c \in Calls : phase[c] # "new" => phase'[c] # "new"
  <2>1. CASE \E s \in Sessions : Expire(s)
    BY <2>1 DEF TypeInv, TypeOK, Expire
  <2>2. CASE Restart
    BY <2>2 DEF TypeInv, TypeOK, Restart, Over, Phases
  <2> QED BY <2>1, <2>2
<1>2. Onward(phase, saved, req, phase', saved', req')
  BY <1>1 DEF Onward
<1>3. SessionsSound' /\ FilesSound'
  BY <1>1, <1>2, UnwrittenSound DEF SessionsSound, FilesSound
<1>4. HeldSound'
  BY <1>1, <1>2, UnwrittenSound DEF HeldSound
<1> QED BY <1>3, <1>4 DEF EvidenceInv

LEMMA NextSound == TypeInv /\ EvidenceInv /\ [Next]_vars => EvidenceInv'
<1> SUFFICES ASSUME TypeInv, EvidenceInv, [Next]_vars PROVE EvidenceInv'
  OBVIOUS
<1>1. ASSUME NEW c \in Calls, NEW r \in Requests, Enter(c, r) \/ EnterUnset(c, r)
      PROVE  EvidenceInv'
  BY <1>1, EnterSound
<1>2. ASSUME NEW c \in Calls, Load(c) PROVE EvidenceInv'
  BY <1>2, LoadSound
<1>3. ASSUME NEW c \in Calls, SaveEngagement(c) \/ SaveQuery(c) \/ SaveFact(c) PROVE EvidenceInv'
  BY <1>3, SaveEngagementSound, SaveQuerySound, SaveFactSound
<1>4. ASSUME NEW c \in Calls, StoreEngagement(c) \/ StoreQuery(c) \/ StoreFact(c)
      PROVE  EvidenceInv'
  BY <1>4, StoreEngagementSound, StoreQuerySound, StoreFactSound
<1>5. ASSUME NEW c \in Calls, RefuseFact(c) \/ Raise(c) PROVE EvidenceInv'
  <2>1. phase[c] # "new" /\ End(c, "failed") /\ UNCHANGED <<req, session, file, saved>>
    BY <1>5 DEF RefuseFact, Raise
  <2> QED BY <2>1, EndSound
<1>6. CASE (\E s \in Sessions : Expire(s)) \/ Restart
  BY <1>6, EnvironmentSound
<1>7. CASE UNCHANGED vars
  BY <1>7 DEF EvidenceInv, SessionsSound, FilesSound, HeldSound, SessionOf, vars
<1> QED BY <1>1, <1>2, <1>3, <1>4, <1>5, <1>6, <1>7 DEF Next, Idle

LEMMA InitSound == Init => EvidenceInv
BY DEF Init, EvidenceInv, SessionsSound, FilesSound, HeldSound

\* Every fact, in a session record or in a case file, cites a query that was
\* logged in its session or under its case, however calls of any number of
\* sessions interleave, fail or are cut off (the lookup of record_fact).
THEOREM EvidenceKept == Spec => []FactsAreEvidenced
<1>1. EvidenceInv => FactsAreEvidenced
  BY DEF EvidenceInv, SessionsSound, FilesSound, SoundRecord, SoundFile, Proper, Cited,
         FactsAreEvidenced, Evidenced, SessionOf
<1>2. Init => TypeInv /\ EvidenceInv
  BY InitTypes, InitSound
<1>3. TypeInv /\ EvidenceInv /\ [Next]_vars => (TypeInv /\ EvidenceInv)'
  BY NextTypes, NextSound
<1> QED BY <1>1, <1>2, <1>3, PTL DEF Spec

(***************************************************************************)
(* Turns: the session lock                                                 *)
(***************************************************************************)

\* A record cut to the limits of the session store.
Cut(r) == [engagement |-> r.engagement, facts |-> Capped(r.facts, SessionCap),
           queries |-> Capped(r.queries, SessionCap)]

\* The record a call builds from r when it writes what.
Built(r, type, what) ==
    [engagement |-> IF type = "engagement" THEN what ELSE r.engagement,
     facts   |-> IF type = "fact"  THEN Capped(Append(r.facts, what), SessionCap) ELSE r.facts,
     queries |-> IF type = "query" THEN Capped(Append(r.queries, what), SessionCap) ELSE r.queries]

\* From its load to its end a call has the lock of its session; the record it
\* loaded is the one it will replace.
Locking(c) == phase[c] \in {"loaded", "saved"} => lock[SessionOf(c)] = c
Fresh(c)   == phase[c] = "loaded" => held[c] = session[SessionOf(c)]

TurnInv ==
    /\ \A c \in Calls : Locking(c) /\ Fresh(c)
    /\ \A s \in Sessions : OrNew(session[s], NewRecord) = Cut(since[s])

\* The tail of a log of at most n entries, of which there is at least one.
LEMMA CappedMeans ==
    ASSUME NEW S, NEW seq \in Seq(S), NEW n \in Nat
    PROVE  /\ Capped(seq, n) \in Seq(S)
           /\ Len(Capped(seq, n)) = IF Len(seq) <= n THEN Len(seq) ELSE n
           /\ \A i \in 1..Len(Capped(seq, n)) :
                Capped(seq, n)[i] = seq[Len(seq) - Len(Capped(seq, n)) + i]
<1>1. CASE Len(seq) <= n
  <2>1. Capped(seq, n) = seq /\ Len(seq) \in Nat
    BY <1>1 DEF Capped
  <2> QED BY <1>1, <2>1
<1>2. CASE ~(Len(seq) <= n)
  <2> DEFINE m == Len(seq) - n + 1
             cut == SubSeq(seq, m, Len(seq))
  <2>1. Len(seq) \in Nat /\ m \in 1..Len(seq) + 1 /\ m \in Nat /\ m >= 1
    BY <1>2
  <2>2. /\ cut \in Seq(S) /\ Len(cut) = n
        /\ \A i \in 1..n : cut[i] = seq[m + i - 1]
    BY <2>1
  <2>3. Capped(seq, n) = cut
    BY <1>2 DEF Capped
  <2>4. \A i \in 1..n : m + i - 1 = Len(seq) - n + i
    BY <2>1
  <2> HIDE DEF m, cut
  <2> QED BY <1>2, <2>2, <2>3, <2>4
<1> QED BY <1>1, <1>2

\* Cutting a log, adding to it and cutting again is adding and cutting once.
LEMMA CapAgain ==
    ASSUME NEW S, NEW seq \in Seq(S), NEW x \in S, NEW n \in Nat \ {0}
    PROVE  Capped(Append(Capped(seq, n), x), n) = Capped(Append(seq, x), n)
<1> DEFINE c == Capped(seq, n)
           a == Append(c, x)
           b == Append(seq, x)
           u == Capped(a, n)
           v == Capped(b, n)
<1>1. Len(seq) \in Nat /\ n \in Nat
  OBVIOUS
<1>2. /\ c \in Seq(S) /\ Len(c) = IF Len(seq) <= n THEN Len(seq) ELSE n
      /\ \A i \in 1..Len(c) : c[i] = seq[Len(seq) - Len(c) + i]
  BY CappedMeans
<1> HIDE DEF c
<1>3. /\ a \in Seq(S) /\ Len(a) = Len(c) + 1 /\ a[Len(c) + 1] = x
      /\ \A i \in 1..Len(c) : a[i] = c[i]
  BY <1>2
<1>4. /\ b \in Seq(S) /\ Len(b) = Len(seq) + 1 /\ b[Len(seq) + 1] = x
      /\ \A i \in 1..Len(seq) : b[i] = seq[i]
  OBVIOUS
<1> HIDE DEF a, b
<1>5. /\ u \in Seq(S) /\ Len(u) = IF Len(a) <= n THEN Len(a) ELSE n
      /\ \A i \in 1..Len(u) : u[i] = a[Len(a) - Len(u) + i]
  BY <1>1, <1>3, CappedMeans
<1>b. b \in Seq(S)
  BY <1>4
<1>6. /\ v \in Seq(S) /\ Len(v) = IF Len(b) <= n THEN Len(b) ELSE n
      /\ \A i \in 1..Len(v) : v[i] = b[Len(b) - Len(v) + i]
  BY <1>1, <1>b, CappedMeans
<1> HIDE DEF u, v
<1>l. /\ Len(c) = IF Len(seq) <= n THEN Len(seq) ELSE n
      /\ Len(a) = Len(c) + 1 /\ Len(b) = Len(seq) + 1
      /\ Len(u) = IF Len(a) <= n THEN Len(a) ELSE n
      /\ Len(v) = IF Len(b) <= n THEN Len(b) ELSE n
      /\ Len(c) \in Nat /\ Len(a) \in Nat /\ Len(b) \in Nat /\ Len(u) \in Nat
  BY <1>2, <1>3, <1>4, <1>5, <1>6
<1>7. Len(u) = Len(v)
  BY <1>1, <1>l
<1>8. ASSUME NEW i \in 1..Len(u) PROVE u[i] = v[i]
  <2> DEFINE j == Len(a) - Len(u) + i
             k == Len(b) - Len(u) + i
  <2>1. u[i] = a[j] /\ v[i] = b[k]
    BY <1>5, <1>6, <1>7
  <2>0. i \in Nat /\ 1 <= i /\ i <= Len(u)
    BY <1>l
  <2>a. Len(u) <= Len(a) /\ Len(u) <= Len(b)
    BY <1>1, <1>7, <1>l
  <2>b. j = Len(a) - Len(u) + i /\ k = Len(b) - Len(u) + i
    OBVIOUS
  <2> HIDE DEF j, k
  <2>2. j \in 1..Len(a) /\ k \in 1..Len(b) /\ Len(b) - k = Len(a) - j
    <3>1. \A x1, x2, x3, x4 \in Nat : 1 <= x4 /\ x4 <= x3 /\ x3 <= x1 /\ x3 <= x2 =>
             /\ x1 - x3 + x4 \in 1..x1 /\ x2 - x3 + x4 \in 1..x2
             /\ x2 - (x2 - x3 + x4) = x1 - (x1 - x3 + x4)
      OBVIOUS
    <3>2. Len(a) \in Nat /\ Len(b) \in Nat /\ Len(u) \in Nat
      BY <1>l
    <3> QED BY <2>0, <2>a, <2>b, <3>1, <3>2
  <2>3. CASE j = Len(c) + 1
    <3>1. k = Len(seq) + 1
      BY <1>1, <1>l, <2>2, <2>3
    <3> QED BY <3>1, <2>1, <2>3, <1>3, <1>4
  <2>4. CASE j # Len(c) + 1
    <3>1. j \in 1..Len(c) /\ k \in 1..Len(seq) /\ Len(seq) - Len(c) + j = k
      BY <1>1, <1>l, <2>2, <2>4
    <3>2. a[j] = seq[Len(seq) - Len(c) + j] /\ b[k] = seq[k]
      BY <3>1, <1>2, <1>3, <1>4
    <3> QED BY <3>1, <3>2, <2>1
  <2> QED BY <2>3, <2>4
<1>9. u = v
  BY <1>5, <1>6, <1>7, <1>8
<1> QED BY <1>9 DEF a, b, c, u, v

LEMMA BuiltIsCut ==
    ASSUME NEW r \in Record, NEW type, NEW what,
           type = "fact" => what \in Fact, type = "query" => what \in Query
    PROVE  Built(Cut(r), type, what) = Cut(Added(r, type, what))
<1>1. r.facts \in Seq(Fact) /\ r.queries \in Seq(Query) /\ SessionCap \in Nat \ {0}
  BY EngagementAssumption DEF Record
<1>2. type = "fact" => Capped(Append(Capped(r.facts, SessionCap), what), SessionCap)
                         = Capped(Append(r.facts, what), SessionCap)
  BY <1>1, CapAgain
<1>3. type = "query" => Capped(Append(Capped(r.queries, SessionCap), what), SessionCap)
                          = Capped(Append(r.queries, what), SessionCap)
  BY <1>1, CapAgain
<1> QED BY <1>2, <1>3 DEF Built, Cut, Added

LEMMA BuiltType ==
    ASSUME NEW r \in Record, NEW type, NEW what, type = "engagement" => what \in Scoped,
           type = "fact" => what \in Fact, type = "query" => what \in Query
    PROVE  Built(r, type, what) \in Record /\ Built(r, type, what) # None
<1>1. Built(r, type, what) \in Record
  BY AddToLog, EngagementAssumption DEF Built, Record
<1> QED BY <1>1, NoneAssumption

LEMMA CutType ==
    ASSUME NEW r \in Record
    PROVE  Cut(r) \in Record
BY CappedLog, EngagementAssumption DEF Cut, Record

LEMMA AddedType ==
    ASSUME NEW r \in Record, NEW type, NEW what, type = "engagement" => what \in Scoped,
           type = "fact" => what \in Fact, type = "query" => what \in Query
    PROVE  Added(r, type, what) \in Record
BY AppendLog DEF Added, Record

LEMMA CutNew == Cut(NewRecord) = NewRecord
<1>1. Capped(<<>>, SessionCap) = <<>>
  BY EngagementAssumption DEF Capped
<1> QED BY <1>1 DEF Cut, NewRecord

\* What a call that writes does to its session and to the logs.
SaveEffects(c, type, what) ==
    /\ session' = [session EXCEPT ![SessionOf(c)] = Built(Record0(c), type, what)]
    /\ Noted(c, type, what)
    /\ held' = [held EXCEPT ![c] = what]
    /\ phase' = [phase EXCEPT ![c] = "saved"]
    /\ UNCHANGED <<req, scope, lock, file>>
    /\ \/ type = "engagement" /\ what = Merged(c) /\ req[c].kind = "set" /\ what \in Scoped
       \/ type = "query" /\ req[c].kind = "query" /\ what \in Query /\ what.by = c
       \/ type = "fact" /\ req[c].kind = "fact" /\ what \in Fact /\ what.by = c

LEMMA SavesMean ==
    ASSUME TypeInv, NEW c \in Calls, SaveEngagement(c) \/ SaveQuery(c) \/ SaveFact(c)
    PROVE  /\ phase[c] = "loaded" /\ SessionOf(c) \in Sessions
           /\ \E type, what : SaveEffects(c, type, what)
<1>1. phase[c] = "loaded"
  BY DEF SaveEngagement, SaveQuery, SaveFact
<1>2. SessionOf(c) \in Sessions
  BY <1>1, RequestFields DEF TypeInv, HeldInv, SessionOf
<1>3. Record0(c) \in Record /\ Record0(c).engagement \in Scoped
  BY <1>1, Bases
<1>4. ASSUME SaveEngagement(c) PROVE SaveEffects(c, "engagement", Merged(c))
  <2>1. Merged(c) \in Scoped
    BY <1>1, <1>4, MergedType DEF SaveEngagement
  <2>2. [Record0(c) EXCEPT !.engagement = Merged(c)] = Built(Record0(c), "engagement", Merged(c))
    BY <1>3 DEF Built, Record
  <2> QED BY <1>4, <2>1, <2>2 DEF SaveEngagement, Save, SaveEffects, Go
<1>5. ASSUME SaveQuery(c) PROVE \E what : SaveEffects(c, "query", what)
  <2>1. PICK id \in {c, None} :
          LET entry == [by |-> c, query_id |-> id, mode |-> scope[c].mode, case |-> scope[c].case]
          IN  Save(c, [Record0(c) EXCEPT !.queries = Capped(Append(@, entry), SessionCap)],
                   "query", entry)
    BY <1>5 DEF SaveQuery
  <2> DEFINE entry == [by |-> c, query_id |-> id, mode |-> scope[c].mode, case |-> scope[c].case]
  <2>2. entry \in Query /\ entry.by = c
    BY DEF Query, TypeInv, TypeOK
  <2>3. Save(c, [Record0(c) EXCEPT !.queries = Capped(Append(@, entry), SessionCap)], "query", entry)
    BY <2>1
  <2> HIDE DEF entry
  <2>4. [Record0(c) EXCEPT !.queries = Capped(Append(@, entry), SessionCap)]
          = Built(Record0(c), "query", entry)
    BY <1>3 DEF Built, Record
  <2> QED BY <1>5, <2>2, <2>3, <2>4 DEF SaveQuery, Save, SaveEffects, Go
<1>6. ASSUME SaveFact(c) PROVE \E what : SaveEffects(c, "fact", what)
  <2> DEFINE e == Record0(c).engagement
             fact == [by |-> c, evidence |-> req[c].evidence, mode |-> e.mode, case |-> e.case]
  <2>1. Save(c, [Record0(c) EXCEPT !.facts = Capped(Append(@, fact), SessionCap)], "fact", fact)
    BY <1>6 DEF SaveFact
  <2>2. e.mode \in Modes /\ e.case \in Cases \cup {None} /\ req[c].evidence \in Calls
    BY <1>1, <1>3, <1>6, RequestFields DEF Scoped, SaveFact, Accepts, TypeInv, HeldInv
  <2>3. fact \in Fact /\ fact.by = c
    BY <2>2 DEF Fact
  <2> HIDE DEF fact, e
  <2>4. [Record0(c) EXCEPT !.facts = Capped(Append(@, fact), SessionCap)]
          = Built(Record0(c), "fact", fact)
    BY <1>3 DEF Built, Record
  <2> QED BY <1>6, <2>1, <2>3, <2>4 DEF SaveFact, Save, SaveEffects, Go
<1> QED BY <1>1, <1>2, <1>4, <1>5, <1>6

LEMMA SaveTurn ==
    ASSUME TypeInv, TurnInv, NEW c \in Calls, phase[c] = "loaded", SessionOf(c) \in Sessions,
           NEW type, NEW what, SaveEffects(c, type, what)
    PROVE  TurnInv'
<1> DEFINE s == SessionOf(c)
<1>1. /\ session'[s] = Built(Record0(c), type, what)
      /\ \A t \in Sessions \ {s} : session'[t] = session[t] /\ since'[t] = since[t]
      /\ since'[s] = Added(since[s], type, what)
      /\ phase'[c] = "saved" /\ \A d \in Calls \ {c} : phase'[d] = phase[d] /\ held'[d] = held[d]
      /\ UNCHANGED <<req, lock>>
  BY DEF TypeInv, TypeOK, SaveEffects, Noted
<1>2. Record0(c) = Cut(since[s])
  BY DEF TurnInv, Fresh, Record0
<1>3. since[s] \in Record
  BY DEF TypeInv, TypeOK
<1>4. session'[s] = Cut(since'[s])
  <2>1. /\ type = "fact" => what \in Fact
        /\ type = "query" => what \in Query
    BY DEF SaveEffects
  <2>2. Built(Cut(since[s]), type, what) = Cut(Added(since[s], type, what))
    BY <1>3, <2>1, BuiltIsCut
  <2> QED BY <1>1, <1>2, <2>2
<1>5. session'[s] # None
  <2>1. since'[s] \in Record
    BY <1>1, <1>3, AddedType DEF SaveEffects
  <2> QED BY <1>4, <2>1, CutType, NoneAssumption
<1>6. \A t \in Sessions : OrNew(session'[t], NewRecord) = Cut(since'[t])
  BY <1>1, <1>4, <1>5 DEF TurnInv, OrNew
<1>7. \A d \in Calls : Locking(d)'
  BY <1>1 DEF TurnInv, Locking, SessionOf
<1>8. ASSUME NEW d \in Calls, phase'[d] = "loaded"
      PROVE  held'[d] = session'[SessionOf(d)']
  <2>1. d # c /\ phase[d] = "loaded" /\ SessionOf(d)' = SessionOf(d)
    BY <1>1, <1>8 DEF SessionOf
  <2>2. SessionOf(d) \in Sessions /\ SessionOf(d) # s
    BY <2>1, RequestFields DEF TypeInv, HeldInv, SessionOf, TurnInv, Locking
  <2> QED BY <1>1, <2>1, <2>2 DEF TurnInv, Fresh
<1>9. (\A d \in Calls : Locking(d) /\ Fresh(d))'
  BY <1>7, <1>8 DEF Fresh
<1> QED BY <1>6, <1>9 DEF TurnInv

\* A step that writes no session record, and takes or gives back a lock for c only.
LEMMA OtherTurn ==
    ASSUME TypeInv, TurnInv, NEW c \in Calls, UNCHANGED <<session, since>>,
           \A d \in Calls \ {c} : /\ phase'[d] = phase[d] /\ held'[d] = held[d]
                                  /\ req'[d] = req[d],
           \A s \in Sessions : lock'[s] = lock[s] \/ lock[s] \in {c, None},
           phase'[c] \in {"loaded", "saved"} => lock'[SessionOf(c)'] = c,
           phase'[c] = "loaded" => held'[c] = session[SessionOf(c)']
    PROVE  TurnInv'
<1>1. ASSUME NEW d \in Calls PROVE Locking(d)' /\ Fresh(d)'
  <2>1. CASE d = c
    BY <2>1 DEF Locking, Fresh
  <2>2. CASE d # c
    <3>1. phase'[d] = phase[d] /\ held'[d] = held[d] /\ SessionOf(d)' = SessionOf(d)
      BY <2>2 DEF SessionOf
    <3>2. Locking(d) /\ Fresh(d)
      BY DEF TurnInv
    <3>3. phase[d] \in {"loaded", "saved"} => lock'[SessionOf(d)] = d
      <4> SUFFICES ASSUME phase[d] \in {"loaded", "saved"} PROVE lock'[SessionOf(d)] = d
        OBVIOUS
      <4>1. SessionOf(d) \in Sessions
        BY RequestFields DEF TypeInv, HeldInv, SessionOf
      <4>2. lock[SessionOf(d)] = d /\ d # None
        BY <3>2, EngagementAssumption DEF Locking
      <4> QED BY <2>2, <4>1, <4>2
    <3> QED BY <3>1, <3>2, <3>3 DEF Locking, Fresh
  <2> QED BY <2>1, <2>2
<1>2. \A s \in Sessions : OrNew(session'[s], NewRecord) = Cut(since'[s])
  BY DEF TurnInv
<1>3. (\A d \in Calls : Locking(d) /\ Fresh(d))'
  BY <1>1
<1> QED BY <1>2, <1>3 DEF TurnInv

\* The end of a call.
LEMMA EndTurn ==
    ASSUME TypeInv, TurnInv, NEW c \in Calls, NEW to \in {"done", "failed"},
           End(c, to), UNCHANGED <<req, session, since>>
    PROVE  TurnInv'
<1>1. /\ phase'[c] = to
      /\ \A d \in Calls \ {c} : phase'[d] = phase[d] /\ held'[d] = held[d]
  BY DEF TypeInv, TypeOK, End, Go
<1>2. \A s \in Sessions : lock'[s] = lock[s] \/ lock[s] = c
  BY DEF End
<1> QED BY <1>1, <1>2, OtherTurn

LEMMA BeginTurn ==
    ASSUME TypeInv, TurnInv, NEW c \in Calls, NEW r \in Requests, Enter(c, r) \/ EnterUnset(c, r)
    PROVE  TurnInv'
<1>1. /\ phase' = [phase EXCEPT ![c] = "entered"] /\ req' = [req EXCEPT ![c] = r]
      /\ UNCHANGED <<session, lock, held, since>>
  BY DEF Enter, EnterUnset, Begins, Go
<1>2. /\ phase'[c] = "entered"
      /\ \A d \in Calls \ {c} : phase'[d] = phase[d] /\ held'[d] = held[d] /\ req'[d] = req[d]
  BY <1>1 DEF TypeInv, TypeOK
<1> QED BY <1>1, <1>2, OtherTurn

LEMMA LoadTurn ==
    ASSUME TypeInv, TurnInv, NEW c \in Calls, Load(c)
    PROVE  TurnInv'
<1>1. SessionOf(c) \in Sessions /\ SessionOf(c)' = SessionOf(c)
  BY RequestFields DEF TypeInv, HeldInv, SessionOf, Load
<1>2. /\ phase'[c] = "loaded" /\ held'[c] = session[SessionOf(c)] /\ lock'[SessionOf(c)] = c
      /\ lock[SessionOf(c)] = None
      /\ \A d \in Calls \ {c} : phase'[d] = phase[d] /\ held'[d] = held[d] /\ req'[d] = req[d]
      /\ \A s \in Sessions \ {SessionOf(c)} : lock'[s] = lock[s]
      /\ UNCHANGED <<session, since>>
  BY <1>1 DEF TypeInv, TypeOK, Load, Go
<1> QED BY <1>1, <1>2, OtherTurn

\* Records are gone with what was noted of them; a record in use is not gone.
LEMMA EnvironmentTurn ==
    ASSUME TypeInv, TurnInv, (\E s \in Sessions : Expire(s)) \/ Restart
    PROVE  TurnInv'
<1>1. ASSUME NEW s \in Sessions, Expire(s) PROVE TurnInv'
  <2>1. /\ session'[s] = None /\ since'[s] = NewRecord /\ lock[s] = None
        /\ \A t \in Sessions \ {s} : session'[t] = session[t] /\ since'[t] = since[t]
        /\ UNCHANGED <<phase, req, lock, held>>
    BY <1>1 DEF TypeInv, TypeOK, Expire, Gone
  <2>2. \A t \in Sessions : OrNew(session'[t], NewRecord) = Cut(since'[t])
    BY <2>1, CutNew DEF TurnInv, OrNew
  <2>3. ASSUME NEW d \in Calls PROVE Locking(d)' /\ Fresh(d)'
    <3>1. Locking(d) /\ Fresh(d) /\ SessionOf(d)' = SessionOf(d) /\ d # None
      BY <2>1, EngagementAssumption DEF TurnInv, SessionOf
    <3>2. phase[d] = "loaded" => SessionOf(d) \in Sessions /\ SessionOf(d) # s
      BY <2>1, <3>1, RequestFields DEF TypeInv, HeldInv, SessionOf, Locking
    <3> QED BY <2>1, <3>1, <3>2 DEF Locking, Fresh
  <2>4. (\A d \in Calls : Locking(d) /\ Fresh(d))'
    BY <2>3
  <2> QED BY <2>2, <2>4 DEF TurnInv
<1>2. ASSUME Restart PROVE TurnInv'
  <2>1. \A t \in Sessions : session'[t] = None /\ since'[t] = NewRecord
    BY <1>2 DEF Restart, Gone
  <2>2. \A d \in Calls : phase'[d] \notin {"loaded", "saved"}
    BY <1>2 DEF TypeInv, TypeOK, Restart, Over, Phases
  <2>3. (\A d \in Calls : Locking(d) /\ Fresh(d))'
    BY <2>2 DEF Locking, Fresh
  <2> QED BY <2>1, <2>3, CutNew DEF TurnInv, OrNew
<1> QED BY <1>1, <1>2

\* A step of a call that ends it, and what it does to the case files.
LEMMA EndsMean ==
    ASSUME NEW c \in Calls,
           RefuseFact(c) \/ StoreEngagement(c) \/ StoreQuery(c) \/ StoreFact(c) \/ Raise(c)
    PROVE  /\ \E to \in {"done", "failed"} : End(c, to)
           /\ UNCHANGED <<req, session, saved, since>>
BY DEF RefuseFact, StoreEngagement, StoreQuery, StoreFact, Raise

LEMMA NextTurn == TypeInv /\ TurnInv /\ [Next]_vars => TurnInv'
<1> SUFFICES ASSUME TypeInv, TurnInv, [Next]_vars PROVE TurnInv'
  OBVIOUS
<1>1. ASSUME NEW c \in Calls, NEW r \in Requests, Enter(c, r) \/ EnterUnset(c, r)
      PROVE  TurnInv'
  BY <1>1, BeginTurn
<1>2. ASSUME NEW c \in Calls, Load(c) PROVE TurnInv'
  BY <1>2, LoadTurn
<1>3. ASSUME NEW c \in Calls, SaveEngagement(c) \/ SaveQuery(c) \/ SaveFact(c) PROVE TurnInv'
  BY <1>3, SavesMean, SaveTurn
<1>4. ASSUME NEW c \in Calls,
             RefuseFact(c) \/ StoreEngagement(c) \/ StoreQuery(c) \/ StoreFact(c) \/ Raise(c)
      PROVE  TurnInv'
  BY <1>4, EndsMean, EndTurn
<1>5. CASE (\E s \in Sessions : Expire(s)) \/ Restart
  BY <1>5, EnvironmentTurn
<1>6. CASE UNCHANGED vars
  <2>1. \A d \in Calls : (Locking(d) => Locking(d)') /\ (Fresh(d) => Fresh(d)')
    BY <1>6 DEF Locking, Fresh, SessionOf, vars
  <2>2. (\A d \in Calls : Locking(d) /\ Fresh(d))'
    BY <2>1 DEF TurnInv
  <2> QED BY <1>6, <2>2 DEF TurnInv, vars
<1> QED BY <1>1, <1>2, <1>3, <1>4, <1>5, <1>6 DEF Next, Idle

LEMMA InitTurn == Init => TurnInv
BY CutNew DEF Init, TurnInv, Locking, Fresh, OrNew

\* However set_engagement, record_fact and query telemetry interleave in a
\* session, its record is what they wrote, one after the other, cut to the
\* limits: no call undoes another's change (engagement.py, _session_lock).
THEOREM SessionsAreSerial == Spec => []SessionIsSerial
<1>1. TurnInv => SessionIsSerial
  BY DEF TurnInv, SessionIsSerial, OrNew, Cut
<1>2. Init => TypeInv /\ TurnInv
  BY InitTypes, InitTurn
<1>3. TypeInv /\ TurnInv /\ [Next]_vars => (TypeInv /\ TurnInv)'
  BY NextTypes, NextTurn
<1> QED BY <1>1, <1>2, <1>3, PTL DEF Spec

(***************************************************************************)
(* Order: the case file logs a session's queries in the session's order    *)
(***************************************************************************)

\* Call c logged a query at place p of session s.
Places(logs, s, p, c) ==
    p \in 1..Len(logs[s]) /\ logs[s][p].type = "query" /\ logs[s][p].what.by = c

\* The log of a case: queries of calls that are done, in the order in which the
\* session of each logged them.
InOrder(log, at, logs, asked) ==
    /\ \A i \in 1..Len(log) :
         LET a == log[i].by
         IN  at[a] = "done" /\ asked[a].session \in Sessions
               /\ \E p : Places(logs, asked[a].session, p, a)
    /\ \A i, j \in 1..Len(log) :
         LET a == log[i].by
             b == log[j].by
         IN  i < j /\ asked[a].session = asked[b].session =>
               \A p, r : Places(logs, asked[a].session, p, a) /\ Places(logs, asked[b].session, r, b)
                           => p < r

\* A call logs its query once, in its own session.
LogsOnce ==
    /\ \A s \in Sessions : \A c, p : Places(saved, s, p, c) =>
         c \in Calls /\ phase[c] \in {"saved", "done", "failed"} /\ SessionOf(c) = s
    /\ \A s \in Sessions : \A c, p, r : Places(saved, s, p, c) /\ Places(saved, s, r, c) => p = r

\* Until a call has written into its case, no other writes into its session.
WritesLast ==
    \A c \in Calls : phase[c] = "saved" /\ req[c].kind = "query" =>
        /\ held[c].by = c
        /\ Places(saved, SessionOf(c), Len(saved[SessionOf(c)]), c)

FilesInOrder ==
    \A k \in Cases : file[k] # None => InOrder(file[k].queries, phase, saved, req)

OrderInv == LogsOnce /\ WritesLast /\ FilesInOrder

LEMMA InitOrder == Init => OrderInv
<1> SUFFICES ASSUME Init PROVE OrderInv
  OBVIOUS
<1>1. LogsOnce
  BY DEF Init, LogsOnce, Places
<1>2. WritesLast /\ FilesInOrder
  BY DEF Init, WritesLast, FilesInOrder
<1> QED BY <1>1, <1>2 DEF OrderInv

\* Cutting a log keeps its order.
LEMMA CutInOrder ==
    ASSUME NEW log \in Seq(Query), NEW n \in Nat, NEW at, NEW logs, NEW asked,
           InOrder(log, at, logs, asked)
    PROVE  InOrder(Capped(log, n), at, logs, asked)
<1> DEFINE cut == Capped(log, n)
<1>1. /\ cut \in Seq(Query) /\ Len(cut) = IF Len(log) <= n THEN Len(log) ELSE n
      /\ \A i \in 1..Len(cut) : cut[i] = log[Len(log) - Len(cut) + i]
  BY CappedMeans
<1> HIDE DEF cut
<1>2. Len(log) \in Nat /\ Len(cut) \in Nat /\ Len(cut) <= Len(log)
  BY <1>1
<1>3. \A i \in 1..Len(cut) : Len(log) - Len(cut) + i \in 1..Len(log)
  BY <1>2
<1>4. \A i, j \in 1..Len(cut) : i < j => Len(log) - Len(cut) + i < Len(log) - Len(cut) + j
  BY <1>2
<1> DEFINE from(i) == Len(log) - Len(cut) + i
<1>5. \A i \in 1..Len(cut) : from(i) \in 1..Len(log) /\ cut[i] = log[from(i)]
  BY <1>1, <1>3
<1>6. \A i, j \in 1..Len(cut) : i < j => from(i) < from(j)
  BY <1>4
<1> HIDE DEF from
<1>7. ASSUME NEW i \in 1..Len(cut)
      PROVE  LET a == cut[i].by
             IN  at[a] = "done" /\ asked[a].session \in Sessions
                   /\ \E p : Places(logs, asked[a].session, p, a)
  BY <1>5 DEF InOrder
<1>8. ASSUME NEW i \in 1..Len(cut), NEW j \in 1..Len(cut), NEW p, NEW r, i < j,
             asked[cut[i].by].session = asked[cut[j].by].session,
             Places(logs, asked[cut[i].by].session, p, cut[i].by),
             Places(logs, asked[cut[j].by].session, r, cut[j].by)
      PROVE  p < r
  BY <1>5, <1>6, <1>8 DEF InOrder
<1>9. InOrder(cut, at, logs, asked)
  BY <1>7, <1>8 DEF InOrder
<1> QED BY <1>9 DEF cut

\* A call that is done stays so, in the case logs.
LEMMA LaterInOrder ==
    ASSUME TypeInv, NEW log, NEW at, NEW logs, NEW asked, InOrder(log, phase, saved, req),
           \A c : phase[c] = "done" => at[c] = "done" /\ asked[c] = req[c],
           \A s \in Sessions : \A c, p : phase[c] = "done" =>
               (Places(logs, s, p, c) <=> Places(saved, s, p, c))
    PROVE  InOrder(log, at, logs, asked)
<1>1. ASSUME NEW i \in 1..Len(log)
      PROVE  /\ phase[log[i].by] = "done" /\ at[log[i].by] = "done"
             /\ asked[log[i].by] = req[log[i].by] /\ req[log[i].by].session \in Sessions
             /\ \E p : Places(logs, req[log[i].by].session, p, log[i].by)
  BY DEF InOrder
<1> QED BY <1>1 DEF InOrder

\* A call writes into its session.
LEMMA SaveOrder ==
    ASSUME TypeInv, TurnInv, OrderInv, NEW c \in Calls, phase[c] = "loaded",
           SessionOf(c) \in Sessions, NEW type, NEW what, SaveEffects(c, type, what)
    PROVE  OrderInv'
<1> DEFINE s == SessionOf(c)
           x == [type |-> type, what |-> what]
           n == Len(saved[s])
<1>1. /\ \A t \in Sessions \ {s} : saved'[t] = saved[t]
      /\ saved'[s] = Append(saved[s], x)
      /\ phase'[c] = "saved" /\ held'[c] = what
      /\ \A d \in Calls \ {c} : phase'[d] = phase[d] /\ held'[d] = held[d]
      /\ UNCHANGED <<req, lock, file>>
  BY DEF TypeInv, TypeOK, SaveEffects, Noted
<1>2. /\ type = "query" => what.by = c
      /\ req[c].kind = "query" => type = "query"
      /\ x.type = type /\ x.what = what
  BY DEF SaveEffects
<1> HIDE DEF x
<1>3. /\ n \in Nat /\ Len(saved'[s]) = n + 1 /\ saved'[s][n + 1] = x
      /\ \A p \in 1..n : saved'[s][p] = saved[s][p]
  BY <1>1 DEF TypeInv, TypeOK
<1> HIDE DEF n
<1>4. \A p : p \in 1..(n + 1) <=> p \in 1..n \/ p = n + 1
  BY <1>3
<1>5. \A t \in Sessions : \A d, p :
        Places(saved', t, p, d) <=> \/ Places(saved, t, p, d)
                                    \/ t = s /\ p = n + 1 /\ type = "query" /\ d = c
  BY <1>1, <1>2, <1>3, <1>4 DEF Places, n
<1>6. \A t \in Sessions : \A p : ~Places(saved, t, p, c)
  BY DEF OrderInv, LogsOnce
<1>7. \A t \in Sessions : \A d, p : Places(saved, t, p, d) => p \in 1..Len(saved[t])
  BY DEF Places
<1>8. SessionOf(c)' = s /\ \A d \in Calls : SessionOf(d)' = SessionOf(d)
  BY <1>1 DEF SessionOf
<1>9. LogsOnce'
  <2>1. ASSUME NEW t \in Sessions, NEW d, NEW p, Places(saved', t, p, d)
        PROVE  d \in Calls /\ phase'[d] \in {"saved", "done", "failed"} /\ SessionOf(d)' = t
    <3>1. CASE d = c
      BY <1>1, <1>5, <1>6, <1>8, <2>1, <3>1
    <3>2. CASE d # c
      BY <1>1, <1>5, <1>8, <2>1, <3>2 DEF OrderInv, LogsOnce
    <3> QED BY <3>1, <3>2
  <2>2. ASSUME NEW t \in Sessions, NEW d, NEW p, NEW r,
               Places(saved', t, p, d), Places(saved', t, r, d)
        PROVE  p = r
    <3>1. CASE d = c
      BY <1>5, <1>6, <2>2, <3>1
    <3>2. CASE d # c
      BY <1>5, <2>2, <3>2 DEF OrderInv, LogsOnce
    <3> QED BY <3>1, <3>2
  <2> QED BY <2>1, <2>2 DEF LogsOnce
<1>10. WritesLast'
  <2> SUFFICES ASSUME NEW d \in Calls, phase'[d] = "saved", req'[d].kind = "query"
               PROVE  /\ held'[d].by = d
                      /\ Places(saved', SessionOf(d)', Len(saved'[SessionOf(d)']), d)
    BY DEF WritesLast
  <2>1. CASE d = c
    BY <1>1, <1>2, <1>3, <1>5, <1>8, <2>1
  <2>2. CASE d # c
    <3>1. phase[d] = "saved" /\ req[d].kind = "query" /\ held'[d] = held[d]
      BY <1>1, <2>2
    <3>2. SessionOf(d) \in Sessions /\ SessionOf(d) # s
      BY <2>2, <3>1, RequestFields DEF TypeInv, HeldInv, SessionOf, TurnInv, Locking
    <3>3. held[d].by = d /\ Places(saved, SessionOf(d), Len(saved[SessionOf(d)]), d)
      BY <3>1 DEF OrderInv, WritesLast
    <3> QED BY <1>1, <1>5, <1>8, <3>1, <3>2, <3>3
  <2> QED BY <2>1, <2>2
<1>11. FilesInOrder'
  <2> SUFFICES ASSUME NEW k \in Cases, file[k] # None
               PROVE  InOrder(file[k].queries, phase', saved', req')
    BY <1>1 DEF FilesInOrder
  <2>1. InOrder(file[k].queries, phase, saved, req)
    BY DEF OrderInv, FilesInOrder
  <2>2. \A d : phase[d] = "done" => d # c
    OBVIOUS
  <2>3. \A d : phase[d] = "done" => phase'[d] = "done" /\ req'[d] = req[d]
    BY <1>1, <2>2 DEF SaveEffects, TypeInv, TypeOK
  <2> QED BY <2>1, <2>2, <2>3, <1>5, LaterInOrder
<1> QED BY <1>9, <1>10, <1>11 DEF OrderInv

\* A call writes its query into its case.
LEMMA StoreOrder ==
    ASSUME TypeInv, OrderInv, NEW c \in Calls, StoreQuery(c), NEW k \in Cases
    PROVE  InOrder(Capped(Append(CaseOf(k).queries, held[c]), CaseCap), phase', saved', req')
<1> DEFINE log == CaseOf(k).queries
           b == Append(log, held[c])
           s == SessionOf(c)
<1>1. /\ phase[c] = "saved" /\ req[c].kind = "query" /\ held[c] \in Query /\ s \in Sessions
      /\ UNCHANGED <<req, saved>> /\ phase' = [phase EXCEPT ![c] = "done"]
  BY RequestFields DEF StoreQuery, End, Go, TypeInv, HeldInv, SessionOf
<1>2. phase'[c] = "done" /\ \A d : phase[d] = "done" => d # c /\ phase'[d] = "done"
  BY <1>1 DEF TypeInv, TypeOK
<1>3. held[c].by = c /\ Places(saved, s, Len(saved[s]), c)
  BY <1>1 DEF OrderInv, WritesLast
<1>4. log \in Seq(Query)
  BY Files
<1>5. InOrder(log, phase, saved, req)
  <2>1. CASE file[k] = None
    BY <2>1 DEF CaseOf, OrNew, NewFile, InOrder
  <2>2. CASE file[k] # None
    BY <2>2 DEF CaseOf, OrNew, OrderInv, FilesInOrder
  <2> QED BY <2>1, <2>2
<1> HIDE DEF log
<1>6. /\ b \in Seq(Query) /\ Len(log) \in Nat /\ Len(b) = Len(log) + 1
      /\ b[Len(log) + 1] = held[c] /\ \A i \in 1..Len(log) : b[i] = log[i]
  BY <1>1, <1>4
<1>7. \A i : i \in 1..Len(b) <=> i \in 1..Len(log) \/ i = Len(log) + 1
  BY <1>6
<1> HIDE DEF b
<1>8. ASSUME NEW i \in 1..Len(b)
      PROVE  LET a == b[i].by
             IN  phase'[a] = "done" /\ req'[a].session \in Sessions
                   /\ \E p : Places(saved', req'[a].session, p, a)
  <2>1. CASE i \in 1..Len(log)
    BY <2>1, <1>1, <1>2, <1>5, <1>6 DEF InOrder
  <2>2. CASE i = Len(log) + 1
    BY <2>2, <1>1, <1>2, <1>3, <1>6 DEF SessionOf
  <2> QED BY <1>7, <2>1, <2>2
<1>9. ASSUME NEW i \in 1..Len(b), NEW j \in 1..Len(b), NEW p, NEW r, i < j,
             req'[b[i].by].session = req'[b[j].by].session,
             Places(saved', req'[b[i].by].session, p, b[i].by),
             Places(saved', req'[b[j].by].session, r, b[j].by)
      PROVE  p < r
  <2>1. i \in 1..Len(log) /\ b[i] = log[i] /\ phase[b[i].by] = "done" /\ b[i].by # c
    BY <1>2, <1>5, <1>6, <1>7, <1>9 DEF InOrder
  <2>2. CASE j \in 1..Len(log)
    BY <2>1, <2>2, <1>1, <1>5, <1>6, <1>9 DEF InOrder
  <2>3. CASE j = Len(log) + 1
    <3>1. b[j].by = c /\ req[b[i].by].session = s
      BY <2>3, <1>1, <1>3, <1>6, <1>9 DEF SessionOf
    <3>2. r = Len(saved[s])
      BY <3>1, <1>1, <1>3, <1>9 DEF OrderInv, LogsOnce, SessionOf
    <3>3. p \in 1..Len(saved[s]) /\ saved[s][p].what.by = b[i].by
      BY <3>1, <1>1, <1>9 DEF Places
    <3>4. p # r
      BY <2>1, <3>2, <3>3, <1>3 DEF Places
    <3>5. Len(saved[s]) \in Nat
      BY <1>1 DEF TypeInv, TypeOK
    <3> QED BY <3>2, <3>3, <3>4, <3>5
  <2> QED BY <1>7, <2>2, <2>3
<1>10. InOrder(b, phase', saved', req')
  BY <1>8, <1>9 DEF InOrder
<1>11. InOrder(Capped(b, CaseCap), phase', saved', req')
  BY <1>6, <1>10, CutInOrder, EngagementAssumption
<1> QED BY <1>11 DEF b, log

\* A step that writes no session record, in which no call becomes saved.
LEMMA OtherOrder ==
    ASSUME TypeInv, OrderInv, UNCHANGED saved,
           \A c \in Calls : phase[c] # "new" => req'[c] = req[c],
           \A c \in Calls : phase[c] \in {"saved", "done", "failed"} =>
               phase'[c] \in {"saved", "done", "failed"},
           \A c \in Calls : phase[c] = "done" => phase'[c] = "done",
           \A c \in Calls : phase'[c] = "saved" => phase[c] = "saved" /\ held'[c] = held[c]
    PROVE  /\ LogsOnce' /\ WritesLast'
           /\ \A log : InOrder(log, phase, saved, req) => InOrder(log, phase', saved', req')
<1>0. \A c \in Calls : phase[c] # "new" => SessionOf(c)' = SessionOf(c)
  BY DEF SessionOf
<1>1. LogsOnce'
  <2>1. ASSUME NEW t \in Sessions, NEW d, NEW p, Places(saved', t, p, d)
        PROVE  d \in Calls /\ phase'[d] \in {"saved", "done", "failed"} /\ SessionOf(d)' = t
    <3>1. d \in Calls /\ phase[d] \in {"saved", "done", "failed"} /\ SessionOf(d) = t
      BY <2>1 DEF OrderInv, LogsOnce
    <3> QED BY <1>0, <3>1
  <2> QED BY <2>1 DEF OrderInv, LogsOnce
<1>2. WritesLast'
  BY <1>0 DEF OrderInv, WritesLast
<1>3. ASSUME NEW log, InOrder(log, phase, saved, req) PROVE InOrder(log, phase', saved', req')
  <2>1. \A c : phase[c] = "done" /\ (\E i \in 1..Len(log) : log[i].by = c) => c \in Calls
    <3>1. ASSUME NEW i \in 1..Len(log) PROVE log[i].by \in Calls
      BY <1>3 DEF InOrder, OrderInv, LogsOnce
    <3> QED BY <3>1
  <2>2. ASSUME NEW i \in 1..Len(log)
        PROVE  /\ phase'[log[i].by] = "done" /\ req'[log[i].by] = req[log[i].by]
    BY <1>3, <2>1 DEF InOrder
  <2> QED BY <1>3, <2>2 DEF InOrder
<1> QED BY <1>1, <1>2, <1>3

\* Then the case logs only have to be in order where they are written.
LEMMA UnwrittenOrder ==
    ASSUME OrderInv, LogsOnce', WritesLast',
           \A log : InOrder(log, phase, saved, req) => InOrder(log, phase', saved', req'),
           \A k \in Cases : \/ file'[k] = file[k]
                            \/ file[k] # None /\ file'[k].queries = file[k].queries
                            \/ InOrder(file'[k].queries, phase', saved', req')
    PROVE  OrderInv'
<1>1. FilesInOrder'
  <2> SUFFICES ASSUME NEW k \in Cases, file'[k] # None
               PROVE  InOrder(file'[k].queries, phase', saved', req')
    BY DEF FilesInOrder
  <2> QED BY DEF OrderInv, FilesInOrder
<1> QED BY <1>1 DEF OrderInv

\* The log a case file has, or would begin with, is in order.
LEMMA CaseInOrder ==
    ASSUME OrderInv, NEW k \in Cases
    PROVE  InOrder(CaseOf(k).queries, phase, saved, req)
<1>1. CASE file[k] = None
  BY <1>1 DEF CaseOf, OrNew, NewFile, InOrder
<1>2. CASE file[k] # None
  BY <1>2 DEF CaseOf, OrNew, OrderInv, FilesInOrder
<1> QED BY <1>1, <1>2

LEMMA EndOrder ==
    ASSUME TypeInv, OrderInv, NEW c \in Calls, NEW to \in {"done", "failed"}, End(c, to),
           phase[c] \in {"entered", "loaded", "saved"}, UNCHANGED <<req, saved>>
    PROVE  /\ LogsOnce' /\ WritesLast'
           /\ \A log : InOrder(log, phase, saved, req) => InOrder(log, phase', saved', req')
<1>1. /\ phase'[c] = to
      /\ \A d \in Calls \ {c} : phase'[d] = phase[d] /\ held'[d] = held[d]
  BY DEF TypeInv, TypeOK, End, Go
<1> QED BY <1>1, OtherOrder

LEMMA StoresOrder ==
    ASSUME TypeInv, OrderInv, NEW c \in Calls,
           StoreEngagement(c) \/ StoreQuery(c) \/ StoreFact(c)
    PROVE  OrderInv'
<1>1. /\ End(c, "done") /\ phase[c] = "saved" /\ UNCHANGED <<req, saved>>
  BY DEF StoreEngagement, StoreQuery, StoreFact
<1>2. /\ LogsOnce' /\ WritesLast'
      /\ \A log : InOrder(log, phase, saved, req) => InOrder(log, phase', saved', req')
  BY <1>1, EndOrder
<1>3. ASSUME NEW k \in Cases
      PROVE  \/ file'[k] = file[k]
             \/ InOrder(file'[k].queries, phase', saved', req')
  <2>1. CaseOf(k) = [engagement |-> CaseOf(k).engagement, facts |-> CaseOf(k).facts,
                     queries |-> CaseOf(k).queries]
    BY Files DEF CaseFile
  <2>2. InOrder(CaseOf(k).queries, phase', saved', req')
    BY <1>2, CaseInOrder
  <2>3. CASE StoreEngagement(c)
    <3>1. file'[k] = file[k] \/ file'[k] = [CaseOf(k) EXCEPT !.engagement = held[c]]
      BY <2>3 DEF StoreEngagement, Update, TypeInv, TypeOK
    <3>2. [CaseOf(k) EXCEPT !.engagement = held[c]].queries = CaseOf(k).queries
      BY <2>1
    <3> QED BY <2>2, <3>1, <3>2
  <2>4. CASE StoreFact(c)
    <3> DEFINE log == Capped(Append(CaseOf(k).facts, held[c]), CaseCap)
    <3>1. file'[k] = file[k] \/ file'[k] = [CaseOf(k) EXCEPT !.facts = log]
      BY <2>4 DEF StoreFact, Update, TypeInv, TypeOK
    <3>2. [CaseOf(k) EXCEPT !.facts = log].queries = CaseOf(k).queries
      BY <2>1
    <3> QED BY <2>2, <3>1, <3>2
  <2>5. CASE StoreQuery(c)
    <3> DEFINE log == Capped(Append(CaseOf(k).queries, held[c]), CaseCap)
    <3>1. file'[k] = file[k] \/ file'[k] = [CaseOf(k) EXCEPT !.queries = log]
      BY <2>5 DEF StoreQuery, Update, TypeInv, TypeOK
    <3>2. [CaseOf(k) EXCEPT !.queries = log].queries = log
      BY <2>1
    <3>3. InOrder(log, phase', saved', req')
      BY <2>5, StoreOrder
    <3> QED BY <3>1, <3>2, <3>3
  <2> QED BY <2>3, <2>4, <2>5
<1> QED BY <1>2, <1>3, UnwrittenOrder

LEMMA NextOrder == TypeInv /\ TurnInv /\ OrderInv /\ [Next]_vars => OrderInv'
<1> SUFFICES ASSUME TypeInv, TurnInv, OrderInv, [Next]_vars PROVE OrderInv'
  OBVIOUS
<1>1. ASSUME NEW c \in Calls, NEW r \in Requests, Enter(c, r) \/ EnterUnset(c, r)
      PROVE  OrderInv'
  <2>1. /\ phase[c] = "new" /\ phase' = [phase EXCEPT ![c] = "entered"]
        /\ req' = [req EXCEPT ![c] = r] /\ UNCHANGED <<held, file, saved>>
    BY <1>1 DEF Enter, EnterUnset, Begins, Go
  <2>2. /\ phase'[c] = "entered"
        /\ \A d \in Calls \ {c} : phase'[d] = phase[d] /\ req'[d] = req[d]
    BY <2>1 DEF TypeInv, TypeOK
  <2> QED BY <2>1, <2>2, OtherOrder, UnwrittenOrder
<1>2. ASSUME NEW c \in Calls, Load(c) PROVE OrderInv'
  <2>1. /\ phase[c] = "entered" /\ phase'[c] = "loaded" /\ UNCHANGED <<req, file, saved>>
        /\ \A d \in Calls \ {c} : phase'[d] = phase[d] /\ held'[d] = held[d]
    BY <1>2 DEF TypeInv, TypeOK, Load, Go
  <2> QED BY <2>1, OtherOrder, UnwrittenOrder
<1>3. ASSUME NEW c \in Calls, SaveEngagement(c) \/ SaveQuery(c) \/ SaveFact(c) PROVE OrderInv'
  BY <1>3, SavesMean, SaveOrder
<1>4. ASSUME NEW c \in Calls, RefuseFact(c) \/ Raise(c) PROVE OrderInv'
  <2>1. /\ phase[c] \in {"entered", "loaded", "saved"} /\ End(c, "failed")
        /\ UNCHANGED <<req, file, saved>>
    BY <1>4 DEF RefuseFact, Raise
  <2> QED BY <2>1, EndOrder, UnwrittenOrder
<1>5. ASSUME NEW c \in Calls, StoreEngagement(c) \/ StoreQuery(c) \/ StoreFact(c)
      PROVE  OrderInv'
  BY <1>5, StoresOrder
<1>6. CASE (\E s \in Sessions : Expire(s)) \/ Restart
  <2>1. UNCHANGED <<req, file, saved>>
    BY <1>6 DEF Expire, Restart
  <2>2. ASSUME NEW c \in Calls
        PROVE  \/ phase'[c] = phase[c] /\ (phase[c] = "saved" => held'[c] = held[c])
               \/ phase[c] \notin {"new", "done", "failed"} /\ phase'[c] = "failed"
    <3>1. CASE \E s \in Sessions : Expire(s)
      BY <3>1 DEF TypeInv, TypeOK, Expire
    <3>2. CASE Restart
      <4>1. phase' = [d \in Calls |-> IF phase[d] = "new" \/ Over(d) THEN phase[d] ELSE "failed"]
        BY <3>2 DEF Restart
      <4>2. phase'[c] = IF phase[c] = "new" \/ Over(c) THEN phase[c] ELSE "failed"
        BY <4>1
      <4> QED BY <4>2 DEF Over
    <3> QED BY <1>6, <3>1, <3>2
  <2> QED BY <2>1, <2>2, OtherOrder, UnwrittenOrder
<1>7. CASE UNCHANGED vars
  <2>1. UNCHANGED <<req, file, saved, phase, held>>
    BY <1>7 DEF vars
  <2> QED BY <2>1, OtherOrder, UnwrittenOrder
<1> QED BY <1>1, <1>2, <1>3, <1>4, <1>5, <1>6, <1>7 DEF Next, Idle

\* A case file logs the queries of a session in the order of the session's own
\* log, although the two are written at different moments and any number of
\* calls, sessions and failures come between (record_query_telemetry).
THEOREM CaseLogsInOrder == Spec => []CaseFollowsSession
<1>1. OrderInv => CaseFollowsSession
  <2> SUFFICES ASSUME OrderInv, NEW k \in Cases, file[k] # None,
                      NEW i \in 1..Len(file[k].queries), NEW j \in 1..Len(file[k].queries),
                      i < j,
                      SessionOf(file[k].queries[i].by) = SessionOf(file[k].queries[j].by)
               PROVE  Position(SessionOf(file[k].queries[i].by), file[k].queries[i].by)
                        < Position(SessionOf(file[k].queries[i].by), file[k].queries[j].by)
    BY DEF CaseFollowsSession
  <2> DEFINE a == file[k].queries[i].by
             b == file[k].queries[j].by
             s == SessionOf(a)
  <2>1. InOrder(file[k].queries, phase, saved, req)
    BY DEF OrderInv, FilesInOrder
  <2>2. (\E p : Places(saved, s, p, a)) /\ (\E p : Places(saved, s, p, b))
    BY <2>1 DEF InOrder, SessionOf
  <2>3. \A c : (\E p : Places(saved, s, p, c)) => Places(saved, s, Position(s, c), c)
    BY DEF Places, Position
  <2>4. Places(saved, s, Position(s, a), a) /\ Places(saved, s, Position(s, b), b)
    BY <2>2, <2>3
  <2> HIDE DEF a, b, s
  <2>5. Position(s, a) < Position(s, b)
    BY <2>1, <2>4 DEF InOrder, SessionOf, a, b, s
  <2> QED BY <2>5 DEF a, b, s
<1>2. Init => TypeInv /\ TurnInv /\ OrderInv
  BY InitTypes, InitTurn, InitOrder
<1>3. TypeInv /\ TurnInv /\ OrderInv /\ [Next]_vars => (TypeInv /\ TurnInv /\ OrderInv)'
  BY NextTypes, NextTurn, NextOrder
<1> QED BY <1>1, <1>2, <1>3, PTL DEF Spec

(***************************************************************************)
(* A session's engagement and its case's                                   *)
(***************************************************************************)

\* No two sessions ask for the same case.  Two that do overwrite each other's
\* engagement of it, as they may.
OneSessionPerCase ==
    \A r1, r2 \in Requests :
        r1.kind = "set" /\ r2.kind = "set" /\ r1.case = r2.case /\ r1.case # None
            => r1.session = r2.session

EngagementOf(s) == OrNew(session[s], NewRecord).engagement

\* Call c set the engagement e of session s.
SetBy(c, s, e) ==
    /\ c \in Calls /\ phase[c] \in {"saved", "done", "failed"}
    /\ req[c].kind = "set" /\ SessionOf(c) = s /\ e.by = c /\ e.case = req[c].case

\* What a call is about to store is the engagement of its session.
StoresOwn ==
    \A c \in Calls : phase[c] = "saved" /\ req[c].kind = "set" =>
        SetBy(c, SessionOf(c), held[c]) /\ EngagementOf(SessionOf(c)) = held[c]

\* The engagement of a session was set there, and is its case's once the call
\* is done.
SessionsMatch ==
    \A s \in Sessions :
        LET e == EngagementOf(s)
        IN  e.by # None =>
              /\ SetBy(e.by, s, e)
              /\ HasStore /\ e.case # None /\ phase[e.by] = "done" =>
                    file[e.case] # None /\ CaseOf(e.case).engagement = e

MatchInv == StoresOwn /\ SessionsMatch

LEMMA InitMatch == Init => MatchInv
<1> SUFFICES ASSUME Init PROVE MatchInv
  OBVIOUS
<1>1. \A s \in Sessions : EngagementOf(s).by = None
  BY DEF Init, EngagementOf, OrNew, NewRecord, Blank
<1> QED BY <1>1 DEF Init, MatchInv, StoresOwn, SessionsMatch

\* A step that sets no engagement, in a session or in a case.
LEMMA QuietMatch ==
    ASSUME TypeInv, MatchInv,
           \A s \in Sessions : EngagementOf(s)' \in {EngagementOf(s), Blank},
           \A k \in Cases : /\ CaseOf(k)'.engagement = CaseOf(k).engagement
                            /\ file[k] # None => file'[k] # None,
           \A c \in Calls : phase[c] # "new" => req'[c] = req[c],
           \A c \in Calls : phase[c] \in {"saved", "done", "failed"} =>
               phase'[c] \in {"saved", "done", "failed"},
           \A c \in Calls : phase'[c] = "done" => phase[c] = "done" \/ req[c].kind # "set",
           \A c \in Calls : phase'[c] = "saved" /\ req'[c].kind = "set" =>
               /\ phase[c] = "saved" /\ held'[c] = held[c]
               /\ EngagementOf(SessionOf(c))' = EngagementOf(SessionOf(c))
    PROVE  MatchInv'
<1>1. ASSUME NEW c \in Calls, phase'[c] = "saved", req'[c].kind = "set"
      PROVE  SetBy(c, SessionOf(c), held[c])' /\ EngagementOf(SessionOf(c))' = held'[c]
  <2>1. phase[c] = "saved" /\ req'[c] = req[c] /\ held'[c] = held[c]
    BY <1>1
  <2>2. SetBy(c, SessionOf(c), held[c]) /\ EngagementOf(SessionOf(c)) = held[c]
    BY <1>1, <2>1 DEF MatchInv, StoresOwn
  <2> QED BY <1>1, <2>1, <2>2 DEF SetBy, SessionOf
<1>2. ASSUME NEW s \in Sessions, EngagementOf(s)'.by # None
      PROVE  /\ EngagementOf(s)' = EngagementOf(s)
             /\ SetBy(EngagementOf(s).by, s, EngagementOf(s))
             /\ SetBy(EngagementOf(s).by, s, EngagementOf(s))'
             /\ EngagementOf(s).by \in Calls
  <2>1. EngagementOf(s)' = EngagementOf(s)
    BY <1>2 DEF Blank
  <2> DEFINE e == EngagementOf(s)
  <2>2. SetBy(e.by, s, e)
    BY <1>2, <2>1 DEF MatchInv, SessionsMatch
  <2>3. e' = e
    BY <2>1
  <2> HIDE DEF e
  <2>4. SetBy(e.by, s, e)'
    BY <2>2, <2>3 DEF SetBy, SessionOf
  <2> QED BY <2>2, <2>3, <2>4 DEF SetBy, e
<1>3. ASSUME NEW s \in Sessions, EngagementOf(s)'.by # None,
             HasStore, EngagementOf(s)'.case # None, phase'[EngagementOf(s)'.by] = "done"
      PROVE  /\ file'[EngagementOf(s)'.case] # None
             /\ CaseOf(EngagementOf(s).case)'.engagement = EngagementOf(s)'
  <2> DEFINE e == EngagementOf(s)
  <2>1. e' = e /\ SetBy(e.by, s, e) /\ e.by \in Calls
    BY <1>2, <1>3
  <2>2. e.by # None /\ e.case # None /\ phase'[e.by] = "done"
    BY <1>3, <2>1
  <2> HIDE DEF e
  <2>3. phase[e.by] = "done"
    BY <2>1, <2>2 DEF SetBy
  <2>4. e.case \in Cases
    BY <2>1, <2>2, <2>3, RequestFields DEF SetBy, TypeInv, HeldInv
  <2>5. file[e.case] # None /\ CaseOf(e.case).engagement = e
    BY <1>3, <2>2, <2>3 DEF MatchInv, SessionsMatch, e
  <2>6. file'[e.case] # None /\ CaseOf(e.case)'.engagement = e
    BY <2>1, <2>4, <2>5
  <2> QED BY <2>1, <2>6 DEF e
<1>4. StoresOwn'
  BY <1>1 DEF StoresOwn
<1>5. SessionsMatch'
  BY <1>2, <1>3 DEF SessionsMatch
<1> QED BY <1>4, <1>5 DEF MatchInv

\* A call that sets no engagement writes into its session.
LEMMA OtherSaveMatch ==
    ASSUME TypeInv, TurnInv, MatchInv, NEW c \in Calls, phase[c] = "loaded",
           SessionOf(c) \in Sessions, NEW type, NEW what, SaveEffects(c, type, what),
           type # "engagement"
    PROVE  MatchInv'
<1>1. /\ phase'[c] = "saved" /\ req[c].kind # "set" /\ UNCHANGED <<req, file>>
      /\ \A d \in Calls \ {c} : phase'[d] = phase[d] /\ held'[d] = held[d]
      /\ session'[SessionOf(c)] = Built(Record0(c), type, what)
      /\ \A t \in Sessions \ {SessionOf(c)} : session'[t] = session[t]
  BY DEF SaveEffects, TypeInv, TypeOK
<1>2. Record0(c).engagement = EngagementOf(SessionOf(c))
  BY DEF TurnInv, Fresh, Record0, EngagementOf
<1>3. Built(Record0(c), type, what) # None
  BY BuiltType, Bases DEF SaveEffects
<1>4. EngagementOf(SessionOf(c))' = EngagementOf(SessionOf(c))
  BY <1>1, <1>2, <1>3 DEF EngagementOf, OrNew, Built, SessionOf
<1>5. \A t \in Sessions : EngagementOf(t)' = EngagementOf(t)
  BY <1>1, <1>4 DEF EngagementOf, OrNew, SessionOf
<1>6. \A k \in Cases : CaseOf(k)' = CaseOf(k)
  BY <1>1 DEF CaseOf
<1>7. ASSUME NEW d \in Calls, phase'[d] = "saved", req'[d].kind = "set"
      PROVE  /\ phase[d] = "saved" /\ held'[d] = held[d]
             /\ EngagementOf(SessionOf(d))' = EngagementOf(SessionOf(d))
  <2>1. d # c /\ phase[d] = "saved" /\ held'[d] = held[d] /\ SessionOf(d)' = SessionOf(d)
    BY <1>1, <1>7 DEF SessionOf
  <2>2. SessionOf(d) \in Sessions
    BY <2>1, RequestFields DEF TypeInv, HeldInv, SessionOf
  <2> QED BY <1>5, <2>1, <2>2 DEF EngagementOf, SessionOf
<1>8. \A d \in Calls : phase[d] \in {"saved", "done", "failed"} =>
         phase'[d] \in {"saved", "done", "failed"}
  BY <1>1
<1>9. \A d \in Calls : phase'[d] = "done" => phase[d] = "done" \/ req[d].kind # "set"
  BY <1>1
<1> QED BY <1>1, <1>5, <1>6, <1>7, <1>8, <1>9, QuietMatch

\* A call sets the engagement of its session.
LEMMA SetMatch ==
    ASSUME TypeInv, TurnInv, MatchInv, NEW c \in Calls, phase[c] = "loaded",
           SessionOf(c) \in Sessions, SaveEffects(c, "engagement", Merged(c))
    PROVE  MatchInv'
<1> DEFINE s == SessionOf(c)
           e == Merged(c)
<1>1. /\ phase'[c] = "saved" /\ req[c].kind = "set" /\ UNCHANGED <<req, file>>
      /\ held'[c] = e /\ e \in Scoped
      /\ \A d \in Calls \ {c} : phase'[d] = phase[d] /\ held'[d] = held[d]
      /\ session'[s] = Built(Record0(c), "engagement", e)
      /\ \A t \in Sessions \ {s} : session'[t] = session[t]
  BY DEF SaveEffects, TypeInv, TypeOK
<1>2. e.by = c /\ e.case = req[c].case
  BY DEF Merged, Given
<1> HIDE DEF e
<1>4. Built(Record0(c), "engagement", e) # None
  BY <1>1, BuiltType, Bases
<1>5. EngagementOf(s)' = held'[c] /\ s' = s
  BY <1>1, <1>4 DEF EngagementOf, OrNew, Built, SessionOf
<1>6. \A t \in Sessions \ {s} : EngagementOf(t)' = EngagementOf(t)
  BY <1>1 DEF EngagementOf, OrNew
<1>7. \A k : CaseOf(k)' = CaseOf(k)
  BY <1>1 DEF CaseOf
<1>8. \A d : SessionOf(d)' = SessionOf(d)
  BY <1>1 DEF SessionOf
<1>9. SetBy(c, SessionOf(c), held[c])'
  BY <1>1, <1>2 DEF SetBy, SessionOf
<1>10. \A d \in Calls \ {c} : phase[d] = "saved" => SessionOf(d) \in Sessions \ {s}
  BY RequestFields DEF TypeInv, HeldInv, SessionOf, TurnInv, Locking
<1>11. StoresOwn'
  <2> SUFFICES ASSUME NEW d \in Calls, phase'[d] = "saved", req'[d].kind = "set"
               PROVE  SetBy(d, SessionOf(d), held[d])' /\ EngagementOf(SessionOf(d))' = held'[d]
    BY DEF StoresOwn
  <2>1. CASE d = c
    BY <1>5, <1>9, <2>1
  <2>2. CASE d # c
    <3>1. phase[d] = "saved" /\ req[d].kind = "set" /\ held'[d] = held[d] /\ phase'[d] = phase[d]
      BY <1>1, <2>2
    <3>2. SetBy(d, SessionOf(d), held[d]) /\ EngagementOf(SessionOf(d)) = held[d]
      BY <3>1 DEF MatchInv, StoresOwn
    <3>3. SetBy(d, SessionOf(d), held[d])'
      BY <3>1, <3>2, <1>1 DEF SetBy, SessionOf
    <3>4. EngagementOf(SessionOf(d))' = EngagementOf(SessionOf(d))
      BY <1>6, <1>8, <1>10, <2>2, <3>1 DEF EngagementOf, SessionOf
    <3> QED BY <3>1, <3>2, <3>3, <3>4
  <2> QED BY <2>1, <2>2
<1>12. SessionsMatch'
  <2> SUFFICES ASSUME NEW t \in Sessions, EngagementOf(t)'.by # None
               PROVE  /\ SetBy(EngagementOf(t).by, t, EngagementOf(t))'
                      /\ (HasStore /\ EngagementOf(t)'.case # None
                            /\ phase'[EngagementOf(t)'.by] = "done") =>
                           /\ file'[EngagementOf(t)'.case] # None
                           /\ CaseOf(EngagementOf(t).case)'.engagement = EngagementOf(t)'
    BY DEF SessionsMatch
  <2>1. CASE t = s
    <3>1. EngagementOf(t)' = held'[c]
      BY <1>5, <2>1 DEF EngagementOf
    <3>2. held'[c].by = c
      BY <1>1, <1>2
    <3>3. SetBy(EngagementOf(t).by, t, EngagementOf(t))'
      BY <1>5, <1>9, <2>1, <3>1, <3>2 DEF SetBy
    <3> QED BY <1>1, <3>1, <3>2, <3>3
  <2>2. CASE t # s
    <3> DEFINE f == EngagementOf(t)
    <3>1. f' = f /\ f.by # None
      BY <1>6, <2>2
    <3> HIDE DEF f
    <3>2. SetBy(f.by, t, f)
      BY <3>1 DEF MatchInv, SessionsMatch, f
    <3>3. f.by # c /\ phase'[f.by] = phase[f.by]
      BY <3>2, <1>1 DEF SetBy
    <3>4. SetBy(f.by, t, f)'
      BY <3>1, <3>2, <3>3, <1>1 DEF SetBy, SessionOf
    <3>5. HasStore /\ f.case # None /\ phase[f.by] = "done" =>
            file[f.case] # None /\ CaseOf(f.case).engagement = f
      BY <3>1 DEF MatchInv, SessionsMatch, f
    <3>6. CaseOf(f.case)' = CaseOf(f.case)
      BY <1>7, <3>1 DEF CaseOf
    <3> QED BY <3>1, <3>3, <3>4, <3>5, <3>6, <1>1 DEF f
  <2> QED BY <2>1, <2>2
<1> QED BY <1>11, <1>12 DEF MatchInv

\* What CaseStore.update does to the file of case k.
LEMMA Updated ==
    ASSUME TypeInv, NEW k \in Cases, NEW j, NEW case, Update(j, case)
    PROVE  /\ file'[k] = file[k] \/ (k = j /\ file'[k] = case)
           /\ HasStore /\ k = j => file'[k] = case
<1>1. k # None
  BY EngagementAssumption
<1> QED BY <1>1 DEF Update, TypeInv, TypeOK

\* What is written into a case's file: one field of it.
LEMMA FileWritten ==
    ASSUME TypeInv, NEW c \in Calls, StoreEngagement(c) \/ StoreQuery(c) \/ StoreFact(c),
           NEW k \in Cases
    PROVE  /\ file[k] # None => file'[k] # None
           /\ \/ CaseOf(k)'.engagement = CaseOf(k).engagement
              \/ StoreEngagement(c) /\ k = req[c].case /\ CaseOf(k)'.engagement = held[c]
           /\ StoreEngagement(c) /\ k = req[c].case /\ HasStore =>
                file'[k] # None /\ CaseOf(k)'.engagement = held[c]
<1>1. /\ CaseOf(k) \in CaseFile
      /\ CaseOf(k) = [engagement |-> CaseOf(k).engagement, facts |-> CaseOf(k).facts,
                      queries |-> CaseOf(k).queries]
  BY Files DEF CaseFile
<1>2. ASSUME NEW case \in CaseFile, file'[k] = case
      PROVE  file'[k] # None /\ CaseOf(k)' = case
  BY <1>2, NoneAssumption DEF CaseOf, OrNew
<1>3. ASSUME file'[k] = file[k]
      PROVE  (file[k] # None => file'[k] # None) /\ CaseOf(k)' = CaseOf(k)
  BY <1>3 DEF CaseOf
<1>4. CASE StoreEngagement(c)
  <2> DEFINE case == [CaseOf(k) EXCEPT !.engagement = held[c]]
  <2>1. held[c] \in Scoped
    BY <1>4 DEF StoreEngagement, TypeInv, HeldInv
  <2>2. case \in CaseFile /\ case.engagement = held[c]
    BY <1>1, <2>1 DEF CaseFile
  <2>3. /\ file'[k] = file[k] \/ (k = req[c].case /\ file'[k] = case)
        /\ HasStore /\ k = req[c].case => file'[k] = case
    BY <1>4, Updated DEF StoreEngagement
  <2> HIDE DEF case
  <2> QED BY <1>2, <1>3, <1>4, <2>2, <2>3
<1>5. CASE StoreQuery(c)
  <2> DEFINE log == Capped(Append(CaseOf(k).queries, held[c]), CaseCap)
             case == [CaseOf(k) EXCEPT !.queries = log]
  <2>1. log \in Seq(Query)
    BY <1>5, Files, AddToLog, EngagementAssumption DEF StoreQuery, TypeInv, HeldInv
  <2>2. file'[k] = file[k] \/ (k = scope[c].case /\ file'[k] = case)
    BY <1>5, Updated DEF StoreQuery
  <2> HIDE DEF log
  <2>3. case \in CaseFile /\ case.engagement = CaseOf(k).engagement
    BY <1>1, <2>1 DEF CaseFile
  <2>4. ~StoreEngagement(c)
    BY <1>5 DEF StoreQuery, StoreEngagement
  <2> HIDE DEF case
  <2> QED BY <1>2, <1>3, <2>2, <2>3, <2>4
<1>6. CASE StoreFact(c)
  <2> DEFINE log == Capped(Append(CaseOf(k).facts, held[c]), CaseCap)
             case == [CaseOf(k) EXCEPT !.facts = log]
  <2>1. log \in Seq(Fact)
    BY <1>6, Files, AddToLog, EngagementAssumption DEF StoreFact, TypeInv, HeldInv
  <2>2. file'[k] = file[k] \/ (k = held[c].case /\ file'[k] = case)
    BY <1>6, Updated DEF StoreFact
  <2> HIDE DEF log
  <2>3. case \in CaseFile /\ case.engagement = CaseOf(k).engagement
    BY <1>1, <2>1 DEF CaseFile
  <2>4. ~StoreEngagement(c)
    BY <1>6 DEF StoreFact, StoreEngagement
  <2> HIDE DEF case
  <2> QED BY <1>2, <1>3, <2>2, <2>3, <2>4
<1> QED BY <1>4, <1>5, <1>6

\* Two calls that set one case are of one session.
LEMMA SameSession ==
    ASSUME TypeInv, OneSessionPerCase, NEW c \in Calls, NEW d \in Calls,
           phase[c] # "new", phase[d] # "new", req[c].kind = "set", req[d].kind = "set",
           req[c].case = req[d].case, req[c].case # None
    PROVE  SessionOf(c) = SessionOf(d)
BY DEF TypeInv, HeldInv, OneSessionPerCase, SessionOf

\* set_engagement writes the engagement into its case.
LEMMA StoreMatch ==
    ASSUME TypeInv, TurnInv, MatchInv, OneSessionPerCase, NEW c \in Calls, StoreEngagement(c)
    PROVE  MatchInv'
<1>1. /\ phase[c] = "saved" /\ req[c].kind = "set" /\ UNCHANGED <<req, session>>
      /\ phase'[c] = "done"
      /\ \A d \in Calls \ {c} : phase'[d] = phase[d] /\ held'[d] = held[d]
  BY DEF StoreEngagement, End, Go, TypeInv, TypeOK
<1>2. \A t : EngagementOf(t)' = EngagementOf(t)
  BY <1>1 DEF EngagementOf
<1>3. \A d : SessionOf(d)' = SessionOf(d)
  BY <1>1 DEF SessionOf
<1>4. SetBy(c, SessionOf(c), held[c]) /\ EngagementOf(SessionOf(c)) = held[c]
  BY <1>1 DEF MatchInv, StoresOwn
<1>5. \A d \in Calls : phase[d] = "saved" => SessionOf(d) \in Sessions /\ lock[SessionOf(d)] = d
  BY RequestFields DEF TypeInv, HeldInv, SessionOf, TurnInv, Locking
<1>6. StoresOwn'
  <2> SUFFICES ASSUME NEW d \in Calls, phase'[d] = "saved", req'[d].kind = "set"
               PROVE  SetBy(d, SessionOf(d), held[d])' /\ EngagementOf(SessionOf(d))' = held'[d]
    BY DEF StoresOwn
  <2>1. phase[d] = "saved" /\ held'[d] = held[d] /\ phase'[d] = phase[d]
    BY <1>1
  <2>2. SetBy(d, SessionOf(d), held[d]) /\ EngagementOf(SessionOf(d)) = held[d]
    BY <1>1, <2>1 DEF MatchInv, StoresOwn
  <2>3. SetBy(d, SessionOf(d), held[d])'
    BY <1>1, <2>1, <2>2 DEF SetBy, SessionOf
  <2>4. EngagementOf(SessionOf(d))' = EngagementOf(SessionOf(d))
    BY <1>1 DEF EngagementOf, SessionOf
  <2> QED BY <2>1, <2>2, <2>3, <2>4
<1>7. SessionsMatch'
  <2> SUFFICES ASSUME NEW t \in Sessions, EngagementOf(t)'.by # None
               PROVE  /\ SetBy(EngagementOf(t).by, t, EngagementOf(t))'
                      /\ (HasStore /\ EngagementOf(t)'.case # None
                            /\ phase'[EngagementOf(t)'.by] = "done") =>
                           /\ file'[EngagementOf(t)'.case] # None
                           /\ CaseOf(EngagementOf(t).case)'.engagement = EngagementOf(t)'
    BY DEF SessionsMatch
  <2> DEFINE f == EngagementOf(t)
  <2>1. f' = f /\ f.by # None
    BY <1>2
  <2> HIDE DEF f
  <2>2. SetBy(f.by, t, f)
    BY <2>1 DEF MatchInv, SessionsMatch, f
  <2>3. SetBy(f.by, t, f)'
    BY <2>1, <2>2, <1>1 DEF SetBy, SessionOf
  <2>4. ASSUME HasStore, f.case # None, phase'[f.by] = "done"
        PROVE  file'[f.case] # None /\ CaseOf(f.case)'.engagement = f
    <3> DEFINE k == f.case
    <3>1. k \in Cases /\ k = req[f.by].case /\ req[f.by].kind = "set" /\ k' = k
      BY <2>1, <2>2, <2>4, RequestFields DEF SetBy, TypeInv, HeldInv
    <3> HIDE DEF k
    <3>2. CASE f.by = c
      <4>1. f = held[c]
        BY <1>4, <2>2, <3>2 DEF SetBy, f
      <4>2. k = req[c].case
        BY <3>1, <3>2
      <4>3. file'[k] # None /\ CaseOf(k)'.engagement = held[c]
        BY <2>4, <3>1, <4>2, FileWritten
      <4> QED BY <3>1, <4>1, <4>3 DEF k
    <3>3. CASE f.by # c
      <4>1. phase[f.by] = "done"
        BY <2>2, <2>4, <3>3, <1>1 DEF SetBy
      <4>2. file[k] # None /\ CaseOf(k).engagement = f
        BY <2>1, <2>4, <4>1 DEF MatchInv, SessionsMatch, f, k
      <4>3. k # req[c].case
        <5> SUFFICES ASSUME k = req[c].case PROVE FALSE
          OBVIOUS
        <5>1. SessionOf(f.by) = SessionOf(c)
          BY <1>1, <2>2, <2>4, <3>1, <4>1, SameSession DEF SetBy, k
        <5>2. t = SessionOf(c)
          BY <2>2, <5>1 DEF SetBy
        <5>3. f = held[c]
          BY <5>2, <1>4 DEF f
        <5> QED BY <3>3, <5>3, <1>4 DEF SetBy
      <4>4. file'[k] # None /\ CaseOf(k)'.engagement = CaseOf(k).engagement
        BY <3>1, <4>2, <4>3, FileWritten
      <4> QED BY <3>1, <4>2, <4>4 DEF k
    <3> QED BY <3>2, <3>3
  <2> QED BY <2>1, <2>3, <2>4 DEF f
<1> QED BY <1>6, <1>7 DEF MatchInv

\* The end of a call that stores no engagement.
LEMMA EndMatch ==
    ASSUME TypeInv, MatchInv, NEW c \in Calls,
           RefuseFact(c) \/ StoreQuery(c) \/ StoreFact(c) \/ Raise(c)
    PROVE  MatchInv'
<1>1. /\ phase[c] # "new" /\ UNCHANGED <<req, session>>
      /\ phase'[c] = "failed" \/ (phase'[c] = "done" /\ req[c].kind # "set")
      /\ \A d \in Calls \ {c} : phase'[d] = phase[d] /\ held'[d] = held[d]
  BY DEF RefuseFact, StoreQuery, StoreFact, Raise, End, Go, TypeInv, TypeOK
<1>2. ASSUME NEW k \in Cases
      PROVE  CaseOf(k)'.engagement = CaseOf(k).engagement /\ (file[k] # None => file'[k] # None)
  <2>1. CASE RefuseFact(c) \/ Raise(c)
    BY <2>1 DEF RefuseFact, Raise, CaseOf
  <2>2. CASE StoreQuery(c) \/ StoreFact(c)
    BY <2>2, FileWritten DEF StoreQuery, StoreFact, StoreEngagement
  <2> QED BY <2>1, <2>2
<1>3. \A t : EngagementOf(t)' = EngagementOf(t)
  BY <1>1 DEF EngagementOf
<1>4. \A d \in Calls : EngagementOf(SessionOf(d))' = EngagementOf(SessionOf(d))
  BY <1>1 DEF EngagementOf, SessionOf
<1> QED BY <1>1, <1>2, <1>3, <1>4, QuietMatch

\* A session record is gone, or all of them are with the calls in progress.
LEMMA EnvironmentMatch ==
    ASSUME TypeInv, TurnInv, MatchInv, (\E s \in Sessions : Expire(s)) \/ Restart
    PROVE  MatchInv'
<1>1. UNCHANGED <<req, file>>
  BY DEF Expire, Restart
<1>2. \A k : CaseOf(k)' = CaseOf(k)
  BY <1>1 DEF CaseOf
<1>3. CASE Restart
  <2>1. \A s \in Sessions : EngagementOf(s)' = Blank
    BY <1>3 DEF Restart, EngagementOf, OrNew, NewRecord
  <2>2. ASSUME NEW c \in Calls
        PROVE  \/ phase'[c] = phase[c] /\ phase[c] # "saved"
               \/ phase[c] \notin {"new", "done", "failed"} /\ phase'[c] = "failed"
    <3>1. phase' = [d \in Calls |-> IF phase[d] = "new" \/ Over(d) THEN phase[d] ELSE "failed"]
      BY <1>3 DEF Restart
    <3>2. phase'[c] = IF phase[c] = "new" \/ Over(c) THEN phase[c] ELSE "failed"
      BY <3>1
    <3> QED BY <3>2 DEF Over
  <2> QED BY <1>1, <1>2, <2>1, <2>2, QuietMatch
<1>4. ASSUME NEW s \in Sessions, Expire(s) PROVE MatchInv'
  <2>1. /\ session'[s] = None /\ lock[s] = None /\ UNCHANGED <<phase, held>>
        /\ \A t \in Sessions \ {s} : session'[t] = session[t]
    BY <1>4 DEF Expire, TypeInv, TypeOK
  <2>2. \A t \in Sessions \ {s} : EngagementOf(t)' = EngagementOf(t)
    BY <2>1 DEF EngagementOf
  <2>3. EngagementOf(s)' = Blank
    BY <2>1 DEF EngagementOf, OrNew, NewRecord
  <2>4. ASSUME NEW c \in Calls, phase[c] = "saved"
        PROVE  EngagementOf(SessionOf(c))' = EngagementOf(SessionOf(c))
    <3>1. SessionOf(c) \in Sessions /\ SessionOf(c)' = SessionOf(c)
      BY <1>1, <2>4, RequestFields DEF TypeInv, HeldInv, SessionOf
    <3>2. SessionOf(c) # s
      BY <2>1, <2>4, EngagementAssumption DEF TurnInv, Locking
    <3> QED BY <2>1, <3>1, <3>2 DEF EngagementOf
  <2> QED BY <1>1, <1>2, <2>1, <2>2, <2>3, <2>4, QuietMatch
<1> QED BY <1>3, <1>4

LEMMA NextMatch ==
    ASSUME OneSessionPerCase
    PROVE  TypeInv /\ TurnInv /\ MatchInv /\ [Next]_vars => MatchInv'
<1> SUFFICES ASSUME TypeInv, TurnInv, MatchInv, [Next]_vars PROVE MatchInv'
  OBVIOUS
<1>a. UNCHANGED session => \A s : EngagementOf(s)' = EngagementOf(s)
  BY DEF EngagementOf
<1>b. UNCHANGED <<session, req>> => \A c : EngagementOf(SessionOf(c))' = EngagementOf(SessionOf(c))
  BY DEF EngagementOf, SessionOf
<1>c. UNCHANGED file => \A k : CaseOf(k)' = CaseOf(k)
  BY DEF CaseOf
<1>1. ASSUME NEW c \in Calls, NEW r \in Requests, Enter(c, r) \/ EnterUnset(c, r)
      PROVE  MatchInv'
  <2>1. /\ phase[c] = "new" /\ phase' = [phase EXCEPT ![c] = "entered"]
        /\ req' = [req EXCEPT ![c] = r] /\ UNCHANGED <<held, file, session>>
    BY <1>1 DEF Enter, EnterUnset, Begins, Go
  <2>2. /\ phase'[c] = "entered"
        /\ \A d \in Calls \ {c} : phase'[d] = phase[d] /\ req'[d] = req[d]
    BY <2>1 DEF TypeInv, TypeOK
  <2>3. \A d \in Calls \ {c} : EngagementOf(SessionOf(d))' = EngagementOf(SessionOf(d))
    BY <2>1, <2>2 DEF EngagementOf, SessionOf
  <2> QED BY <1>a, <1>c, <2>1, <2>2, <2>3, QuietMatch
<1>2. ASSUME NEW c \in Calls, Load(c) PROVE MatchInv'
  <2>1. /\ phase[c] = "entered" /\ phase'[c] = "loaded" /\ UNCHANGED <<req, file, session>>
        /\ \A d \in Calls \ {c} : phase'[d] = phase[d] /\ held'[d] = held[d]
    BY <1>2 DEF TypeInv, TypeOK, Load, Go
  <2> QED BY <1>a, <1>b, <1>c, <2>1, QuietMatch
<1>3. ASSUME NEW c \in Calls, SaveEngagement(c) \/ SaveQuery(c) \/ SaveFact(c) PROVE MatchInv'
  <2>1. phase[c] = "loaded" /\ SessionOf(c) \in Sessions
    BY <1>3, SavesMean
  <2>2. PICK type, what : SaveEffects(c, type, what)
    BY <1>3, SavesMean
  <2>3. type = "engagement" => what = Merged(c)
    BY <2>2 DEF SaveEffects
  <2> QED BY <2>1, <2>2, <2>3, OtherSaveMatch, SetMatch
<1>4. ASSUME NEW c \in Calls, RefuseFact(c) \/ StoreQuery(c) \/ StoreFact(c) \/ Raise(c)
      PROVE  MatchInv'
  BY <1>4, EndMatch
<1>5. ASSUME NEW c \in Calls, StoreEngagement(c) PROVE MatchInv'
  BY <1>5, StoreMatch
<1>6. CASE (\E s \in Sessions : Expire(s)) \/ Restart
  BY <1>6, EnvironmentMatch
<1>7. CASE UNCHANGED vars
  <2>1. UNCHANGED <<req, file, session, phase, held>>
    BY <1>7 DEF vars
  <2> QED BY <1>a, <1>b, <1>c, <2>1, QuietMatch
<1> QED BY <1>1, <1>2, <1>3, <1>4, <1>5, <1>6, <1>7 DEF Next, Idle

LEMMA AlwaysMatch ==
    ASSUME OneSessionPerCase
    PROVE  Spec => [](TypeInv /\ TurnInv /\ MatchInv)
<1>1. Init => TypeInv /\ TurnInv /\ MatchInv
  BY InitTypes, InitTurn, InitMatch
<1>2. TypeInv /\ TurnInv /\ MatchInv /\ [Next]_vars => (TypeInv /\ TurnInv /\ MatchInv)'
  BY NextTypes, NextTurn, NextMatch
<1> QED BY <1>1, <1>2, PTL DEF Spec

\* Once set_engagement has succeeded, the session's engagement and its case's
\* are the same until the next one: no query, fact, failed call, expiry or
\* restart in between separates them, if each case has one session.
THEOREM EngagementsMatch ==
    ASSUME OneSessionPerCase
    PROVE  Spec => []SessionMatchesCase
<1>1. MatchInv => SessionMatchesCase
  <2> SUFFICES ASSUME MatchInv, NEW s \in Sessions, HasStore, session[s] # None,
                      session[s].engagement.by # None, session[s].engagement.case # None,
                      phase[session[s].engagement.by] = "done"
               PROVE  /\ file[session[s].engagement.case] # None
                      /\ file[session[s].engagement.case].engagement = session[s].engagement
    BY DEF SessionMatchesCase
  <2>1. EngagementOf(s) = session[s].engagement
    BY DEF EngagementOf, OrNew
  <2> QED BY <2>1 DEF MatchInv, SessionsMatch, CaseOf, OrNew
<1> QED BY <1>1, AlwaysMatch, PTL

(***************************************************************************)
(* Omitted scopes                                                          *)
(***************************************************************************)

\* A call about to store an engagement is the one that set it; if it left the scope
\* out and no other call has set the case since, it has the scope the case has.
RestoredInv ==
    \A c \in Calls : phase[c] = "saved" /\ req[c].kind = "set" =>
        LET k == req[c].case
        IN  /\ held[c].by = c
            /\ (req[c].scope = Omitted /\ HasStore /\ k # None
                  /\ CaseOf(k).engagement # None /\ c \notin overtaken)
                 => held[c].scope = CaseOf(k).engagement.scope

\* A call has read its case and merged its engagement in one step.
LEMMA MergedRestores ==
    ASSUME NEW c \in Calls, req[c].kind = "set"
    PROVE  LET k == req[c].case
           IN  /\ Merged(c).by = c
               /\ req[c].scope = Omitted /\ HasStore /\ k # None /\ CaseOf(k).engagement # None
                    => Merged(c).scope = CaseOf(k).engagement.scope
BY DEF Merged, Given, Source, OrNew

\* Only a store writes a case, and only set_engagement's the engagement in it.
LEMMA FileStays ==
    ASSUME TypeInv, [Next]_vars
    PROVE  UNCHANGED file \/ \E c \in Calls : StoreEngagement(c) \/ StoreQuery(c) \/ StoreFact(c)
<1>1. ASSUME NEW c \in Calls, NEW r \in Requests, Enter(c, r) \/ EnterUnset(c, r)
      PROVE  UNCHANGED file
  BY <1>1 DEF Enter, EnterUnset, Begins
<1>2. ASSUME NEW c \in Calls,
             Load(c) \/ SaveEngagement(c) \/ SaveQuery(c) \/ SaveFact(c) \/ RefuseFact(c) \/ Raise(c)
      PROVE  UNCHANGED file
  BY <1>2 DEF Load, SaveEngagement, SaveQuery, SaveFact, Save, RefuseFact, Raise
<1>3. (\E s \in Sessions : Expire(s)) \/ Restart \/ UNCHANGED vars => UNCHANGED file
  BY DEF Expire, Restart, vars
<1> QED BY <1>1, <1>2, <1>3 DEF Next, Idle

\* A call that has saved did so in this step, or had already; overtaken calls stay so.
LEMMA SavedBefore ==
    ASSUME TypeInv, [Next]_vars, NEW c \in Calls, phase'[c] = "saved", req'[c].kind = "set"
    PROVE  /\ req'[c] = req[c] /\ overtaken \subseteq overtaken'
           /\ \/ phase[c] = "saved" /\ held'[c] = held[c]
              \/ UNCHANGED file /\ held'[c] = Merged(c)
<1>1. ASSUME NEW d \in Calls, NEW r \in Requests, Enter(d, r) \/ EnterUnset(d, r)
      PROVE  req'[c] = req[c] /\ overtaken' = overtaken /\ phase[c] = "saved" /\ held'[c] = held[c]
  <2>1. /\ phase' = [phase EXCEPT ![d] = "entered"] /\ req' = [req EXCEPT ![d] = r]
        /\ UNCHANGED <<held, overtaken>>
    BY <1>1 DEF Enter, EnterUnset, Begins, Go
  <2> QED BY <2>1 DEF TypeInv, TypeOK
<1>2. ASSUME NEW d \in Calls, Load(d)
      PROVE  req'[c] = req[c] /\ overtaken' = overtaken /\ phase[c] = "saved" /\ held'[c] = held[c]
  BY <1>2 DEF Load, Go, TypeInv, TypeOK
<1>3. ASSUME NEW d \in Calls, SaveEngagement(d) \/ SaveQuery(d) \/ SaveFact(d)
      PROVE  /\ req'[c] = req[c] /\ overtaken' = overtaken
             /\ \/ phase[c] = "saved" /\ held'[c] = held[c]
                \/ UNCHANGED file /\ held'[c] = Merged(c)
  <2>1. /\ req' = req /\ file' = file /\ overtaken' = overtaken
        /\ req[d].kind = "set" => SaveEngagement(d)
        /\ \A e \in Calls \ {d} : phase'[e] = phase[e] /\ held'[e] = held[e]
    BY <1>3 DEF SaveEngagement, SaveQuery, SaveFact, Save, Go, TypeInv, TypeOK
  <2>2. SaveEngagement(d) => held'[d] = Merged(d)
    BY DEF SaveEngagement, Save, TypeInv, TypeOK
  <2>3. CASE d = c
    BY <2>1, <2>2, <2>3
  <2>4. CASE d # c
    BY <2>1, <2>4
  <2> QED BY <2>3, <2>4
<1>4. ASSUME NEW d \in Calls, NEW to \in {"done", "failed"}, End(d, to), req' = req
      PROVE  req'[c] = req[c] /\ phase[c] = "saved" /\ held'[c] = held[c]
  BY <1>4 DEF End, Go, TypeInv, TypeOK
<1>5. ASSUME NEW d \in Calls, RefuseFact(d) \/ StoreQuery(d) \/ StoreFact(d) \/ Raise(d)
      PROVE  req'[c] = req[c] /\ overtaken' = overtaken /\ phase[c] = "saved" /\ held'[c] = held[c]
  <2>1. /\ \E to \in {"done", "failed"} : End(d, to)
        /\ req' = req /\ overtaken' = overtaken
    BY <1>5 DEF RefuseFact, StoreQuery, StoreFact, Raise
  <2> QED BY <1>4, <2>1
<1>6. ASSUME NEW d \in Calls, StoreEngagement(d)
      PROVE  req'[c] = req[c] /\ overtaken \subseteq overtaken' /\ phase[c] = "saved" /\ held'[c] = held[c]
  <2>1. End(d, "done") /\ req' = req /\ overtaken \subseteq overtaken'
    BY <1>6 DEF StoreEngagement, Overtakes
  <2> QED BY <1>4, <2>1
<1>7. ASSUME NEW s \in Sessions, Expire(s)
      PROVE  req'[c] = req[c] /\ overtaken' = overtaken /\ phase[c] = "saved" /\ held'[c] = held[c]
  BY <1>7 DEF Expire
<1>8. ~Restart
  <2>1. Restart => phase'[c] \in {"new", "done", "failed"}
    BY DEF Restart, Over
  <2> QED BY <2>1
<1>9. ASSUME UNCHANGED vars
      PROVE  req'[c] = req[c] /\ overtaken' = overtaken /\ phase[c] = "saved" /\ held'[c] = held[c]
  BY <1>9 DEF vars
<1> QED BY <1>1, <1>2, <1>3, <1>5, <1>6, <1>7, <1>8, <1>9 DEF Next, Idle

LEMMA RestoredStep ==
    ASSUME TypeInv, RestoredInv, [Next]_vars PROVE RestoredInv'
<1> SUFFICES ASSUME NEW c \in Calls, phase'[c] = "saved", req'[c].kind = "set"
             PROVE  /\ held'[c].by = c
                    /\ (req'[c].scope = Omitted /\ HasStore /\ req'[c].case # None
                          /\ CaseOf(req[c].case)'.engagement # None /\ c \notin overtaken')
                         => held'[c].scope = CaseOf(req[c].case)'.engagement.scope
  BY DEF RestoredInv
<1>1. req'[c] = req[c] /\ overtaken \subseteq overtaken'
  BY SavedBefore
<1>2. PICK k : k = req[c].case
  OBVIOUS
<1>3. CaseOf(req[c].case)' = CaseOf(k)'
  BY <1>1, <1>2 DEF CaseOf
<1>4. CASE UNCHANGED file /\ held'[c] = Merged(c)
  <2>1. CaseOf(k)' = CaseOf(k)
    BY <1>4 DEF CaseOf
  <2> QED BY <1>1, <1>2, <1>3, <1>4, <2>1, MergedRestores
<1>5. CASE phase[c] = "saved" /\ held'[c] = held[c]
  <2>1. /\ held[c].by = c
        /\ (req[c].scope = Omitted /\ HasStore /\ k # None
              /\ CaseOf(k).engagement # None /\ c \notin overtaken)
             => held[c].scope = CaseOf(k).engagement.scope
    BY <1>1, <1>2, <1>5 DEF RestoredInv
  <2>2. k # None => k \in Cases
    BY <1>1, <1>2, <1>5, RequestFields DEF TypeInv, HeldInv
  <2>3. CASE k = None \/ CaseOf(k)'.engagement = CaseOf(k).engagement
    BY <1>1, <1>2, <1>3, <1>5, <2>1, <2>3
  <2>4. CASE k \in Cases /\ CaseOf(k)'.engagement # CaseOf(k).engagement
    <3>1. ~(UNCHANGED file)
      BY <2>4 DEF CaseOf
    <3>2. PICK d \in Calls : StoreEngagement(d) \/ StoreQuery(d) \/ StoreFact(d)
      BY <3>1, FileStays
    <3>3. StoreEngagement(d) /\ k = req[d].case
      BY <2>4, <3>2, FileWritten
    <3>4. d # c
      <4>1. phase'[d] = "done"
        BY <3>3 DEF StoreEngagement, End, Go, TypeInv, TypeOK
      <4> QED BY <4>1
    <3>5. c \in overtaken'
      BY <1>1, <1>2, <1>5, <3>3, <3>4 DEF StoreEngagement, Overtakes
    <3> QED BY <1>5, <2>1, <3>5
  <2> QED BY <2>2, <2>3, <2>4
<1> QED BY <1>4, <1>5, SavedBefore

\* set_engagement never changes the scope of a case by leaving it out
\* (_merge_omitted_scope), for any number of sessions on the case: unless another
\* call has set the case while this one awaited the session store.
THEOREM OmittedScopeStays == Spec => OmittedScopeIsKept
<1> DEFINE Kept(k) == Resets(k) /\ file'[k].engagement.by \notin overtaken => Keeps(k)
<1>1. ASSUME TypeInv, RestoredInv, [Next]_vars, NEW k \in Cases PROVE Kept(k)
  <2> SUFFICES ASSUME Resets(k), file'[k].engagement.by \notin overtaken PROVE Keeps(k)
    OBVIOUS
  <2>1. /\ file[k] # None /\ file[k].engagement # None
        /\ file'[k].engagement # file[k].engagement /\ req[file'[k].engagement.by].scope = Omitted
    BY DEF Resets
  <2>2. PICK c \in Calls : StoreEngagement(c) \/ StoreQuery(c) \/ StoreFact(c)
    BY <1>1, <2>1, FileStays
  <2>3. file'[k] # None
    BY <1>1, <2>1, <2>2, FileWritten
  <2>4. CaseOf(k) = file[k] /\ CaseOf(k)' = file'[k]
    BY <2>1, <2>3 DEF CaseOf, OrNew
  <2>5. StoreEngagement(c) /\ k = req[c].case /\ file'[k].engagement = held[c]
    BY <1>1, <2>1, <2>2, <2>4, FileWritten
  <2>6. HasStore /\ phase[c] = "saved" /\ req[c].kind = "set" /\ k # None
    BY <2>1, <2>5, EngagementAssumption DEF StoreEngagement, Update
  <2>7. held[c].by = c
    BY <1>1, <2>6 DEF RestoredInv
  <2>8. req[c].scope = Omitted /\ c \notin overtaken
    BY <2>1, <2>5, <2>7
  <2>9. held[c].scope = file[k].engagement.scope
    BY <1>1, <2>1, <2>4, <2>5, <2>6, <2>8 DEF RestoredInv
  <2> QED BY <2>5, <2>9 DEF Keeps
<1>2. Init => RestoredInv
  BY DEF Init, RestoredInv
<1>3. TypeInv /\ RestoredInv /\ [Next]_vars => (TypeInv /\ RestoredInv)'
  BY NextTypes, RestoredStep
<1>4. TypeInv /\ RestoredInv /\ [Next]_vars => [\A k \in Cases : Kept(k)]_vars
  BY <1>1
<1>5. Spec => [][\A k \in Cases : Kept(k)]_vars
  BY <1>2, <1>3, <1>4, InitTypes, PTL DEF Spec
<1> QED BY <1>5 DEF OmittedScopeIsKept
===============================================================================
