------------------------- MODULE XqlValidationProofs -------------------------
(***************************************************************************)
(* validate_xql reveals only what the caller may query, goes by fresh      *)
(* answers and bounds its probe, for every set of callers, grants, queries *)
(* and answers; and the corrected query needs no third correction.         *)
(***************************************************************************)
EXTENDS XqlValidation, SequenceTheorems, TLAPS

USE XqlAssumption

(***************************************************************************)
(* What holds of a call between two awaits.  k is the call, L and T are    *)
(* the lists and samples XSIAM has answered with.                          *)
(***************************************************************************)

\* The fields of a call that has begun.
IsCall(k) ==
    k = [pc |-> k.pc, who |-> k.who, stages |-> k.stages, probe |-> k.probe,
         typed |-> k.typed, problems |-> k.problems, allowed |-> k.allowed, status |-> k.status,
         outcome |-> k.outcome, window |-> k.window, listAsked |-> k.listAsked,
         listed |-> k.listed, asked |-> k.asked, checked |-> k.checked]

Coded(k, code) == {q \in k.problems : q.code = code}

\* The question: the lookups are about datasets the caller may query, and a
\* call without a usable timeframe has been told so.
Asks(k) ==
    /\ IsCall(k)
    /\ k.stages \in Seq(Stage) /\ k.typed \in Timeframe \cup {None}
    /\ \A d \in k.allowed : Granted(k.who, d)
    /\ k.typed = None => HasError(k.problems)
    /\ k.typed # None => Shaped(k.typed)

\* The answers so far (the parts of RevealsOnlyAllowed and AnswersAreFresh).
RevealsProblems(k) ==
    \A p \in k.problems :
        /\ p.code = "unknown_dataset" => \A d \in p.hints \cup {p.of} : Granted(k.who, d)
        /\ p.code = "unknown_field" => Granted(k.who, SourceDataset(k.stages))

Missing(k) == {p.of : p \in Coded(k, "unknown_dataset")}
Unknown(k) == {p.of : p \in Coded(k, "unknown_field")}
SampleKey(k) == <<Scope[k.who], SourceDataset(k.stages)>>

Listed(k, L) ==
    Missing(k) # {} =>
        \E a \in Usable(L, Scope[k.who], k.listAsked, k.listed) : Missing(k) \cap a.value = {}

Sampled(k, T) ==
    k.status # "skipped" =>
        \E a \in Usable(T, SampleKey(k), k.asked, k.checked) :
            a.value # {} /\ UnknownFields(k.stages, a.value) = Unknown(k)

\* ProbeIsBounded of one call.
Bounded(k) ==
    k.window # None =>
        /\ k.who \in Raw /\ Granted(k.who, All)
        /\ ~HasError({p \in k.problems : p.code # "probe_failed"})
        /\ ~SetsWindow(k.stages)
        /\ k.window.from < k.window.to
        /\ k.window.to - k.window.from <= Least(Hour, Span(k.typed))
        /\ k.typed.relative = 0 => /\ k.window.from >= k.typed.from
                                   /\ k.window.to <= k.typed.to

\* What has not happened yet.
NotListed(k)  == Coded(k, "unknown_dataset") = {}
NotSampled(k) == Coded(k, "unknown_field") = {} /\ k.status = "skipped"
NotProbed(k)  == k.window = None

Progress(k) ==
    /\ k.pc \in {"datasets", "fields", "probe", "done"}
    /\ k.pc = "datasets" => NotListed(k) /\ NotSampled(k) /\ NotProbed(k)
    /\ k.pc = "fields" => /\ NotSampled(k) /\ NotProbed(k)
                          /\ SourceDataset(k.stages) \in k.allowed

CallInv(k, L, T) ==
    Asks(k) /\ RevealsProblems(k) /\ Listed(k, L) /\ Sampled(k, T) /\ Bounded(k) /\ Progress(k)

\* Everything the caches hold is an answer of XSIAM, under its key and the
\* moment it was asked for.
CachesHoldAnswers ==
    datasetCache \in Seq(lists) /\ fieldCache \in Seq(samples)

IInv ==
    /\ DOMAIN calls = Callers /\ calls = [c \in Callers |-> calls[c]]
    /\ now \in Nat
    /\ CachesHoldAnswers
    /\ \A c \in Callers : calls[c] = Idle \/ CallInv(calls[c], lists, samples)

(***************************************************************************)
(* The steps of a call, as operators on the call                           *)
(***************************************************************************)

\* What a call knows when it turns to the probe is what it ends with.
SameAnswers(k, n) ==
    /\ IsCall(n)
    /\ n.who = k.who /\ n.stages = k.stages /\ n.typed = k.typed
    /\ n.problems = k.problems /\ n.allowed = k.allowed /\ n.status = k.status
    /\ n.listAsked = k.listAsked /\ n.listed = k.listed
    /\ n.asked = k.asked /\ n.checked = k.checked

LEMMA SameAnswersKeep ==
    ASSUME NEW k, NEW n, NEW L, NEW T, SameAnswers(k, n), Asks(k), RevealsProblems(k),
           Listed(k, L), Sampled(k, T)
    PROVE  Asks(n) /\ RevealsProblems(n) /\ Listed(n, L) /\ Sampled(n, T)
<1>1. Asks(n)
  BY DEF SameAnswers, Asks
<1>2. RevealsProblems(n)
  BY DEF SameAnswers, RevealsProblems
<1>3. Listed(n, L)
  BY DEF SameAnswers, Listed, Missing, Coded
<1>4. Sampled(n, T)
  BY DEF SameAnswers, Sampled, Unknown, Coded, SampleKey
<1> QED BY <1>1, <1>2, <1>3, <1>4

\* The window of the probe, when it is one.
LEMMA WindowFits ==
    ASSUME NEW t \in Timeframe, t # None, Shaped(t), now \in Nat,
           ProbeWindow(t).from < ProbeWindow(t).to
    PROVE  /\ ProbeWindow(t).to - ProbeWindow(t).from <= Least(Hour, Span(t))
           /\ t.relative = 0 => /\ ProbeWindow(t).from >= t.from
                                /\ ProbeWindow(t).to <= t.to
<1>1. t.relative \in Nat /\ t.from \in Int /\ t.to \in Int /\ Hour \in Nat
  BY DEF Timeframe
<1>2. CASE t.relative = 0
  <2> DEFINE end == Least(t.to, now)
  <2>1. ProbeWindow(t) = [from |-> Greatest(end - Hour, t.from), to |-> end]
    BY <1>2 DEF ProbeWindow
  <2>2. ProbeWindow(t).from = Greatest(end - Hour, t.from) /\ ProbeWindow(t).to = end
    BY <2>1
  <2>3. end <= t.to /\ end \in Int
    BY <1>1 DEF Least
  <2> HIDE DEF end
  <2>4. /\ Greatest(end - Hour, t.from) >= t.from /\ Greatest(end - Hour, t.from) >= end - Hour
        /\ Greatest(end - Hour, t.from) \in Int
    BY <1>1, <2>3 DEF Greatest
  <2>5. Span(t) = t.to - t.from
    BY <1>2 DEF Span
  <2>6. end - Greatest(end - Hour, t.from) <= Least(Hour, Span(t))
    BY <1>1, <2>3, <2>4, <2>5 DEF Least
  <2> QED BY <2>2, <2>3, <2>4, <2>6
<1>3. CASE t.relative # 0
  <2> DEFINE back == Least(t.relative, Hour)
  <2>1. ProbeWindow(t) = [from |-> now - back, to |-> now]
    BY <1>3 DEF ProbeWindow
  <2>2. ProbeWindow(t).from = now - back /\ ProbeWindow(t).to = now
    BY <2>1
  <2> QED BY <1>1, <1>3, <2>2 DEF Least, Span
<1> QED BY <1>2, <1>3

LEMMA EnterProbeStep ==
    ASSUME NEW k, Asks(k), NotProbed(k), now \in Nat
    PROVE  /\ SameAnswers(k, EnterProbe(k)) /\ Bounded(EnterProbe(k))
           /\ EnterProbe(k).pc \in {"probe", "done"}
<1> DEFINE n == EnterProbe(k)
           w == ProbeWindow(k.typed)
<1>1. ASSUME NEW o, n = Done(k, o)
      PROVE  SameAnswers(k, n) /\ Bounded(n) /\ n.pc \in {"probe", "done"}
  <2>1. n = [k EXCEPT !.pc = "done", !.outcome = o]
    BY <1>1 DEF Done
  <2> HIDE DEF n
  <2>2. SameAnswers(k, n) /\ n.pc = "done" /\ n.window = k.window
    BY <2>1 DEF SameAnswers, IsCall, Asks
  <2> QED BY <2>2 DEF Bounded, NotProbed
<1>2. ASSUME ~(\E o : n = Done(k, o))
      PROVE  /\ n = [k EXCEPT !.pc = "probe", !.window = w]
             /\ ~HasError(k.problems) /\ k.who \in Raw /\ Granted(k.who, All)
             /\ ~SetsWindow(k.stages) /\ ~(w.from >= w.to)
  <2> HIDE DEF w
  <2>1. n = IF ~k.probe THEN Done(k, None)
            ELSE IF HasError(k.problems) THEN Done(k, "static_checks_failed")
            ELSE IF k.who \notin Raw \/ ~Granted(k.who, All) THEN Done(k, "not_authorized")
            ELSE IF SetsWindow(k.stages) THEN Done(k, "config_timeframe")
            ELSE IF w.from >= w.to THEN Done(k, "invalid")
            ELSE [k EXCEPT !.pc = "probe", !.window = w]
    BY DEF EnterProbe, w
  <2> HIDE DEF n
  <2> QED BY <1>2, <2>1
<1>3. ASSUME ~(\E o : n = Done(k, o))
      PROVE  SameAnswers(k, n) /\ Bounded(n) /\ n.pc \in {"probe", "done"}
  <2> HIDE DEF n
  <2>1. SameAnswers(k, n) /\ n.pc = "probe" /\ n.window = w
    BY <1>2, <1>3 DEF SameAnswers, IsCall, Asks
  <2>2. k.typed \in Timeframe /\ k.typed # None /\ Shaped(k.typed)
    BY <1>2, <1>3 DEF Asks
  <2>3. w.from \in Int /\ w.to \in Int
    BY <2>2 DEF ProbeWindow, Timeframe, Least, Greatest
  <2>4. w.from < w.to
    BY <1>2, <1>3, <2>3
  <2>5. /\ w.to - w.from <= Least(Hour, Span(k.typed))
        /\ k.typed.relative = 0 => w.from >= k.typed.from /\ w.to <= k.typed.to
    BY <2>2, <2>4, WindowFits
  <2>6. ~HasError({p \in k.problems : p.code # "probe_failed"})
    BY <1>2, <1>3 DEF HasError
  <2> HIDE DEF w
  <2>7. Bounded(n)
    BY <1>2, <1>3, <2>1, <2>4, <2>5, <2>6 DEF Bounded, SameAnswers
  <2> QED BY <2>1, <2>7
<1> QED BY <1>1, <1>3

\* A call that goes on to the probe keeps the invariant.
LEMMA ProbeKeeps ==
    ASSUME NEW k, NEW L, NEW T, Asks(k), RevealsProblems(k), Listed(k, L), Sampled(k, T),
           NotProbed(k), now \in Nat
    PROVE  CallInv(EnterProbe(k), L, T)
<1>1. /\ SameAnswers(k, EnterProbe(k)) /\ Bounded(EnterProbe(k))
      /\ EnterProbe(k).pc \in {"probe", "done"}
  BY EnterProbeStep
<1>2. Progress(EnterProbe(k))
  BY <1>1 DEF Progress
<1> QED BY <1>1, <1>2, SameAnswersKeep DEF CallInv

\* The problems a call is given before its first lookup.
LEMMA StaticCodes ==
    ASSUME NEW p, NEW stages, NEW t
    PROVE  \A q \in StaticProblems(p, stages, t) :
               q.code \notin {"unknown_dataset", "unknown_field", "probe_failed"}
<1>1. \A code : Flag(code).code = code
  BY DEF Flag, Problem
<1>2. \A condition, code : \A q \in When(condition, code) : q.code = code
  BY <1>1 DEF When
<1>3. \A q \in TimeframeProblems(t) :
          q.code \notin {"unknown_dataset", "unknown_field", "probe_failed"}
  BY <1>1, <1>2 DEF TimeframeProblems
<1>4. \A q \in LimitProblems(stages) :
          q.code \notin {"unknown_dataset", "unknown_field", "probe_failed"}
  BY <1>1, <1>2 DEF LimitProblems
<1>5. \A q \in DatasetProblems(p, stages) :
          q.code \notin {"unknown_dataset", "unknown_field", "probe_failed"}
  BY <1>1, <1>2 DEF DatasetProblems, Problem
<1>6. \A q \in ComparisonProblems(stages) :
          q.code \notin {"unknown_dataset", "unknown_field", "probe_failed"}
  BY DEF ComparisonProblems, Problem
<1> QED BY <1>2, <1>3, <1>4, <1>5, <1>6 DEF StaticProblems

\* A timeframe without an error is there and well formed.
LEMMA TimeframeChecked ==
    ASSUME NEW t \in Timeframe \cup {None}, ~HasError(TimeframeProblems(t))
    PROVE  t # None /\ Shaped(t)
<1>1. ~HasError({Flag("timeframe_missing")}) => FALSE
  BY DEF HasError, Flag, Problem, Warnings
<1>2. ~HasError({Flag("timeframe_invalid")}) => FALSE
  BY DEF HasError, Flag, Problem, Warnings
<1>3. t # None
  BY <1>1 DEF TimeframeProblems
<1>4. Shaped(t)
  BY <1>2, <1>3 DEF TimeframeProblems
<1> QED BY <1>3, <1>4

LEMMA NewCallStep ==
    ASSUME NEW p, NEW r \in Requests
    PROVE  /\ Asks(NewCall(p, r)) /\ NotListed(NewCall(p, r))
           /\ NotSampled(NewCall(p, r)) /\ NotProbed(NewCall(p, r))
           /\ NewCall(p, r).listAsked = None /\ NewCall(p, r).asked = None
<1> DEFINE k == NewCall(p, r)
           t == r.timeframe
           s == StaticProblems(p, r.stages, t)
<1>1. r.stages \in Seq(Stage) /\ t \in Timeframe \cup {None}
  OBVIOUS
<1>2. /\ k.who = p /\ k.stages = r.stages /\ k.problems = s
      /\ k.allowed = AllowedDatasets(p, r.stages) /\ k.status = "skipped" /\ k.window = None
      /\ k.typed = IF HasError(TimeframeProblems(t)) THEN None ELSE t
      /\ k.listAsked = None /\ k.asked = None
  BY DEF NewCall
<1>3. IsCall(k)
  BY DEF NewCall, IsCall
<1> HIDE DEF k
<1>4. \A q \in s : q.code \notin {"unknown_dataset", "unknown_field", "probe_failed"}
  BY StaticCodes
<1>5. NotListed(k) /\ NotSampled(k) /\ NotProbed(k)
  BY <1>2, <1>4 DEF NotListed, NotSampled, NotProbed, Coded
<1>6. \A d \in k.allowed : Granted(k.who, d)
  BY <1>2 DEF AllowedDatasets
<1>7. TimeframeProblems(t) \subseteq s
  BY DEF StaticProblems
<1>8. HasError(TimeframeProblems(t)) => HasError(s)
  BY <1>7 DEF HasError
<1>9. ASSUME HasError(TimeframeProblems(t)) PROVE Asks(k)
  <2>1. k.typed = None
    BY <1>2, <1>9
  <2> QED BY <1>1, <1>2, <1>3, <1>6, <1>8, <1>9, <2>1 DEF Asks
<1>10. ASSUME ~HasError(TimeframeProblems(t)) PROVE Asks(k)
  <2>1. k.typed = t /\ t # None /\ Shaped(t)
    BY <1>1, <1>2, <1>10, TimeframeChecked
  <2> QED BY <1>1, <1>2, <1>3, <1>6, <2>1 DEF Asks
<1> QED BY <1>2, <1>5, <1>9, <1>10 DEF k

\* What the names of a sample make of a call.
LEMMA AfterFieldsStep ==
    ASSUME NEW k, NEW L, NEW T, NEW names, now \in Nat,
           Asks(k), RevealsProblems(k), Listed(k, L), NotSampled(k), NotProbed(k),
           SourceDataset(k.stages) \in k.allowed,
           names # {} => \E a \in Usable(T, SampleKey(k), k.asked, now) : a.value = names
    PROVE  CallInv(AfterFields(k, names), L, T)
<1> DEFINE skip == {Flag("field_check_skipped")}
           found == FieldProblems(k.stages, names)
           one == [k EXCEPT !.problems = @ \cup skip]
           two == [k EXCEPT !.problems = @ \cup found,
                            !.status = IF WholeIsCheckable(k.stages) THEN "checked" ELSE "partial",
                            !.checked = now]
<1>1. AfterFields(k, names) = EnterProbe(IF names = {} THEN one ELSE two)
  BY DEF AfterFields
<1>2. \A q \in skip : q.code = "field_check_skipped"
  BY DEF Flag, Problem
<1>3. \A q \in found : \/ q.code = "field_check_skipped"
                       \/ q.code = "unknown_field" /\ q.of \in UnknownFields(k.stages, names)
  BY DEF FieldProblems, Problem, When, Flag
<1>4. \A f \in UnknownFields(k.stages, names) :
          \E q \in found : q.code = "unknown_field" /\ q.of = f
  <2> TAKE f \in UnknownFields(k.stages, names)
  <2>1. Problem("unknown_field", f, names) \in found
    BY DEF FieldProblems
  <2>2. /\ Problem("unknown_field", f, names).code = "unknown_field"
        /\ Problem("unknown_field", f, names).of = f
    BY DEF Problem
  <2> QED BY <2>1, <2>2
<1> HIDE DEF skip, found
<1>5. CASE names = {}
  <2>0. IsCall(k)
    BY DEF Asks
  <2>a. one = [k EXCEPT !.problems = k.problems \cup skip]
    OBVIOUS
  <2> HIDE DEF one
  <2>1. /\ IsCall(one) /\ one.who = k.who /\ one.stages = k.stages /\ one.typed = k.typed
        /\ one.allowed = k.allowed /\ one.status = k.status /\ one.window = k.window
        /\ one.listAsked = k.listAsked /\ one.listed = k.listed
        /\ one.asked = k.asked /\ one.checked = k.checked
        /\ one.problems = k.problems \cup skip
    BY <2>0, <2>a DEF IsCall
  <2>2. Asks(one)
    BY <2>1 DEF Asks, HasError
  <2>3. RevealsProblems(one)
    BY <2>1, <1>2 DEF RevealsProblems
  <2>4. Coded(one, "unknown_dataset") = Coded(k, "unknown_dataset")
    BY <2>1, <1>2 DEF Coded
  <2>5. Listed(one, L)
    BY <2>1, <2>4 DEF Listed, Missing
  <2>6. Sampled(one, T) /\ NotProbed(one)
    BY <2>1 DEF Sampled, NotSampled, NotProbed
  <2>7. CallInv(EnterProbe(one), L, T)
    BY <2>2, <2>3, <2>5, <2>6, ProbeKeeps
  <2> QED BY <1>1, <1>5, <2>7
<1>6. CASE names # {}
  <2>0. IsCall(k)
    BY DEF Asks
  <2>a. two = [k EXCEPT !.problems = k.problems \cup found,
                      !.status = IF WholeIsCheckable(k.stages) THEN "checked" ELSE "partial",
                      !.checked = now]
    OBVIOUS
  <2> HIDE DEF two
  <2>1. /\ IsCall(two) /\ two.who = k.who /\ two.stages = k.stages /\ two.typed = k.typed
        /\ two.allowed = k.allowed /\ two.window = k.window
        /\ two.listAsked = k.listAsked /\ two.listed = k.listed
        /\ two.asked = k.asked /\ two.checked = now
        /\ two.problems = k.problems \cup found
    BY <2>0, <2>a DEF IsCall
  <2>2. Asks(two)
    BY <2>1 DEF Asks, HasError
  <2>3. RevealsProblems(two)
    <3>1. Granted(k.who, SourceDataset(k.stages))
      BY DEF Asks
    <3> QED BY <2>1, <3>1, <1>3 DEF RevealsProblems
  <2>4. Coded(two, "unknown_dataset") = Coded(k, "unknown_dataset")
    BY <2>1, <1>3 DEF Coded
  <2>5. Listed(two, L)
    BY <2>1, <2>4 DEF Listed, Missing
  <2>6. Unknown(two) = UnknownFields(k.stages, names)
    <3>1. Coded(two, "unknown_field") = {q \in found : q.code = "unknown_field"}
      BY <2>1 DEF Coded, NotSampled
    <3> QED BY <3>1, <1>3, <1>4 DEF Unknown
  <2>7. Sampled(two, T) /\ NotProbed(two)
    <3>1. PICK a \in Usable(T, SampleKey(k), k.asked, now) : a.value = names
      BY <1>6
    <3>2. a \in Usable(T, SampleKey(two), two.asked, two.checked)
      BY <2>1, <3>1 DEF SampleKey
    <3>3. a.value # {} /\ UnknownFields(two.stages, a.value) = Unknown(two)
      BY <1>6, <2>1, <2>6, <3>1
    <3> QED BY <2>1, <3>2, <3>3 DEF Sampled, NotProbed
  <2>8. CallInv(EnterProbe(two), L, T)
    BY <2>2, <2>3, <2>5, <2>7, ProbeKeeps
  <2> QED BY <1>1, <1>6, <2>8
<1> QED BY <1>5, <1>6

LEMMA EnterFieldsStep ==
    ASSUME NEW k, NEW L, NEW T, now \in Nat, fieldCache \in Seq(T),
           Asks(k), RevealsProblems(k), Listed(k, L), NotSampled(k), NotProbed(k),
           SourceDataset(k.stages) \in k.allowed
    PROVE  CallInv(EnterFields(k), L, T)
<1> DEFINE cached == Fresh(fieldCache, FieldKey(k.who, SourceDataset(k.stages)))
<1>1. CASE cached = {}
  <2> DEFINE n == EnterFields(k)
  <2>1. n = [k EXCEPT !.pc = "fields", !.asked = now]
    BY <1>1 DEF EnterFields
  <2> HIDE DEF n
  <2>2. IsCall(k)
    BY DEF Asks
  <2>3. /\ IsCall(n) /\ n.pc = "fields" /\ n.who = k.who /\ n.stages = k.stages
        /\ n.typed = k.typed /\ n.problems = k.problems /\ n.allowed = k.allowed
        /\ n.status = k.status /\ n.window = k.window
        /\ n.listAsked = k.listAsked /\ n.listed = k.listed
    BY <2>1, <2>2 DEF IsCall
  <2>4. Asks(n) /\ RevealsProblems(n)
    BY <2>3 DEF Asks, RevealsProblems
  <2>5. Listed(n, L)
    BY <2>3 DEF Listed, Missing, Coded
  <2>6. NotSampled(n) /\ NotProbed(n)
    BY <2>3 DEF NotSampled, NotProbed, Coded
  <2>7. Sampled(n, T) /\ Bounded(n) /\ Progress(n)
    BY <2>3, <2>6 DEF Sampled, Bounded, Progress, NotSampled, NotProbed
  <2> QED BY <2>4, <2>5, <2>7 DEF CallInv, n
<1>2. CASE cached # {}
  <2> DEFINE e == CHOOSE x \in cached : TRUE
  <2>1. e \in cached
    BY <1>2
  <2>2. EnterFields(k) = AfterFields(k, e.value)
    BY <1>2 DEF EnterFields
  <2> HIDE DEF e
  <2>3. e \in T /\ e.key = FieldKey(k.who, SourceDataset(k.stages)) /\ now - e.at < Hour
    BY <2>1 DEF Fresh, ToSet
  <2>4. e \in Usable(T, SampleKey(k), k.asked, now)
    BY <2>3 DEF Usable, SampleKey, FieldKey
  <2> QED BY <2>2, <2>4, AfterFieldsStep
<1> QED BY <1>1, <1>2

\* What a dataset list, or none, makes of a call.
LEMMA AfterDatasetsStep ==
    ASSUME NEW k, NEW L, NEW T, NEW list, now \in Nat, fieldCache \in Seq(T),
           Asks(k), RevealsProblems(k), NotListed(k), NotSampled(k), NotProbed(k),
           list # None => \E a \in Usable(L, Scope[k.who], k.listAsked, now) : a.value = list
    PROVE  CallInv(AfterDatasets(k, list), L, T)
<1> DEFINE found == ExistenceProblems(k.who, k.allowed, list)
           n == [k EXCEPT !.problems = @ \cup found, !.listed = now]
<1>1. AfterDatasets(k, list) = IF found = {} /\ SourceDataset(k.stages) \in k.allowed
                               THEN EnterFields(n) ELSE EnterProbe(n)
  BY DEF AfterDatasets
<1>2. \A q \in found : /\ q.code = "unknown_dataset" /\ list # None
                       /\ q.of \in k.allowed /\ q.of \notin list
                       /\ \A d \in q.hints : Granted(k.who, d)
  BY DEF ExistenceProblems, Problem
<1>3. n = [k EXCEPT !.problems = k.problems \cup found, !.listed = now]
  OBVIOUS
<1> HIDE DEF found, n
<1>4. IsCall(k)
  BY DEF Asks
<1>5. /\ IsCall(n) /\ n.who = k.who /\ n.stages = k.stages
      /\ n.typed = k.typed /\ n.problems = k.problems \cup found /\ n.allowed = k.allowed
      /\ n.status = k.status /\ n.window = k.window
      /\ n.listAsked = k.listAsked /\ n.listed = now
  BY <1>3, <1>4 DEF IsCall
<1>6. Asks(n)
  BY <1>5 DEF Asks, HasError
<1>7. RevealsProblems(n)
  <2>1. \A d \in k.allowed : Granted(k.who, d)
    BY DEF Asks
  <2> QED BY <1>2, <1>5, <2>1 DEF RevealsProblems
<1>8. NotSampled(n) /\ NotProbed(n)
  BY <1>2, <1>5 DEF NotSampled, NotProbed, Coded
<1>9. Coded(n, "unknown_dataset") = found
  BY <1>2, <1>5 DEF NotListed, Coded
<1>10. Listed(n, L)
  <2>1. CASE found = {}
    BY <2>1, <1>9 DEF Listed, Missing
  <2>2. CASE found # {}
    <3>1. PICK a \in Usable(L, Scope[k.who], k.listAsked, now) : a.value = list
      BY <2>2, <1>2
    <3>2. Missing(n) \cap a.value = {}
      BY <3>1, <1>2, <1>9 DEF Missing
    <3> QED BY <3>1, <3>2, <1>5 DEF Listed
  <2> QED BY <2>1, <2>2
<1>11. CASE found = {} /\ SourceDataset(k.stages) \in k.allowed
  <2>1. CallInv(EnterFields(n), L, T)
    BY <1>5, <1>6, <1>7, <1>8, <1>10, <1>11, EnterFieldsStep
  <2> QED BY <1>1, <1>11, <2>1
<1>12. CASE ~(found = {} /\ SourceDataset(k.stages) \in k.allowed)
  <2>1. CallInv(EnterProbe(n), L, T)
    BY <1>6, <1>7, <1>8, <1>10, ProbeKeeps DEF Sampled, NotSampled
  <2> QED BY <1>1, <1>12, <2>1
<1> QED BY <1>11, <1>12

LEMMA EnterDatasetsStep ==
    ASSUME NEW k, NEW L, NEW T, now \in Nat, fieldCache \in Seq(T), datasetCache \in Seq(L),
           Asks(k), RevealsProblems(k), NotListed(k), NotSampled(k), NotProbed(k)
    PROVE  CallInv(EnterDatasets(k), L, T)
<1> DEFINE cached == Fresh(datasetCache, Scope[k.who])
<1>0. Listed(k, L) /\ Sampled(k, T)
  BY DEF NotListed, NotSampled, Listed, Missing, Sampled
<1>1. CASE k.allowed = {}
  <2>1. CallInv(EnterProbe(k), L, T)
    BY <1>0, ProbeKeeps
  <2> QED BY <1>1, <2>1 DEF EnterDatasets
<1>2. CASE k.allowed # {} /\ cached = {}
  <2> DEFINE n == EnterDatasets(k)
  <2>1. n = [k EXCEPT !.pc = "datasets", !.listAsked = now]
    BY <1>2 DEF EnterDatasets
  <2> HIDE DEF n
  <2>2. IsCall(k)
    BY DEF Asks
  <2>3. /\ IsCall(n) /\ n.pc = "datasets" /\ n.who = k.who /\ n.stages = k.stages
        /\ n.typed = k.typed /\ n.problems = k.problems /\ n.allowed = k.allowed
        /\ n.status = k.status /\ n.window = k.window
    BY <2>1, <2>2 DEF IsCall
  <2>4. Asks(n) /\ RevealsProblems(n)
    BY <2>3 DEF Asks, RevealsProblems
  <2>5. NotListed(n) /\ NotSampled(n) /\ NotProbed(n)
    BY <2>3 DEF NotListed, NotSampled, NotProbed, Coded
  <2>6. Listed(n, L) /\ Sampled(n, T) /\ Bounded(n) /\ Progress(n)
    BY <2>3, <2>5 DEF Listed, Missing, Sampled, Bounded, Progress, NotListed, NotSampled, NotProbed
  <2> QED BY <2>4, <2>6 DEF CallInv, n
<1>3. CASE k.allowed # {} /\ cached # {}
  <2> DEFINE e == CHOOSE x \in cached : TRUE
  <2>1. e \in cached
    BY <1>3
  <2>2. EnterDatasets(k) = AfterDatasets(k, e.value)
    BY <1>3 DEF EnterDatasets
  <2> HIDE DEF e
  <2>3. e \in L /\ e.key = Scope[k.who] /\ now - e.at < Hour
    BY <2>1 DEF Fresh, ToSet
  <2>4. e \in Usable(L, Scope[k.who], k.listAsked, now)
    BY <2>3 DEF Usable
  <2> QED BY <2>2, <2>4, AfterDatasetsStep
<1> QED BY <1>1, <1>2, <1>3

\* More answers take nothing from a call.
LEMMA MoreAnswers ==
    ASSUME NEW k, NEW L, NEW T, NEW L2, NEW T2, CallInv(k, L, T), L \subseteq L2, T \subseteq T2
    PROVE  CallInv(k, L2, T2)
<1>1. \A key, asked, moment :
          /\ Usable(L, key, asked, moment) \subseteq Usable(L2, key, asked, moment)
          /\ Usable(T, key, asked, moment) \subseteq Usable(T2, key, asked, moment)
  BY DEF Usable
<1>2. Listed(k, L2) /\ Sampled(k, T2)
  BY <1>1 DEF CallInv, Listed, Sampled
<1> QED BY <1>2 DEF CallInv

\* What is cached is what was there, or the new entry.
LEMMA StoreStep ==
    ASSUME NEW S, NEW cache \in Seq(S), NEW e \in S
    PROVE  Store(cache, e) \in Seq(S)
<1>1. CASE Holds(cache, e.key)
  <2>1. DOMAIN cache = 1..Len(cache) /\ Len(cache) \in Nat
    OBVIOUS
  <2>2. [i \in DOMAIN cache |-> IF cache[i].key = e.key THEN e ELSE cache[i]]
            \in [1..Len(cache) -> S]
    BY <2>1
  <2>3. [1..Len(cache) -> S] \subseteq Seq(S)
    BY <2>1, SeqDef
  <2> QED BY <1>1, <2>2, <2>3 DEF Store
<1>2. CASE ~Holds(cache, e.key) /\ Len(cache) >= CacheMax
  <2>1. cache # <<>>
    BY <1>2
  <2>2. Tail(cache) \in Seq(S)
    BY <2>1
  <2> QED BY <1>2, <2>2 DEF Store
<1>3. CASE ~Holds(cache, e.key) /\ ~(Len(cache) >= CacheMax)
  BY <1>3 DEF Store
<1> QED BY <1>1, <1>2, <1>3

LEMMA MoreIsSeq ==
    ASSUME NEW S, NEW S2, S \subseteq S2, NEW s \in Seq(S)
    PROVE  s \in Seq(S2)
OBVIOUS

(***************************************************************************)
(* The steps of the system                                                 *)
(***************************************************************************)

LEMMA InitStep == Init => IInv
BY DEF Init, IInv, CachesHoldAnswers

\* One call moves, the answers grow.
LEMMA OneCall ==
    ASSUME IInv, NEW c \in Callers, NEW n,
           calls' = [calls EXCEPT ![c] = n],
           lists \subseteq lists', samples \subseteq samples',
           CallInv(n, lists', samples'),
           now' = now, datasetCache' \in Seq(lists'), fieldCache' \in Seq(samples')
    PROVE  IInv'
<1>1. /\ DOMAIN calls' = Callers /\ calls' = [d \in Callers |-> calls'[d]]
      /\ calls'[c] = n /\ \A d \in Callers : d # c => calls'[d] = calls[d]
  BY DEF IInv
<1>2. ASSUME NEW d \in Callers
      PROVE  calls'[d] = Idle \/ CallInv(calls'[d], lists', samples')
  <2>1. CASE d = c
    BY <2>1, <1>1
  <2>2. CASE d # c
    <3>1. calls'[d] = calls[d]
      BY <1>1, <2>2
    <3>2. calls[d] = Idle \/ CallInv(calls[d], lists, samples)
      BY DEF IInv
    <3>3. CallInv(calls[d], lists, samples) => CallInv(calls[d], lists', samples')
      BY MoreAnswers
    <3> QED BY <3>1, <3>2, <3>3
  <2> QED BY <2>1, <2>2
<1>3. CachesHoldAnswers' /\ now' \in Nat
  BY DEF IInv, CachesHoldAnswers
<1>4. \A d \in Callers : calls'[d] = Idle \/ CallInv(calls'[d], lists', samples')
  BY <1>2
<1>5. (\A d \in Callers : calls[d] = Idle \/ CallInv(calls[d], lists, samples))'
  BY <1>4 DEF CallInv, Asks, RevealsProblems, Listed, Sampled, Bounded, Progress,
              NotListed, NotSampled, NotProbed, Missing, Unknown, Coded, SampleKey, IsCall
<1> QED BY <1>1, <1>3, <1>5 DEF IInv

LEMMA BeginStep ==
    ASSUME IInv, NEW c \in Callers, Begin(c) PROVE IInv'
<1>1. PICK p \in Principals, r \in Requests :
          calls' = [calls EXCEPT ![c] = EnterDatasets(NewCall(p, r))]
  BY DEF Begin
<1>2. UNCHANGED <<datasetCache, fieldCache, now, lists, samples>>
  BY DEF Begin
<1>3. now \in Nat /\ datasetCache \in Seq(lists) /\ fieldCache \in Seq(samples)
  BY DEF IInv, CachesHoldAnswers
<1> DEFINE k == NewCall(p, r)
<1>4. Asks(k) /\ NotListed(k) /\ NotSampled(k) /\ NotProbed(k)
  BY NewCallStep
<1> HIDE DEF k
<1>5. RevealsProblems(k)
  BY <1>4 DEF RevealsProblems, NotListed, NotSampled, Coded
<1>6. CallInv(EnterDatasets(k), lists, samples)
  BY <1>3, <1>4, <1>5, EnterDatasetsStep
<1>7. CallInv(EnterDatasets(k), lists', samples')
  BY <1>2, <1>6
<1> QED BY <1>1, <1>2, <1>3, <1>7, OneCall DEF k

LEMMA DatasetsAnsweredStep ==
    ASSUME IInv, NEW c \in Callers, DatasetsAnswered(c) PROVE IInv'
<1> DEFINE k == calls[c]
<1>1. CallInv(k, lists, samples) /\ k.pc = "datasets"
  BY DEF DatasetsAnswered, IInv, Idle
<1>2. /\ Asks(k) /\ RevealsProblems(k) /\ NotListed(k) /\ NotSampled(k) /\ NotProbed(k)
  BY <1>1 DEF CallInv, Progress
<1>3. now \in Nat /\ datasetCache \in Seq(lists) /\ fieldCache \in Seq(samples)
  BY DEF IInv, CachesHoldAnswers
<1>4. UNCHANGED <<fieldCache, now, samples>>
  BY DEF DatasetsAnswered
<1>5. ASSUME NEW list \in TenantLists, NEW e, e = Entry(Scope[k.who], k.listAsked, list),
             datasetCache' = Store(datasetCache, e), lists' = lists \cup {e},
             calls' = [calls EXCEPT ![c] = AfterDatasets(k, list)]
      PROVE  IInv'
  <2>1. e.key = Scope[k.who] /\ e.at = k.listAsked /\ e.value = list
    BY <1>5 DEF Entry
  <2>2. e \in Usable(lists', Scope[k.who], k.listAsked, now)
    BY <1>5, <2>1 DEF Usable
  <2>3. CallInv(AfterDatasets(k, list), lists', samples)
    BY <1>2, <1>3, <2>1, <2>2, AfterDatasetsStep
  <2>4. CallInv(AfterDatasets(k, list), lists', samples')
    BY <1>4, <2>3
  <2>5. lists \subseteq lists' /\ e \in lists'
    BY <1>5
  <2>6. datasetCache \in Seq(lists')
    BY <1>3, <2>5, MoreIsSeq
  <2>7. datasetCache' \in Seq(lists')
    BY <1>5, <2>5, <2>6, StoreStep
  <2>8. samples \subseteq samples' /\ now' = now /\ fieldCache' \in Seq(samples')
    BY <1>3, <1>4
  <2> HIDE DEF k
  <2> QED BY <1>5, <2>4, <2>5, <2>7, <2>8, OneCall
<1>6. ASSUME calls' = [calls EXCEPT ![c] = AfterDatasets(k, None)],
             UNCHANGED <<datasetCache, lists>>
      PROVE  IInv'
  <2>1. CallInv(AfterDatasets(k, None), lists, samples)
    BY <1>2, <1>3, AfterDatasetsStep
  <2>2. CallInv(AfterDatasets(k, None), lists', samples')
    BY <1>4, <1>6, <2>1
  <2>3. /\ lists \subseteq lists' /\ samples \subseteq samples' /\ now' = now
        /\ datasetCache' \in Seq(lists') /\ fieldCache' \in Seq(samples')
    BY <1>3, <1>4, <1>6
  <2> HIDE DEF k
  <2> QED BY <1>6, <2>2, <2>3, OneCall
<1>7. CASE \E list \in TenantLists :
               /\ datasetCache' = Store(datasetCache, Entry(Scope[k.who], k.listAsked, list))
               /\ lists' = lists \cup {Entry(Scope[k.who], k.listAsked, list)}
               /\ calls' = [calls EXCEPT ![c] = AfterDatasets(k, list)]
  BY <1>5, <1>7
<1> QED BY <1>6, <1>7 DEF DatasetsAnswered

LEMMA FieldsAnsweredStep ==
    ASSUME IInv, NEW c \in Callers, FieldsAnswered(c) PROVE IInv'
<1> DEFINE k == calls[c]
<1>1. CallInv(k, lists, samples) /\ k.pc = "fields"
  BY DEF FieldsAnswered, IInv, Idle
<1>2. /\ Asks(k) /\ RevealsProblems(k) /\ Listed(k, lists) /\ NotSampled(k) /\ NotProbed(k)
      /\ SourceDataset(k.stages) \in k.allowed
  BY <1>1 DEF CallInv, Progress
<1>3. now \in Nat /\ datasetCache \in Seq(lists) /\ fieldCache \in Seq(samples)
  BY DEF IInv, CachesHoldAnswers
<1>4. UNCHANGED <<datasetCache, now, lists>>
  BY DEF FieldsAnswered
<1>5. ASSUME NEW names, NEW e, e = Entry(SampleKey(k), k.asked, names),
             fieldCache' = Store(fieldCache, e), samples' = samples \cup {e},
             calls' = [calls EXCEPT ![c] = AfterFields(k, names)]
      PROVE  IInv'
  <2>1. e.key = SampleKey(k) /\ e.at = k.asked /\ e.value = names
    BY <1>5 DEF Entry
  <2>2. e \in Usable(samples', SampleKey(k), k.asked, now)
    BY <1>5, <2>1 DEF Usable
  <2>3. CallInv(AfterFields(k, names), lists, samples')
    BY <1>2, <1>3, <2>1, <2>2, AfterFieldsStep
  <2>4. CallInv(AfterFields(k, names), lists', samples')
    BY <1>4, <2>3
  <2>5. samples \subseteq samples' /\ e \in samples'
    BY <1>5
  <2>6. fieldCache \in Seq(samples')
    BY <1>3, <2>5, MoreIsSeq
  <2>7. fieldCache' \in Seq(samples')
    BY <1>5, <2>5, <2>6, StoreStep
  <2>8. lists \subseteq lists' /\ now' = now /\ datasetCache' \in Seq(lists')
    BY <1>3, <1>4
  <2> HIDE DEF k
  <2> QED BY <1>5, <2>4, <2>5, <2>7, <2>8, OneCall
<1>6. ASSUME calls' = [calls EXCEPT ![c] = AfterFields(k, {})],
             UNCHANGED <<fieldCache, samples>>
      PROVE  IInv'
  <2>1. CallInv(AfterFields(k, {}), lists, samples)
    BY <1>2, <1>3, AfterFieldsStep
  <2>2. CallInv(AfterFields(k, {}), lists', samples')
    BY <1>4, <1>6, <2>1
  <2>3. /\ lists \subseteq lists' /\ samples \subseteq samples' /\ now' = now
        /\ datasetCache' \in Seq(lists') /\ fieldCache' \in Seq(samples')
    BY <1>3, <1>4, <1>6
  <2> HIDE DEF k
  <2> QED BY <1>6, <2>2, <2>3, OneCall
<1>7. CASE \E names \in Samples \cup {{}} :
               /\ fieldCache' = Store(fieldCache, Entry(SampleKey(k), k.asked, names))
               /\ samples' = samples \cup {Entry(SampleKey(k), k.asked, names)}
               /\ calls' = [calls EXCEPT ![c] = AfterFields(k, names)]
  BY <1>5, <1>7
<1> QED BY <1>6, <1>7 DEF FieldsAnswered, FieldKey, SampleKey

LEMMA ProbeAnsweredStep ==
    ASSUME IInv, NEW c \in Callers, ProbeAnswered(c) PROVE IInv'
<1>1. PICK o \in {"ok", "failed", "cost_guard", "unavailable"} :
          calls' = [calls EXCEPT ![c] = AfterProbe(calls[c], o)]
  BY DEF ProbeAnswered
<1> DEFINE k == calls[c]
           found == When(o = "failed", "probe_failed")
           n == AfterProbe(k, o)
<1>2. CallInv(k, lists, samples) /\ k.pc = "probe"
  BY DEF ProbeAnswered, IInv, Idle
<1>3. \A q \in found : q.code = "probe_failed"
  BY DEF When, Flag, Problem
<1>4. n = [k EXCEPT !.problems = k.problems \cup found, !.pc = "done", !.outcome = o]
  BY DEF AfterProbe, Done
<1>5. IsCall(k)
  BY <1>2 DEF CallInv, Asks
<1> HIDE DEF found, n
<1>6. /\ IsCall(n) /\ n.pc = "done" /\ n.who = k.who /\ n.stages = k.stages
      /\ n.typed = k.typed /\ n.allowed = k.allowed /\ n.status = k.status
      /\ n.listAsked = k.listAsked /\ n.listed = k.listed
      /\ n.asked = k.asked /\ n.checked = k.checked /\ n.window = k.window
      /\ n.problems = k.problems \cup found
  <2> HIDE DEF k
  <2> QED BY <1>4, <1>5 DEF IsCall
<1> HIDE DEF k
<1>7. Asks(n)
  BY <1>2, <1>6 DEF CallInv, Asks, HasError
<1>8. RevealsProblems(n)
  BY <1>2, <1>3, <1>6 DEF CallInv, RevealsProblems
<1>9. /\ Coded(n, "unknown_dataset") = Coded(k, "unknown_dataset")
      /\ Coded(n, "unknown_field") = Coded(k, "unknown_field")
  BY <1>3, <1>6 DEF Coded
<1>10. Listed(n, lists) /\ Sampled(n, samples)
  BY <1>2, <1>6, <1>9 DEF CallInv, Listed, Sampled, Missing, Unknown, SampleKey
<1>11. {p \in n.problems : p.code # "probe_failed"} = {p \in k.problems : p.code # "probe_failed"}
  BY <1>3, <1>6
<1>12. Bounded(n)
  BY <1>2, <1>6, <1>11 DEF CallInv, Bounded
<1>13. CallInv(n, lists, samples)
  BY <1>6, <1>7, <1>8, <1>10, <1>12 DEF CallInv, Progress
<1>14. UNCHANGED <<datasetCache, fieldCache, now, lists, samples>>
  BY DEF ProbeAnswered
<1>15. CallInv(n, lists', samples')
  BY <1>13, <1>14
<1>16. datasetCache' \in Seq(lists') /\ fieldCache' \in Seq(samples')
  BY <1>14 DEF IInv, CachesHoldAnswers
<1> QED BY <1>1, <1>14, <1>15, <1>16, OneCall DEF n, k, found

\* Time, and stuttering, change no call and no cache.
LEMMA QuietStep ==
    ASSUME IInv, Tick \/ UNCHANGED vars PROVE IInv'
<1>1. UNCHANGED <<calls, datasetCache, fieldCache, lists, samples>> /\ now' \in Nat
  BY DEF IInv, Tick, vars
<1>2. \A c \in Callers : calls'[c] = Idle \/ CallInv(calls'[c], lists', samples')
  BY <1>1 DEF IInv
<1>3. (\A c \in Callers : calls[c] = Idle \/ CallInv(calls[c], lists, samples))'
  BY <1>2 DEF CallInv, Asks, RevealsProblems, Listed, Sampled, Bounded, Progress,
              NotListed, NotSampled, NotProbed, Missing, Unknown, Coded, SampleKey, IsCall
<1> QED BY <1>1, <1>3 DEF IInv, CachesHoldAnswers

\* What the properties rest on: what a call has concluded so far, at each of its
\* awaits, and that the caches hold nothing but answers (validate_query, _store).
THEOREM CallsInvariant == Spec => []IInv
<1>1. IInv /\ [Next]_vars => IInv'
  BY BeginStep, DatasetsAnsweredStep, FieldsAnsweredStep, ProbeAnsweredStep, QuietStep DEF Next
<1> QED BY InitStep, <1>1, PTL DEF Spec

\* Dataset policy comes before every lookup.
THEOREM OnlyAllowedIsRevealed == Spec => []RevealsOnlyAllowed
<1>1. IInv => RevealsOnlyAllowed
  <2> SUFFICES ASSUME IInv, NEW c \in Running
               PROVE  /\ calls[c].pc = "fields" =>
                            Granted(calls[c].who, SourceDataset(calls[c].stages))
                      /\ RevealsProblems(calls[c])
    BY DEF RevealsOnlyAllowed, RevealsProblems
  <2>1. CallInv(calls[c], lists, samples)
    BY DEF IInv, Running, Idle
  <2> QED BY <2>1 DEF CallInv, Progress, Asks
<1> QED BY CallsInvariant, <1>1, PTL

\* A probe runs for a principal with both grants, on a query without errors or a
\* window of its own, over at most an hour of the caller's window.
THEOREM ProbeStaysBounded == Spec => []ProbeIsBounded
<1>1. IInv => ProbeIsBounded
  <2> SUFFICES ASSUME IInv, NEW c \in Running PROVE Bounded(calls[c])
    BY DEF ProbeIsBounded, Bounded
  <2>1. CallInv(calls[c], lists, samples)
    BY DEF IInv, Running, Idle
  <2> QED BY <2>1 DEF CallInv
<1> QED BY CallsInvariant, <1>1, PTL

\* What a call says of fields and datasets is the word of an answer to its own
\* credentials and dataset, its own or less than an hour old.
THEOREM AnswersStayFresh == Spec => []AnswersAreFresh
<1>1. IInv => AnswersAreFresh
  <2> SUFFICES ASSUME IInv, NEW c \in Running
               PROVE  Listed(calls[c], lists) /\ Sampled(calls[c], samples)
    BY DEF AnswersAreFresh, Listed, Sampled, Missing, Unknown, Coded, SampleKey
  <2>1. CallInv(calls[c], lists, samples)
    BY DEF IInv, Running, Idle
  <2> QED BY <2>1 DEF CallInv
<1> QED BY CallsInvariant, <1>1, PTL

(***************************************************************************)
(* The corrected query                                                     *)
(***************************************************************************)

\* The text the rewrites make of a query; Corrected returns it unless it is the
\* query itself.
FixedStages(stages) == [i \in DOMAIN stages |-> FixedStage(stages[i], EnumBacked(stages))]
Rewritten(stages) ==
    IF HasLimit(stages) THEN FixedStages(stages)
    ELSE Append(FixedStages(stages), Limit(AppendedLimit))

LEMMA CorrectedMeans ==
    ASSUME NEW stages
    PROVE  Corrected(stages) = IF Rewritten(stages) = stages THEN None ELSE Rewritten(stages)
BY DEF Corrected, Rewritten, FixedStages

LEMMA FixedType ==
    ASSUME NEW t \in Comparison, NEW enum
    PROVE  Fixed(t, enum) \in Comparison
<1>1. CASE IsEnumEquality(t, enum)
  <2>1. Fixed(t, enum) = [t EXCEPT !.op = "contains", !.not = t.op = "!="]
    BY <1>1 DEF Fixed
  <2>2. (t.op = "!=") \in BOOLEAN
    OBVIOUS
  <2> QED BY <2>1, <2>2 DEF Comparison, Operators
<1>2. CASE ~IsEnumEquality(t, enum) /\ IsContainsAddress(t)
  <2>1. Fixed(t, enum) = [t EXCEPT !.op = IF t.op = "contains" THEN "in" ELSE "not in"]
    BY <1>2 DEF Fixed
  <2> QED BY <2>1 DEF Comparison, Operators
<1>3. CASE ~IsEnumEquality(t, enum) /\ ~IsContainsAddress(t)
  BY <1>3 DEF Fixed, Comparison
<1> QED BY <1>1, <1>2, <1>3

\* Equality becomes containment, containment of an address becomes membership,
\* and membership is left alone: two rewrites at most.
LEMMA FixedSettles ==
    ASSUME NEW t \in Comparison, NEW enum
    PROVE  Fixed(Fixed(Fixed(t, enum), enum), enum) = Fixed(Fixed(t, enum), enum)
<1>1. ASSUME NEW u \in Comparison, ~IsEnumEquality(u, enum), ~IsContainsAddress(u)
      PROVE  Fixed(u, enum) = u
  BY <1>1 DEF Fixed
<1>2. ASSUME NEW u \in Comparison, ~IsEnumEquality(u, enum), IsContainsAddress(u)
      PROVE  ~IsEnumEquality(Fixed(u, enum), enum) /\ ~IsContainsAddress(Fixed(u, enum))
  <2>1. Fixed(u, enum) = [u EXCEPT !.op = IF u.op = "contains" THEN "in" ELSE "not in"]
    BY <1>2 DEF Fixed
  <2>2. Fixed(u, enum).op \in {"in", "not in"}
    BY <2>1 DEF Comparison
  <2> QED BY <2>2 DEF IsEnumEquality, IsContainsAddress
<1>3. ASSUME NEW u \in Comparison, IsEnumEquality(u, enum)
      PROVE  ~IsEnumEquality(Fixed(u, enum), enum)
  <2>1. Fixed(u, enum) = [u EXCEPT !.op = "contains", !.not = u.op = "!="]
    BY <1>3 DEF Fixed
  <2>2. Fixed(u, enum).op = "contains"
    BY <2>1 DEF Comparison
  <2> QED BY <2>2 DEF IsEnumEquality
<1>4. CASE IsEnumEquality(t, enum)
  <2> DEFINE u == Fixed(t, enum)
  <2>1. u \in Comparison /\ ~IsEnumEquality(u, enum)
    BY <1>3, <1>4, FixedType
  <2>2. Fixed(u, enum) \in Comparison
    BY <2>1, FixedType
  <2> HIDE DEF u
  <2>3. CASE IsContainsAddress(u)
    BY <1>1, <1>2, <2>1, <2>2, <2>3 DEF u
  <2>4. CASE ~IsContainsAddress(u)
    <3>1. Fixed(u, enum) = u
      BY <1>1, <2>1, <2>4
    <3> QED BY <3>1 DEF u
  <2> QED BY <2>3, <2>4
<1>5. CASE ~IsEnumEquality(t, enum) /\ IsContainsAddress(t)
  <2>1. Fixed(t, enum) \in Comparison
    BY FixedType
  <2>2. Fixed(Fixed(t, enum), enum) = Fixed(t, enum)
    BY <1>1, <1>2, <1>5, <2>1
  <2> QED BY <2>2
<1>6. CASE ~IsEnumEquality(t, enum) /\ ~IsContainsAddress(t)
  <2>1. Fixed(t, enum) = t
    BY <1>1, <1>6
  <2> QED BY <2>1
<1> QED BY <1>4, <1>5, <1>6

LEMMA FixedStageType ==
    ASSUME NEW s \in Stage, NEW enum
    PROVE  /\ FixedStage(s, enum) \in Stage
           /\ FixedStage(s, enum).kw = s.kw /\ FixedStage(s, enum).names = s.names
           /\ FixedStage(s, enum).tests = IF s.kw = "filter" THEN {Fixed(t, enum) : t \in s.tests}
                                          ELSE s.tests
           /\ FixedStage(s, enum) = [s EXCEPT !.tests = FixedStage(s, enum).tests]
<1>1. CASE s.kw # "filter"
  <2>1. FixedStage(s, enum) = s
    BY <1>1 DEF FixedStage
  <2>2. s = [s EXCEPT !.tests = s.tests]
    BY DEF Stage
  <2> QED BY <1>1, <2>1, <2>2
<1>2. CASE s.kw = "filter"
  <2> DEFINE tests == {Fixed(t, enum) : t \in s.tests}
  <2>1. FixedStage(s, enum) = [s EXCEPT !.tests = tests]
    BY <1>2 DEF FixedStage
  <2>2. tests \in SUBSET Comparison
    BY FixedType DEF Stage
  <2> HIDE DEF tests
  <2>3. /\ FixedStage(s, enum) \in Stage /\ FixedStage(s, enum).tests = tests
        /\ FixedStage(s, enum).kw = s.kw /\ FixedStage(s, enum).names = s.names
    BY <2>1, <2>2 DEF Stage
  <2>4. FixedStage(s, enum) = [s EXCEPT !.tests = FixedStage(s, enum).tests]
    BY <2>1, <2>3
  <2> QED BY <1>2, <2>3, <2>4 DEF tests
<1> QED BY <1>1, <1>2

LEMMA FixedStageSettles ==
    ASSUME NEW s \in Stage, NEW enum
    PROVE  FixedStage(FixedStage(FixedStage(s, enum), enum), enum)
             = FixedStage(FixedStage(s, enum), enum)
<1> DEFINE one   == FixedStage(s, enum)
           two   == FixedStage(one, enum)
           three == FixedStage(two, enum)
<1>1. /\ one \in Stage /\ one.kw = s.kw
      /\ one.tests = IF s.kw = "filter" THEN {Fixed(t, enum) : t \in s.tests} ELSE s.tests
  BY FixedStageType
<1>2. /\ two \in Stage /\ two.kw = s.kw
      /\ two.tests = IF s.kw = "filter" THEN {Fixed(t, enum) : t \in one.tests} ELSE one.tests
  BY <1>1, FixedStageType
<1>3. /\ three.tests = IF s.kw = "filter" THEN {Fixed(t, enum) : t \in two.tests} ELSE two.tests
      /\ three = [two EXCEPT !.tests = three.tests]
  BY <1>2, FixedStageType
<1> HIDE DEF one, two, three
<1>4. three.tests = two.tests
  <2>1. CASE s.kw = "filter"
    <3>1. two.tests = {Fixed(Fixed(t, enum), enum) : t \in s.tests}
      BY <2>1, <1>1, <1>2
    <3>2. three.tests = {Fixed(Fixed(Fixed(t, enum), enum), enum) : t \in s.tests}
      BY <2>1, <1>3, <3>1
    <3>3. s.tests \subseteq Comparison
      BY DEF Stage
    <3>4. \A t \in s.tests : Fixed(Fixed(Fixed(t, enum), enum), enum) = Fixed(Fixed(t, enum), enum)
      BY <3>3, FixedSettles
    <3> QED BY <3>1, <3>2, <3>4
  <2>2. CASE s.kw # "filter"
    BY <2>2, <1>2, <1>3
  <2> QED BY <2>1, <2>2
<1>5. two = [two EXCEPT !.tests = two.tests]
  BY <1>2 DEF Stage
<1> QED BY <1>3, <1>4, <1>5 DEF one, two, three

LEMMA LimitStage ==
    /\ Limit(AppendedLimit) \in Stage /\ Limit(AppendedLimit).kw = "limit"
    /\ Limit(AppendedLimit).names = {}
    /\ \A enum : FixedStage(Limit(AppendedLimit), enum) = Limit(AppendedLimit)
<1>1. NoStage \in Stage /\ NoStage.names = {}
  BY DEF NoStage, Stage, Words
<1>2. Limit(AppendedLimit) = [NoStage EXCEPT !.kw = "limit", !.limit = AppendedLimit]
  BY DEF Limit
<1>3. /\ Limit(AppendedLimit) \in Stage
      /\ Limit(AppendedLimit).kw = "limit" /\ Limit(AppendedLimit).names = {}
  <2> DEFINE z == NoStage
  <2>1. z \in Stage /\ z.names = {} /\ "limit" \in Words /\ AppendedLimit \in Int
    BY <1>1 DEF Words
  <2> HIDE DEF z
  <2>2. LET l == [z EXCEPT !.kw = "limit", !.limit = AppendedLimit] IN
        l \in Stage /\ l.kw = "limit" /\ l.names = {}
    BY <2>1 DEF Stage
  <2> QED BY <1>2, <2>2 DEF z
<1> QED BY <1>3 DEF FixedStage

\* The rewritten text, stage by stage.
LEMMA RewrittenMeans ==
    ASSUME NEW s \in Seq(Stage)
    PROVE  LET r == Rewritten(s) IN
           /\ r \in Seq(Stage)
           /\ Len(r) = IF HasLimit(s) THEN Len(s) ELSE Len(s) + 1
           /\ \A i \in 1..Len(s) : r[i] = FixedStage(s[i], EnumBacked(s))
           /\ ~HasLimit(s) => r[Len(s) + 1] = Limit(AppendedLimit)
           /\ EnumBacked(r) = EnumBacked(s)
           /\ s # <<>> => HasLimit(r)
<1> DEFINE f == FixedStages(s)
           r == Rewritten(s)
           limit == Limit(AppendedLimit)
<1>1. Len(s) \in Nat /\ DOMAIN s = 1..Len(s) /\ \A i \in 1..Len(s) : s[i] \in Stage
  OBVIOUS
<1>2. /\ f \in [1..Len(s) -> Stage]
      /\ \A i \in 1..Len(s) : f[i] = FixedStage(s[i], EnumBacked(s))
  BY <1>1, FixedStageType DEF FixedStages
<1>3. f \in Seq(Stage) /\ Len(f) = Len(s)
  BY <1>1, <1>2, SeqDef
<1>4. r = IF HasLimit(s) THEN f ELSE Append(f, limit)
  BY DEF Rewritten
<1>5. limit \in Stage /\ limit.kw = "limit" /\ limit.names = {}
  BY LimitStage
<1> HIDE DEF f, r, limit
<1>6. /\ r \in Seq(Stage) /\ Len(r) = IF HasLimit(s) THEN Len(s) ELSE Len(s) + 1
      /\ \A i \in 1..Len(s) : r[i] = f[i]
      /\ ~HasLimit(s) => r[Len(s) + 1] = limit
  BY <1>1, <1>3, <1>4, <1>5
<1>7. \A i \in 1..Len(s) : r[i].names = s[i].names /\ r[i].kw = s[i].kw
  <2> TAKE i \in 1..Len(s)
  <2>1. r[i] = FixedStage(s[i], EnumBacked(s)) /\ s[i] \in Stage
    BY <1>1, <1>2, <1>6
  <2>2. /\ FixedStage(s[i], EnumBacked(s)).names = s[i].names
        /\ FixedStage(s[i], EnumBacked(s)).kw = s[i].kw
    BY <2>1, FixedStageType
  <2> QED BY <2>1, <2>2
<1>8. References(r) = References(s)
  <2>1. ASSUME NEW d \in References(r) PROVE d \in References(s)
    <3>1. PICK i \in 1..Len(r) : d \in r[i].names
      BY <1>6 DEF References, ToSet
    <3>2. i \in 1..Len(s)
      BY <3>1, <1>1, <1>5, <1>6
    <3> QED BY <3>1, <3>2, <1>1, <1>7 DEF References, ToSet
  <2>2. ASSUME NEW d \in References(s) PROVE d \in References(r)
    <3>1. PICK i \in 1..Len(s) : d \in s[i].names
      BY <1>1 DEF References, ToSet
    <3>2. i \in DOMAIN r
      BY <3>1, <1>1, <1>6
    <3> QED BY <3>1, <3>2, <1>7 DEF References, ToSet
  <2> QED BY <2>1, <2>2
<1>9. s # <<>> => HasLimit(r)
  <2>1. CASE HasLimit(s)
    <3>1. Len(s) > 1 /\ s[Len(s)].kw = "limit"
      BY <2>1 DEF HasLimit, Last
    <3> QED BY <2>1, <3>1, <1>1, <1>6, <1>7 DEF HasLimit, Last
  <2>2. CASE ~HasLimit(s) /\ s # <<>>
    <3>1. Len(s) >= 1
      BY <1>1, <2>2
    <3> QED BY <2>2, <3>1, <1>1, <1>5, <1>6 DEF HasLimit, Last
  <2> QED BY <2>1, <2>2
<1>10. EnumBacked(r) = EnumBacked(s)
  BY <1>8 DEF EnumBacked
<1> QED BY <1>2, <1>6, <1>9, <1>10 DEF r, limit

\* The second rewriting leaves nothing for a third.
LEMMA RewritingSettles ==
    ASSUME NEW s \in Seq(Stage)
    PROVE  Rewritten(Rewritten(Rewritten(s))) = Rewritten(Rewritten(s))
<1> DEFINE one   == Rewritten(s)
           two   == Rewritten(one)
           three == Rewritten(two)
           enum  == EnumBacked(s)
           limit == Limit(AppendedLimit)
<1>1. /\ one \in Seq(Stage) /\ EnumBacked(one) = enum
      /\ Len(one) = IF HasLimit(s) THEN Len(s) ELSE Len(s) + 1
      /\ \A i \in 1..Len(s) : one[i] = FixedStage(s[i], enum)
      /\ ~HasLimit(s) => one[Len(s) + 1] = limit
  BY RewrittenMeans
<1>2. /\ two \in Seq(Stage) /\ EnumBacked(two) = enum
      /\ Len(two) = IF HasLimit(one) THEN Len(one) ELSE Len(one) + 1
      /\ \A i \in 1..Len(one) : two[i] = FixedStage(one[i], enum)
      /\ ~HasLimit(one) => two[Len(one) + 1] = limit
      /\ one # <<>> => HasLimit(two)
  BY <1>1, RewrittenMeans
<1>3. /\ three \in Seq(Stage)
      /\ Len(three) = IF HasLimit(two) THEN Len(two) ELSE Len(two) + 1
      /\ \A i \in 1..Len(two) : three[i] = FixedStage(two[i], enum)
  BY <1>2, RewrittenMeans
<1>4. /\ \A e : FixedStage(limit, e) = limit
      /\ \A i \in 1..Len(s) : s[i] \in Stage
  BY LimitStage
<1>5. Len(s) \in Nat /\ Len(one) \in Nat /\ Len(two) \in Nat
  BY <1>1, <1>2
<1> HIDE DEF one, two, three, enum, limit
<1>6. one # <<>>
  <2>1. Len(s) > 0 => Len(one) > 0
    BY <1>1, <1>5
  <2>2. HasLimit(s) => Len(s) > 1
    BY DEF HasLimit
  <2> QED BY <2>1, <2>2, <1>1, <1>5
<1>7. Len(three) = Len(two)
  BY <1>2, <1>3, <1>6
<1>8. \A i \in 1..Len(two) : three[i] = two[i]
  <2> TAKE i \in 1..Len(two)
  <2>1. three[i] = FixedStage(two[i], enum)
    BY <1>3
  <2>2. CASE i \in 1..Len(s)
    <3>1. i \in 1..Len(one)
      BY <2>2, <1>1, <1>5
    <3>2. two[i] = FixedStage(FixedStage(s[i], enum), enum)
      BY <2>2, <3>1, <1>1, <1>2
    <3> QED BY <2>1, <2>2, <3>2, <1>4, FixedStageSettles
  <2>3. CASE i \notin 1..Len(s) /\ i \in 1..Len(one)
    <3>1. one[i] = limit
      BY <2>3, <1>1, <1>5
    <3> QED BY <2>1, <2>3, <3>1, <1>2, <1>4
  <2>4. CASE i \notin 1..Len(one)
    <3>1. two[i] = limit
      BY <2>4, <1>2, <1>5
    <3> QED BY <2>1, <3>1, <1>4
  <2> QED BY <2>2, <2>3, <2>4
<1>9. three = two
  BY <1>2, <1>3, <1>7, <1>8
<1> QED BY <1>9 DEF one, two, three

\* A query corrected twice is correct: no rewrite is undone by another.
THEOREM CorrectionsSettle == Spec => []CorrectionSettles
<1>1. IInv => CorrectionSettles
  <2> SUFFICES ASSUME IInv, NEW c \in Running,
                      NEW once, once = Corrected(calls[c].stages),
                      NEW twice, twice = IF once = None THEN None ELSE Corrected(once),
                      twice # None
               PROVE  Corrected(twice) = None
    BY DEF CorrectionSettles
  <2> DEFINE s == calls[c].stages
  <2>1. s \in Seq(Stage)
    BY DEF IInv, CallInv, Asks, Running, Idle
  <2> HIDE DEF s
  <2>2. once # None /\ once = Rewritten(s)
    BY CorrectedMeans DEF s
  <2>3. twice = Rewritten(Rewritten(s))
    BY <2>2, CorrectedMeans
  <2>4. Rewritten(twice) = twice
    BY <2>1, <2>3, RewritingSettles
  <2> QED BY <2>4, CorrectedMeans
<1> QED BY CallsInvariant, <1>1, PTL

(***************************************************************************)
(* The caches stay within their bound, with one entry for a key            *)
(***************************************************************************)

Filed(cache) == /\ Len(cache) <= CacheMax
                /\ \A i, j \in DOMAIN cache : cache[i].key = cache[j].key => i = j

\* An entry replaces the one of its key, or comes last when the oldest has made room.
LEMMA StoreFiles ==
    ASSUME NEW S, NEW cache \in Seq(S), NEW e \in S, Filed(cache)
    PROVE  Filed(Store(cache, e))
<1>1. DOMAIN cache = 1..Len(cache) /\ Len(cache) \in Nat /\ CacheMax \in Nat \ {0}
  OBVIOUS
<1>2. CASE Holds(cache, e.key)
  <2> DEFINE new == [i \in DOMAIN cache |-> IF cache[i].key = e.key THEN e ELSE cache[i]]
  <2>1. Store(cache, e) = new
    BY <1>2 DEF Store
  <2>2. DOMAIN new = DOMAIN cache /\ Len(new) = Len(cache)
    BY <1>1
  <2>3. \A i \in DOMAIN cache : new[i].key = cache[i].key
    OBVIOUS
  <2> HIDE DEF new
  <2> QED BY <2>1, <2>2, <2>3 DEF Filed
<1>3. CASE ~Holds(cache, e.key)
  <2> DEFINE rest == IF Len(cache) >= CacheMax THEN Tail(cache) ELSE cache
             m    == Len(rest)
             new  == Append(rest, e)
  <2>1. Store(cache, e) = new
    BY <1>3 DEF Store
  <2>2. \A i \in 1..Len(cache) : cache[i].key # e.key
    BY <1>1, <1>3 DEF Holds, ToSet
  <2>3. PICK shift \in {0, 1} :
          /\ rest \in Seq(S) /\ m \in Nat /\ m + 1 <= CacheMax /\ m + shift = Len(cache)
          /\ \A i \in 1..m : rest[i] = cache[i + shift]
    <3>1. CASE Len(cache) >= CacheMax
      <4>1. cache # <<>> /\ rest = Tail(cache)
        BY <1>1, <3>1
      <4>2. /\ Tail(cache) \in Seq(S) /\ Len(Tail(cache)) = Len(cache) - 1
            /\ \A i \in 1..(Len(cache) - 1) : Tail(cache)[i] = cache[i + 1]
        BY <4>1
      <4>3. Len(cache) <= CacheMax
        BY DEF Filed
      <4> HIDE DEF rest
      <4>4. rest \in Seq(S) /\ Len(rest) = Len(cache) - 1 /\ 1 <= Len(cache)
        BY <1>1, <3>1, <4>1, <4>2
      <4>5. \A i \in 1..m : rest[i] = cache[i + 1]
        BY <4>1, <4>2, <4>4
      <4>6. m \in Nat /\ m + 1 <= CacheMax /\ m + 1 = Len(cache)
        BY <1>1, <4>3, <4>4
      <4> QED BY <4>4, <4>5, <4>6
    <3>2. CASE ~(Len(cache) >= CacheMax)
      <4>1. rest = cache
        BY <3>2
      <4> HIDE DEF rest
      <4>2. m \in Nat /\ m + 1 <= CacheMax /\ m + 0 = Len(cache) /\ rest \in Seq(S)
        BY <1>1, <3>2, <4>1
      <4>3. \A i \in 1..m : rest[i] = cache[i + 0]
        BY <4>1, <4>2
      <4> QED BY <4>2, <4>3
    <3> QED BY <3>1, <3>2
  <2> HIDE DEF rest
  <2>4. /\ Len(new) = m + 1 /\ DOMAIN new = 1..(m + 1) /\ new[m + 1] = e
        /\ \A i \in 1..m : new[i] = rest[i]
    BY <2>3
  <2> HIDE DEF new, m
  <2>5. \A i \in 1..m : new[i] = cache[i + shift] /\ i + shift \in 1..Len(cache)
    BY <1>1, <2>3, <2>4
  <2>6. \A i, j \in 1..(m + 1) : new[i].key = new[j].key => i = j
    <3> SUFFICES ASSUME NEW i \in 1..(m + 1), NEW j \in 1..(m + 1), new[i].key = new[j].key
                 PROVE  i = j
      OBVIOUS
    <3>1. CASE i \in 1..m /\ j \in 1..m
      <4>1. cache[i + shift].key = cache[j + shift].key
        BY <2>5, <3>1
      <4>2. i + shift = j + shift
        BY <1>1, <2>5, <3>1, <4>1 DEF Filed
      <4> QED BY <2>3, <4>2
    <3>2. CASE i \notin 1..m /\ j \in 1..m
      <4>1. i = m + 1
        BY <2>3, <3>2
      <4>2. new[j].key # e.key
        BY <2>2, <2>5, <3>2
      <4> QED BY <2>4, <4>1, <4>2
    <3>3. CASE i \in 1..m /\ j \notin 1..m
      <4>1. j = m + 1
        BY <2>3, <3>3
      <4>2. new[i].key # e.key
        BY <2>2, <2>5, <3>3
      <4> QED BY <2>4, <4>1, <4>2
    <3>4. CASE i \notin 1..m /\ j \notin 1..m
      BY <2>3, <3>4
    <3> QED BY <3>1, <3>2, <3>3, <3>4
  <2> QED BY <2>1, <2>3, <2>4, <2>6 DEF Filed
<1> QED BY <1>2, <1>3

LEMMA FiledStep ==
    IInv /\ Filed(datasetCache) /\ Filed(fieldCache) /\ [Next]_vars
        => Filed(datasetCache') /\ Filed(fieldCache')
<1> SUFFICES ASSUME IInv, Filed(datasetCache), Filed(fieldCache), [Next]_vars
             PROVE  Filed(datasetCache') /\ Filed(fieldCache')
  OBVIOUS
<1>1. datasetCache \in Seq(lists) /\ fieldCache \in Seq(samples)
  BY DEF IInv, CachesHoldAnswers
<1>2. ASSUME NEW S, NEW cache \in Seq(S), Filed(cache), NEW e PROVE Filed(Store(cache, e))
  <2>1. cache \in Seq(S \cup {e})
    BY <1>2, MoreIsSeq
  <2> QED BY <1>2, <2>1, StoreFiles
<1>3. CASE UNCHANGED <<datasetCache, fieldCache>>
  BY <1>3
<1>4. ASSUME NEW c \in Callers, DatasetsAnswered(c)
      PROVE  Filed(datasetCache') /\ Filed(fieldCache')
  <2>1. fieldCache' = fieldCache
    BY <1>4 DEF DatasetsAnswered
  <2>2. datasetCache' = datasetCache \/ \E e : datasetCache' = Store(datasetCache, e)
    BY <1>4 DEF DatasetsAnswered
  <2> QED BY <1>1, <1>2, <2>1, <2>2
<1>5. ASSUME NEW c \in Callers, FieldsAnswered(c)
      PROVE  Filed(datasetCache') /\ Filed(fieldCache')
  <2>1. datasetCache' = datasetCache
    BY <1>5 DEF FieldsAnswered
  <2>2. fieldCache' = fieldCache \/ \E e : fieldCache' = Store(fieldCache, e)
    BY <1>5 DEF FieldsAnswered
  <2> QED BY <1>1, <1>2, <2>1, <2>2
<1>6. ASSUME NEW c \in Callers, Begin(c) \/ ProbeAnswered(c)
      PROVE  UNCHANGED <<datasetCache, fieldCache>>
  BY <1>6 DEF Begin, ProbeAnswered
<1>7. CASE Tick \/ UNCHANGED vars
  BY <1>7, <1>3 DEF Tick, vars
<1> QED BY <1>3, <1>4, <1>5, <1>6, <1>7 DEF Next

\* _store: however concurrent calls interleave and evict, each cache stays within
\* CACHE_MAX_ENTRIES and has one entry for a key; every call is at an await or its end.
THEOREM ValidationTypes == Spec => []TypeOK
<1>1. Init => Filed(datasetCache) /\ Filed(fieldCache)
  BY DEF Init, Filed
<1>2. IInv /\ Filed(datasetCache) /\ Filed(fieldCache) => TypeOK
  <2> SUFFICES ASSUME IInv, Filed(datasetCache), Filed(fieldCache) PROVE TypeOK
    OBVIOUS
  <2>1. \A c \in Callers : calls[c].pc \in {"idle", "datasets", "fields", "probe", "done"}
    BY DEF IInv, Idle, CallInv, Progress
  <2> QED BY <2>1 DEF Filed, TypeOK
<1>3. IInv /\ (Filed(datasetCache) /\ Filed(fieldCache)) /\ [Next]_vars
        => (Filed(datasetCache) /\ Filed(fieldCache))'
  BY FiledStep DEF Filed
<1> QED BY <1>1, <1>2, <1>3, CallsInvariant, PTL DEF Spec
===============================================================================
