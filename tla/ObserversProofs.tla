---------------------------- MODULE ObserversProofs ----------------------------
(***************************************************************************)
(* Proofs about Observers for any calls, profiles, queries, prices, quotas *)
(* and bounds: the types, and the three properties the run of Observers    *)
(* checks.  Each needs more than it says:                                  *)
(*   - StepsAreOwn: what the observation of a call holds while it runs     *)
(*     (CallsAreOwn), and that an ended call is not observed any more      *)
(*     (FlightIsRunning, StepsAreLast);                                    *)
(*   - DropsFitCharges: the replies, those in flight and those observed,   *)
(*     are readings of one balance that only charges lower: what remains   *)
(*     plus what was charged never falls from one reading to a later one   *)
(*     (RepliesAreOrdered), and what _last_remaining holds for a profile is*)
(*     its latest observed reading, with no drop after it (LastIsReading); *)
(*   - EnumPairsAreReal: a pending pair is an equality filter of its query *)
(*     (PendingAreAsked), no key is pending twice and the oldest is first  *)
(*     (Distinct), and a filter that confirmed is not pending any more     *)
(*     (TakenOnce).                                                        *)
(***************************************************************************)
EXTENDS Observers, FiniteSetTheorems, SequenceTheorems, WellFoundedInduction, TLAPS

\* A call in flight runs: no query of an ended call is observed.
FlightIsRunning == \A f \in flight : calls[f.by].pc = "running"

\* The observation of a call: its queries in order, and the units of those that
\* are known.
Own(c) == {i \in Observed : asked[i].by = c}
Known(S) == \A i \in S : UnitsOfQuery[i] # None
Ascending(s) == \A m, n \in DOMAIN s : m < n => s[m] < s[n]
CallsAreOwn ==
    \A c \in Calls :
        /\ ToSet(calls[c].query_ids) = Own(c) /\ Ascending(calls[c].query_ids)
        /\ Len(calls[c].units) <= Len(calls[c].query_ids)
        /\ Len(calls[c].units) = Len(calls[c].query_ids) <=> Known(Own(c))
        /\ Known(Own(c)) => Total(calls[c].units, Len(calls[c].units))
                              = Over(UnitsOfQuery, Own(c), Len(asked))
\* A step says what its call had observed when it ended.
StepsAreLast ==
    \A s \in steps :
        /\ calls[s.by].pc = "ended"
        /\ s.query_ids = calls[s.by].query_ids /\ s.units = StepUnits(calls[s.by])

\* The replies that state a reading, in flight or observed: by a later one as much
\* or more was charged, and what remains plus what was charged is not less (charging,
\* here or elsewhere, keeps the sum, a new day raises it).
Ordered(r, s) ==
    r.number < s.number =>
        r.charged <= s.charged /\ r.remaining + r.charged <= s.remaining + s.charged
States(query) == query.reply.remaining # None
Stated == {f.reply : f \in {f \in flight : f.reply # None /\ States(f)}}
          \cup {asked[i].reply : i \in {i \in Observed : States(asked[i])}}
RepliesAreOrdered ==
    \A r \in Stated :
        /\ r.number \in 1..quota.readings
        /\ r.charged <= quota.charged
        /\ r.remaining + r.charged <= quota.remaining + quota.charged
        /\ \A s \in Stated : Ordered(r, s)
\* The last remaining quota of a profile is that of its latest observed reading.
Latest(p, j) ==
    /\ IsReading(p, j)
    /\ \A k \in Observed : IsReading(p, k) \/ k \in Dropped(p) => k <= j
LastIsReading ==
    \A p \in Profiles :
        \/ last[p] = None /\ Dropped(p) = {} /\ \A k \in Observed : ~IsReading(p, k)
        \/ last[p] # None /\ \E j \in Observed : Latest(p, j) /\ asked[j].reply.remaining = last[p]

\* The pending pairs: one per key, oldest first, each an equality filter of an
\* observed query without rows, and none that confirmed already (unless its query
\* has two equality filters on the field).
Distinct(pairs) ==
    \A i, j \in DOMAIN pairs : i < j =>
        pairs[i].key # pairs[j].key /\ pairs[i].seen <= pairs[j].seen
EqualsKey(q, engagement, key) ==
    \E i \in FilterClauses(q) :
        q.stages[i].clause.op = "=" /\ key = PairKey(engagement, FilterClause(q, i))
PendingAreAsked ==
    \A k \in DOMAIN pending :
        LET e == pending[k]
            a == asked[e.id]
        IN  /\ a.at = e.seen /\ a.reply.rows = 0
            /\ EqualsKey(a.query, EngagementOf[a.by], e.key)
Confirms == Of("enum_fields", "confirm")
ConfirmsHaveTwo ==
    \A o \in Confirms : o.evidence \in Observed \X Observed
Twice(q, field) == \E i, j \in Equals(q, field) : i # j
TakenOnce ==
    \A o \in Confirms : \A k \in DOMAIN pending :
        pending[k].id = o.evidence[1] /\ pending[k].key.field = o.fact =>
            Twice(asked[pending[k].id].query, o.fact)

PairsInv == Distinct(pending) /\ PendingAreAsked /\ ConfirmsHaveTwo /\ TakenOnce /\ EnumPairsAreReal

\* The inductive invariant.
IInv == /\ TypeOK /\ FlightIsRunning /\ CallsAreOwn /\ StepsAreLast
        /\ RepliesAreOrdered /\ LastIsReading /\ DropsFitCharges /\ PairsInv

(***************************************************************************)
(* Numbers and recursion                                                   *)
(***************************************************************************)

\* A nonempty set of naturals has a least element.
LEMMA LeastNat ==
    ASSUME NEW T \in SUBSET Nat, T # {}
    PROVE  \E m \in T : \A k \in T : m <= k
<1>1. IsWellFoundedOn(OpToRel(<, Nat), Nat)
  BY NatLessThanWellFounded
<1>2. PICK m \in T : \A k \in T : ~(<<k, m>> \in OpToRel(<, Nat))
  BY <1>1, WFMin, Zenon
<1>3. ASSUME NEW k \in T PROVE m <= k
  <2>1. <<k, m>> \in Nat \X Nat /\ ~(k < m)
    BY <1>2 DEF OpToRel
  <2> QED BY <2>1
<1> QED BY <1>3

\* A set of naturals with 0 that is closed under successor is all of Nat.
LEMMA SetInduction ==
    ASSUME NEW S, 0 \in S, \A k \in Nat : k \in S => k + 1 \in S
    PROVE  \A k \in Nat : k \in S
<1> DEFINE Bad == {k \in Nat : k \notin S}
<1>1. SUFFICES ASSUME Bad # {} PROVE FALSE
  OBVIOUS
<1>2. PICK m \in Bad : \A k \in Bad : m <= k
  <2>1. Bad \in SUBSET Nat
    OBVIOUS
  <2> HIDE DEF Bad
  <2> QED BY <1>1, <2>1, LeastNat
<1>3. m \in Nat /\ m # 0 /\ m - 1 \in Nat
  OBVIOUS
<1>4. m - 1 \in S
  BY <1>2, <1>3
<1>5. (m - 1) + 1 \in S
  BY <1>3, <1>4
<1> QED BY <1>3, <1>5

\* The recursive function of PartialSums exists.
LEMMA PartialSumsExist ==
    ASSUME NEW n \in Nat, NEW w
    PROVE  \E f : f = [i \in 0..n |-> IF i = 0 THEN 0 ELSE f[i - 1] + w[i]]
<1> DEFINE Good(k, f) == f = [i \in 0..k |-> IF i = 0 THEN 0 ELSE f[i - 1] + w[i]]
<1> DEFINE S == {k \in Nat : \E f : Good(k, f)}
<1>1. 0 \in S
  <2>1. Good(0, [i \in 0..0 |-> 0])
    OBVIOUS
  <2> QED BY <2>1
<1>2. ASSUME NEW k \in Nat, k \in S PROVE k + 1 \in S
  <2>1. PICK g : Good(k, g)
    BY <1>2
  <2> DEFINE h == [i \in 0..(k + 1) |-> IF i = k + 1 THEN g[k] + w[k + 1] ELSE g[i]]
  <2>2. \A i \in 0..k : h[i] = g[i]
    OBVIOUS
  <2>3. ASSUME NEW i \in 0..(k + 1)
        PROVE  h[i] = IF i = 0 THEN 0 ELSE h[i - 1] + w[i]
    <3>1. CASE i = k + 1
      <4>1. i - 1 = k /\ k \in 0..k /\ i # 0
        BY <3>1
      <4> QED BY <3>1, <4>1, <2>2
    <3>2. CASE i # k + 1
      <4>1. i \in 0..k /\ (i # 0 => i - 1 \in 0..k)
        BY <3>2
      <4>2. g[i] = IF i = 0 THEN 0 ELSE g[i - 1] + w[i]
        BY <2>1, <4>1
      <4> QED BY <4>1, <4>2, <2>2
    <3> QED BY <3>1, <3>2
  <2>4. Good(k + 1, h)
    BY <2>3
  <2>5. \E f : Good(k + 1, f)
    <3> HIDE DEF Good, h
    <3> QED BY <2>4
  <2> QED BY <2>5
<1>3. n \in S
  <2> HIDE DEF S
  <2> QED BY <1>1, <1>2, SetInduction
<1> QED BY <1>3

\* PartialSums is that function.
LEMMA PartialSumsDef ==
    ASSUME NEW n \in Nat, NEW w
    PROVE  PartialSums(w, n) =
             [i \in 0..n |-> IF i = 0 THEN 0 ELSE PartialSums(w, n)[i - 1] + w[i]]
BY PartialSumsExist DEF PartialSums

\* The two equations of the definition.
LEMMA PartialSumsStep ==
    ASSUME NEW n \in Nat, NEW w
    PROVE  /\ PartialSums(w, n)[0] = 0
           /\ \A i \in 1..n : PartialSums(w, n)[i] = PartialSums(w, n)[i - 1] + w[i]
<1>1. 0 \in 0..n /\ \A i \in 1..n : i \in 0..n /\ i # 0
  OBVIOUS
<1> QED BY <1>1, PartialSumsDef

\* A sum of naturals is one.
LEMMA SumType ==
    ASSUME NEW n \in Nat, NEW w, \A i \in 1..n : w[i] \in Nat
    PROVE  Total(w, n) \in Nat
<1> DEFINE p == PartialSums(w, n)
           S == {i \in Nat : i <= n => p[i] \in Nat}
<1>1. p[0] = 0 /\ \A i \in 1..n : p[i] = p[i - 1] + w[i]
  BY PartialSumsStep
<1> HIDE DEF p
<1>2. 0 \in S
  BY <1>1
<1>3. ASSUME NEW k \in Nat, k \in S PROVE k + 1 \in S
  <2>1. CASE k + 1 <= n
    <3>1. k + 1 \in 1..n /\ (k + 1) - 1 = k /\ k <= n
      BY <2>1
    <3>2. p[k + 1] = p[k] + w[k + 1]
      BY <1>1, <3>1
    <3> QED BY <1>3, <3>1, <3>2
  <2>2. CASE ~(k + 1 <= n)
    BY <2>2
  <2> QED BY <2>1, <2>2
<1>4. n \in S
  <2> HIDE DEF S
  <2> QED BY <1>2, <1>3, SetInduction
<1>5. p[n] \in Nat
  BY <1>4
<1> QED BY <1>5 DEF Total, p

\* One more term.
LEMMA SumOfOneMore ==
    ASSUME NEW n \in Nat, NEW u, NEW v, \A i \in 1..n : u[i] = v[i]
    PROVE  Total(v, n + 1) = Total(u, n) + v[n + 1]
<1> DEFINE p == PartialSums(u, n)
           q == PartialSums(v, n + 1)
           S == {i \in Nat : i <= n => p[i] = q[i]}
<1>1. p[0] = 0 /\ \A i \in 1..n : p[i] = p[i - 1] + u[i]
  BY PartialSumsStep
<1>2. q[0] = 0 /\ \A i \in 1..(n + 1) : q[i] = q[i - 1] + v[i]
  <2>1. n + 1 \in Nat
    OBVIOUS
  <2> QED BY <2>1, PartialSumsStep
<1> HIDE DEF p, q
<1>3. 0 \in S
  BY <1>1, <1>2
<1>4. ASSUME NEW k \in Nat, k \in S PROVE k + 1 \in S
  <2>1. CASE k + 1 <= n
    <3>1. k + 1 \in 1..n /\ k + 1 \in 1..(n + 1) /\ (k + 1) - 1 = k /\ k <= n
      BY <2>1
    <3>2. p[k + 1] = p[k] + u[k + 1] /\ q[k + 1] = q[k] + v[k + 1]
      BY <1>1, <1>2, <3>1
    <3> QED BY <1>4, <3>1, <3>2
  <2>2. CASE ~(k + 1 <= n)
    BY <2>2
  <2> QED BY <2>1, <2>2
<1>5. n \in S
  <2> HIDE DEF S
  <2> QED BY <1>3, <1>4, SetInduction
<1>6. p[n] = q[n]
  BY <1>5
<1>7. n + 1 \in 1..(n + 1) /\ (n + 1) - 1 = n
  OBVIOUS
<1>8. q[n + 1] = q[n] + v[n + 1]
  BY <1>2, <1>7
<1> QED BY <1>6, <1>8 DEF Total, p, q

\* The sum over a set of natural units is natural.
LEMMA OverType ==
    ASSUME NEW n \in Nat, NEW w, NEW S, \A i \in 1..n : i \in S => w[i] \in Nat
    PROVE  Over(w, S, n) \in Nat
<1> DEFINE o == [i \in 1..n |-> IF i \in S THEN w[i] ELSE 0]
<1>1. \A i \in 1..n : o[i] \in Nat
  OBVIOUS
<1>2. Total(o, n) \in Nat
  <2> HIDE DEF o
  <2> QED BY <1>1, SumType
<1> QED BY <1>2 DEF Over

\* One more query: its units are added when it is in the set.
LEMMA OverOneMore ==
    ASSUME NEW n \in Nat, NEW w, NEW v, NEW S, NEW T,
           \A i \in 1..n : (i \in S <=> i \in T) /\ (i \in S => v[i] = w[i])
    PROVE  Over(v, T, n + 1) = Over(w, S, n) + (IF n + 1 \in T THEN v[n + 1] ELSE 0)
<1> DEFINE o == [i \in 1..n |-> IF i \in S THEN w[i] ELSE 0]
           r == [i \in 1..(n + 1) |-> IF i \in T THEN v[i] ELSE 0]
<1>1. \A i \in 1..n : o[i] = r[i]
  OBVIOUS
<1>2. r[n + 1] = IF n + 1 \in T THEN v[n + 1] ELSE 0
  OBVIOUS
<1>3. Total(r, n + 1) = Total(o, n) + r[n + 1]
  <2> HIDE DEF o, r
  <2> QED BY <1>1, SumOfOneMore
<1> QED BY <1>2, <1>3 DEF Over

\* Nothing sums to 0.
LEMMA OverNothing ==
    ASSUME NEW n \in Nat, NEW w, NEW S, \A i \in 1..n : i \notin S
    PROVE  Over(w, S, n) = 0
<1> DEFINE o == [i \in 1..n |-> IF i \in S THEN w[i] ELSE 0]
           p == PartialSums(o, n)
           Z == {i \in Nat : i <= n => p[i] = 0}
<1>1. p[0] = 0 /\ \A i \in 1..n : p[i] = p[i - 1] + o[i]
  BY PartialSumsStep
<1>2. \A i \in 1..n : o[i] = 0
  OBVIOUS
<1> HIDE DEF p, o
<1>3. 0 \in Z
  BY <1>1
<1>4. ASSUME NEW k \in Nat, k \in Z PROVE k + 1 \in Z
  <2>1. CASE k + 1 <= n
    <3>1. k + 1 \in 1..n /\ (k + 1) - 1 = k /\ k <= n
      BY <2>1
    <3>2. p[k + 1] = p[k] + o[k + 1] /\ o[k + 1] = 0
      BY <1>1, <1>2, <3>1
    <3> QED BY <1>4, <3>1, <3>2
  <2>2. CASE ~(k + 1 <= n)
    BY <2>2
  <2> QED BY <2>1, <2>2
<1>5. n \in Z
  <2> HIDE DEF Z
  <2> QED BY <1>3, <1>4, SetInduction
<1>6. p[n] = 0
  BY <1>5
<1> QED BY <1>6 DEF Over, Total, p, o

\* Without an element, every other one stays, in order.
LEMMA Removed ==
    ASSUME NEW S, NEW s \in Seq(S), NEW i \in DOMAIN s
    PROVE  /\ RemoveAt(s, i) \in Seq(S) /\ Len(RemoveAt(s, i)) = Len(s) - 1
           /\ \A j \in 1..(Len(s) - 1) : RemoveAt(s, i)[j] = IF j < i THEN s[j] ELSE s[j + 1]
<1>1. i \in 1..Len(s) /\ Len(s) \in Nat
  OBVIOUS
<1> DEFINE a == SubSeq(s, 1, i - 1)
           b == SubSeq(s, i + 1, Len(s))
<1>2. a \in Seq(S) /\ Len(a) = i - 1 /\ \A j \in 1..(i - 1) : a[j] = s[j]
  BY <1>1
<1>3. b \in Seq(S) /\ Len(b) = Len(s) - i /\ \A j \in 1..(Len(s) - i) : b[j] = s[i + j]
  BY <1>1
<1> HIDE DEF a, b
<1>4. a \o b \in Seq(S) /\ Len(a \o b) = Len(s) - 1
  BY <1>1, <1>2, <1>3
<1>5. \A j \in 1..(Len(s) - 1) : (a \o b)[j] = IF j < i THEN s[j] ELSE s[j + 1]
  <2> TAKE j \in 1..(Len(s) - 1)
  <2>1. ASSUME j < i PROVE (a \o b)[j] = s[j]
    BY <2>1, <1>1, <1>2, <1>3
  <2>2. ASSUME ~(j < i) PROVE (a \o b)[j] = s[j + 1]
    <3>1. j - (i - 1) \in 1..(Len(s) - i) /\ i + (j - (i - 1)) = j + 1
      BY <2>2, <1>1
    <3>2. (a \o b)[j] = b[j - (i - 1)]
      <4>1. j \in 1..(Len(a) + Len(b)) /\ ~(j <= Len(a))
        BY <2>2, <1>1, <1>2, <1>3
      <4>2. a \in Seq(S) /\ b \in Seq(S)
        BY <1>2, <1>3
      <4>3. \A k \in 1..(Len(a) + Len(b)) :
               (a \o b)[k] = IF k <= Len(a) THEN a[k] ELSE b[k - Len(a)]
        BY <4>2, ConcatProperties, Zenon
      <4>4. (a \o b)[j] = b[j - Len(a)]
        BY <4>1, <4>3, Zenon
      <4> QED BY <4>4, <1>2
    <3> QED BY <3>1, <3>2, <1>3
  <2> QED BY <2>1, <2>2
<1>6. RemoveAt(s, i) = a \o b
  BY DEF RemoveAt, a, b
<1> QED BY <1>4, <1>5, <1>6

\* What Min and Max choose.
LEMMA LeastIsMin ==
    ASSUME NEW T \in SUBSET Nat, T # {}
    PROVE  Min(T) \in T /\ \A k \in T : Min(T) <= k
BY LeastNat DEF Min

\* The greater of two numbers is their Max.
LEMMA GreaterIsMax ==
    ASSUME NEW a \in Int, NEW b \in Int
    PROVE  Max({a, b}) = IF a >= b THEN a ELSE b
<1>1. \E x \in {a, b} : \A y \in {a, b} : x >= y
  OBVIOUS
<1>2. Max({a, b}) \in {a, b} /\ \A y \in {a, b} : Max({a, b}) >= y
  BY <1>1 DEF Max
<1> QED BY <1>2

(***************************************************************************)
(* The pending pairs                                                       *)
(***************************************************************************)

Keys == [engagement: {EngagementOf[c] : c \in Calls}, field: Fields, value: Values, rest: Query]
PairSet == [key: Keys, id: Nat, seen: Nat]
Fresh(s, time) == \A i \in DOMAIN s : time - s[i].seen <= TTL
NotLater(s, time) == \A i \in DOMAIN s : s[i].seen <= time
From(s, S) == \A i \in DOMAIN s : s[i] \in S

\* The tail of a sequence of pairs from its m-th on.
LEMMA TailOfPairs ==
    ASSUME NEW S, NEW s \in Seq(S), Distinct(s), NEW m \in 1..(Len(s) + 1)
    PROVE  /\ SubSeq(s, m, Len(s)) \in Seq(S)
           /\ Len(SubSeq(s, m, Len(s))) = Len(s) - m + 1
           /\ \A i \in DOMAIN SubSeq(s, m, Len(s)) :
                 /\ i + m - 1 \in DOMAIN s /\ SubSeq(s, m, Len(s))[i] = s[i + m - 1]
           /\ Distinct(SubSeq(s, m, Len(s)))
<1> DEFINE t == SubSeq(s, m, Len(s))
<1>1. Len(s) \in Nat /\ DOMAIN s = 1..Len(s)
  OBVIOUS
<1>2. /\ t \in Seq(S) /\ Len(t) = Len(s) - m + 1
      /\ \A i \in 1..(Len(s) - m + 1) : t[i] = s[m + i - 1]
  BY <1>1
<1> HIDE DEF t
<1>3. DOMAIN t = 1..(Len(s) - m + 1)
  BY <1>2
<1>4. \A i \in DOMAIN t : i \in Int /\ i + m - 1 \in DOMAIN s /\ t[i] = s[i + m - 1]
  <2> TAKE i \in DOMAIN t
  <2>1. i \in 1..(Len(s) - m + 1) /\ i + m - 1 = m + i - 1
    BY <1>1, <1>3
  <2>2. t[i] = s[m + i - 1]
    BY <1>2, <2>1
  <2>3. i + m - 1 \in 1..Len(s)
    BY <1>1, <2>1
  <2> QED BY <1>1, <2>1, <2>2, <2>3
<1>5. Distinct(t)
  <2> SUFFICES ASSUME NEW i \in DOMAIN t, NEW j \in DOMAIN t, i < j
               PROVE  t[i].key # t[j].key /\ t[i].seen <= t[j].seen
    BY DEF Distinct
  <2>1. i + m - 1 < j + m - 1
    BY <1>4
  <2> QED BY <1>4, <2>1 DEF Distinct
<1> QED BY <1>2, <1>4, <1>5 DEF t

\* Pruning leaves pairs within their time to live, and no others.
LEMMA PruneKeepsFresh ==
    ASSUME NEW s \in Seq(PairSet), Distinct(s), NEW time \in Nat
    PROVE  /\ Prune(s, time) \in Seq(PairSet) /\ Len(Prune(s, time)) <= Len(s)
           /\ Distinct(Prune(s, time)) /\ Fresh(Prune(s, time), time)
           /\ From(Prune(s, time), ToSet(s))
<1> DEFINE fresh == {i \in DOMAIN s : time - s[i].seen <= TTL}
<1>1. CASE fresh = {}
  <2>1. Prune(s, time) = <<>>
    BY <1>1 DEF Prune
  <2> QED BY <2>1 DEF Distinct, Fresh, From
<1>2. CASE fresh # {}
  <2> DEFINE m == Min(fresh)
  <2>1. fresh \in SUBSET Nat
    OBVIOUS
  <2>2. m \in fresh /\ \A k \in fresh : m <= k
    <3> HIDE DEF fresh
    <3> QED BY <1>2, <2>1, LeastIsMin
  <2>3. m \in 1..Len(s) /\ m \in 1..(Len(s) + 1) /\ time - s[m].seen <= TTL
    BY <2>2
  <2>4. Prune(s, time) = SubSeq(s, m, Len(s))
    BY <1>2 DEF Prune
  <2> HIDE DEF m, fresh
  <2> DEFINE t == Prune(s, time)
  <2>5. /\ t \in Seq(PairSet) /\ Len(t) = Len(s) - m + 1 /\ Distinct(t)
        /\ \A i \in DOMAIN t : i + m - 1 \in DOMAIN s /\ t[i] = s[i + m - 1]
    BY <2>3, <2>4, TailOfPairs
  <2> HIDE DEF t
  <2>6. Len(t) <= Len(s)
    BY <2>3, <2>5
  <2>7. \A i \in DOMAIN t : time - t[i].seen <= TTL
    <3> TAKE i \in DOMAIN t
    <3>1. i \in 1..(Len(s) - m + 1)
      BY <2>5
    <3>2. i + m - 1 \in DOMAIN s /\ t[i] = s[i + m - 1] /\ m \in DOMAIN s
      BY <2>3, <2>5
    <3>3. m = i + m - 1 \/ m < i + m - 1
      BY <2>3, <3>1
    <3>4. s[m].seen <= s[i + m - 1].seen
      <4>1. s[m] \in PairSet
        BY <2>3
      <4>2. CASE m = i + m - 1
        BY <4>1, <4>2 DEF PairSet
      <4>3. CASE m < i + m - 1
        BY <4>3, <3>2 DEF Distinct
      <4> QED BY <3>3, <4>2, <4>3
    <3>5. s[m].seen \in Nat /\ s[i + m - 1].seen \in Nat
      <4>1. s[m] \in PairSet /\ s[i + m - 1] \in PairSet
        BY <3>2
      <4> QED BY <4>1 DEF PairSet
    <3>6. TTL \in Nat
      BY ObserversAssumption
    <3> QED BY <3>2, <3>4, <3>5, <3>6, <2>3
  <2>8. \A i \in DOMAIN t : t[i] \in ToSet(s)
    BY <2>5 DEF ToSet
  <2> QED BY <2>5, <2>6, <2>7, <2>8 DEF Fresh, From, t
<1> QED BY <1>1, <1>2

\* Taking a key out leaves the others, in order.
LEMMA TakeLeavesOthers ==
    ASSUME NEW s \in Seq(PairSet), Distinct(s), NEW key
    PROVE  /\ Take(s, key) \in Seq(PairSet) /\ Len(Take(s, key)) <= Len(s)
           /\ Distinct(Take(s, key)) /\ From(Take(s, key), {e \in ToSet(s) : e.key # key})
<1> DEFINE at == {i \in DOMAIN s : s[i].key = key}
<1>1. CASE at = {}
  <2>1. Take(s, key) = s
    BY <1>1 DEF Take
  <2>2. \A i \in DOMAIN s : s[i] \in {e \in ToSet(s) : e.key # key}
    BY <1>1 DEF ToSet
  <2> QED BY <2>1, <2>2 DEF From
<1>2. CASE at # {}
  <2> DEFINE m == Min(at)
  <2>1. at \in SUBSET Nat
    OBVIOUS
  <2>2. m \in at
    <3> HIDE DEF at
    <3> QED BY <1>2, <2>1, LeastIsMin
  <2>3. m \in DOMAIN s /\ m \in 1..Len(s) /\ s[m].key = key
    BY <2>2
  <2>4. Take(s, key) = RemoveAt(s, m)
    BY <1>2 DEF Take
  <2> HIDE DEF m, at
  <2> DEFINE t == Take(s, key)
             back(j) == IF j < m THEN j ELSE j + 1
  <2>5. /\ t \in Seq(PairSet) /\ Len(t) = Len(s) - 1
        /\ \A j \in 1..(Len(s) - 1) : t[j] = IF j < m THEN s[j] ELSE s[j + 1]
    BY <2>3, <2>4, Removed
  <2> HIDE DEF t
  <2>6. \A j \in DOMAIN t : /\ back(j) \in DOMAIN s /\ back(j) # m /\ t[j] = s[back(j)]
                            /\ j \in Int
    <3> TAKE j \in DOMAIN t
    <3>1. j \in 1..(Len(s) - 1) /\ j + 1 \in DOMAIN s /\ j \in DOMAIN s
      BY <2>5
    <3>2. CASE j < m
      BY <3>1, <3>2, <2>3, <2>5
    <3>3. CASE ~(j < m)
      BY <3>1, <3>3, <2>3, <2>5
    <3> QED BY <3>2, <3>3
  <2>7. Distinct(t)
    <3> SUFFICES ASSUME NEW i \in DOMAIN t, NEW j \in DOMAIN t, i < j
                 PROVE  t[i].key # t[j].key /\ t[i].seen <= t[j].seen
      BY DEF Distinct
    <3>1. back(i) < back(j)
      BY <2>3, <2>6
    <3> QED BY <2>6, <3>1 DEF Distinct
  <2>8. \A j \in DOMAIN t : t[j] \in ToSet(s) /\ t[j].key # key
    <3> TAKE j \in DOMAIN t
    <3>1. back(j) \in DOMAIN s /\ back(j) # m /\ t[j] = s[back(j)]
      BY <2>6
    <3>2. back(j) < m \/ m < back(j)
      BY <2>3, <3>1
    <3>3. s[back(j)].key # s[m].key
      <4> HIDE DEF back
      <4> QED BY <2>3, <3>1, <3>2 DEF Distinct
    <3> QED BY <2>3, <3>1, <3>3 DEF ToSet
  <2> QED BY <2>5, <2>7, <2>8 DEF From, t
<1> QED BY <1>1, <1>2

\* Remembering a key puts it last, once, and crowds out the oldest at most.
LEMMA RememberPutsLast ==
    ASSUME NEW s \in Seq(PairSet), Distinct(s), NEW key \in Keys, NEW id \in Nat,
           NEW time \in Nat, NotLater(s, time)
    PROVE  /\ Remember(s, key, id, time) \in Seq(PairSet)
           /\ Len(Remember(s, key, id, time)) <= MaxPending
           /\ Distinct(Remember(s, key, id, time))
           /\ From(Remember(s, key, id, time),
                   ToSet(s) \cup {[key |-> key, id |-> id, seen |-> time]})
<1> DEFINE e == [key |-> key, id |-> id, seen |-> time]
           t == Take(s, key)
           u == Append(t, e)
           r == Remember(s, key, id, time)
           m == Max({1, Len(u) - MaxPending + 1})
<1>1. /\ t \in Seq(PairSet) /\ Distinct(t)
      /\ \A i \in DOMAIN t : t[i] \in ToSet(s) /\ t[i].key # key
  BY TakeLeavesOthers DEF From
<1>2. e \in PairSet /\ e.key = key /\ e.seen = time
  BY DEF PairSet
<1>3. r = SubSeq(u, m, Len(u))
  BY DEF Remember
<1> HIDE DEF e, t, r, m
<1>4. /\ u \in Seq(PairSet) /\ Len(u) = Len(t) + 1 /\ u[Len(t) + 1] = e
      /\ \A i \in DOMAIN t : u[i] = t[i]
      /\ DOMAIN u = DOMAIN t \cup {Len(t) + 1}
      /\ DOMAIN t = 1..Len(t) /\ Len(t) \in Nat
  BY <1>1, <1>2
<1> HIDE DEF u
<1>5. \A x \in ToSet(s) : x.seen <= time
  BY DEF ToSet, NotLater
<1>6. Distinct(u)
  <2> SUFFICES ASSUME NEW i \in DOMAIN u, NEW j \in DOMAIN u, i < j
               PROVE  u[i].key # u[j].key /\ u[i].seen <= u[j].seen
    BY DEF Distinct
  <2>1. i \in DOMAIN t
    BY <1>4
  <2>2. CASE j \in DOMAIN t
    BY <2>1, <2>2, <1>1, <1>4 DEF Distinct
  <2>3. CASE j = Len(t) + 1
    BY <2>1, <2>3, <1>1, <1>2, <1>4, <1>5
  <2> QED BY <2>2, <2>3, <1>4
<1>7. /\ MaxPending \in Nat /\ MaxPending > 0
  BY ObserversAssumption
<1>8. m = IF 1 >= Len(u) - MaxPending + 1 THEN 1 ELSE Len(u) - MaxPending + 1
  <2>1. 1 \in Int /\ Len(u) - MaxPending + 1 \in Int
    BY <1>4, <1>7
  <2> QED BY <2>1, GreaterIsMax DEF m
<1>9. m \in 1..(Len(u) + 1) /\ Len(u) - m + 1 <= MaxPending
  BY <1>4, <1>7, <1>8
<1>10. /\ r \in Seq(PairSet) /\ Len(r) = Len(u) - m + 1 /\ Distinct(r)
       /\ \A i \in DOMAIN r : i + m - 1 \in DOMAIN u /\ r[i] = u[i + m - 1]
  BY <1>3, <1>4, <1>6, <1>9, TailOfPairs
<1>11. \A i \in DOMAIN u : u[i] \in ToSet(s) \cup {e}
  BY <1>1, <1>4
<1>12. From(r, ToSet(s) \cup {e})
  BY <1>10, <1>11 DEF From
<1> QED BY <1>9, <1>10, <1>12 DEF r, e

(***************************************************************************)
(* The pairing of one query                                                *)
(***************************************************************************)

Engagements == {EngagementOf[c] : c \in Calls}
Run == [engagement: Engagements, query: Query, rows: {0, 1}, id: Nat, at: Nat]

\* The pairs a query that found nothing leaves.
Asked(run) ==
    {[key |-> k, id |-> run.id, seen |-> run.at] :
        k \in {k \in Keys : EqualsKey(run.query, run.engagement, k)}}

\* What a query that found something shows: an equality filter contradicts, and a
\* contains filter confirms with a fresh pair of its key, which is then taken.
Contradicts(run, o) ==
    \E i \in FilterClauses(run.query) :
        o = Shows("contradict", run, FilterClause(run.query, i), <<run.id>>)
ConfirmsWith(run, e, left, o) ==
    \E i \in FilterClauses(run.query) :
        /\ run.query.stages[i].clause.op = "contains"
        /\ e.key = PairKey(run.engagement, FilterClause(run.query, i))
        /\ run.at - e.seen <= TTL
        /\ o = Shows("confirm", run, FilterClause(run.query, i), <<e.id, run.id>>)
        /\ \A k \in DOMAIN left : left[k].key # e.key

Sound(run, pairs, x) ==
    /\ x = [pairs |-> x.pairs, seen |-> x.seen]
    /\ x.pairs \in Seq(PairSet) /\ Len(x.pairs) <= MaxPending /\ Distinct(x.pairs)
    /\ Fresh(x.pairs, run.at) /\ NotLater(x.pairs, run.at)
    /\ From(x.pairs, ToSet(pairs) \cup (IF run.rows = 0 THEN Asked(run) ELSE {}))
    /\ \A o \in x.seen :
          /\ run.rows > 0
          /\ Contradicts(run, o) \/ \E e \in ToSet(pairs) : ConfirmsWith(run, e, x.pairs, o)

\* A clause is one, and the key it makes is one.
LEMMA SkeletonType ==
    ASSUME NEW query \in Query, NEW i \in FilterClauses(query)
    PROVE  /\ Skeleton(query, i) \in Query /\ Skeleton(query, i).dataset = query.dataset
           /\ query.stages[i].clause \in Clause /\ i \in DOMAIN query.stages
<1>1. /\ query.stages \in Seq(Stage) /\ query.dataset \in Datasets
      /\ query.window \in Nat \cup {None}
      /\ query = [dataset |-> query.dataset, stages |-> query.stages, window |-> query.window]
  BY DEF Query
<1>2. i \in DOMAIN query.stages /\ query.stages[i].clause # None
  BY DEF FilterClauses
<1>3. query.stages[i] \in Stage
  BY <1>1, <1>2
<1> DEFINE stage == [query.stages[i] EXCEPT !.clause = None,
                                            !.reads = @ \ {query.stages[i].clause.field}]
<1>4. stage \in Stage
  BY <1>3 DEF Stage
<1> HIDE DEF stage
<1> DEFINE stages == [query.stages EXCEPT ![i] = stage]
<1>5. stages \in Seq(Stage)
  BY <1>1, <1>2, <1>4
<1>6. Skeleton(query, i) = [query EXCEPT !.stages = stages]
  BY Zenon DEF Skeleton, stage
<1> HIDE DEF stages
<1>7. Skeleton(query, i) = [dataset |-> query.dataset, stages |-> stages, window |-> query.window]
  BY <1>1, <1>6
<1>8. Skeleton(query, i) \in Query /\ Skeleton(query, i).dataset = query.dataset
  BY <1>1, <1>5, <1>7 DEF Query
<1>9. query.stages[i].clause \in Clause
  BY <1>2, <1>3 DEF Stage
<1> QED BY <1>2, <1>8, <1>9

\* The key of an equality or contains filter is one.
LEMMA KeyType ==
    ASSUME NEW query \in Query, NEW i \in FilterClauses(query), NEW engagement \in Engagements
    PROVE  /\ PairKey(engagement, FilterClause(query, i)) \in Keys
           /\ PairKey(engagement, FilterClause(query, i)).rest.dataset = query.dataset
<1>1. /\ Skeleton(query, i) \in Query /\ Skeleton(query, i).dataset = query.dataset
      /\ query.stages[i].clause.field \in Fields /\ query.stages[i].clause.value \in Values
  BY SkeletonType DEF Clause
<1> QED BY <1>1 DEF PairKey, FilterClause, Keys, Engagements

\* The two equations of the pairing.
LEMMA PairingStep ==
    ASSUME NEW run, NEW pairs, Len(run.query.stages) \in Nat
    PROVE  /\ PairedUpTo(run, pairs)[0] = [pairs |-> Prune(pairs, run.at), seen |-> {}]
           /\ \A i \in 1..Len(run.query.stages) :
                PairedUpTo(run, pairs)[i] = PairStage(PairedUpTo(run, pairs)[i - 1], run, i)
<1> DEFINE n == Len(run.query.stages)
           start == [pairs |-> Prune(pairs, run.at), seen |-> {}]
           P == PairedUpTo(run, pairs)
<1>0. \E g : g = [i \in 0..n |-> IF i = 0 THEN start ELSE PairStage(g[i - 1], run, i)]
  <2>0. n \in Nat
    OBVIOUS
  <2> HIDE DEF n, start
  <2> DEFINE Good(k, g) == g = [i \in 0..k |-> IF i = 0 THEN start ELSE PairStage(g[i - 1], run, i)]
             S == {k \in Nat : \E g : Good(k, g)}
  <2>1. 0 \in S
    <3>1. Good(0, [i \in 0..0 |-> start])
      OBVIOUS
    <3> QED BY <3>1
  <2>2. ASSUME NEW k \in Nat, k \in S PROVE k + 1 \in S
    <3>1. PICK g : Good(k, g)
      BY <2>2
    <3> DEFINE h == [i \in 0..(k + 1) |-> IF i = k + 1 THEN PairStage(g[k], run, k + 1) ELSE g[i]]
    <3>2. \A i \in 0..k : h[i] = g[i]
      OBVIOUS
    <3>3. ASSUME NEW i \in 0..(k + 1)
          PROVE  h[i] = IF i = 0 THEN start ELSE PairStage(h[i - 1], run, i)
      <4>1. CASE i = k + 1
        <5>1. i - 1 = k /\ k \in 0..k /\ i # 0
          BY <4>1
        <5> QED BY <4>1, <5>1, <3>2
      <4>2. CASE i # k + 1
        <5>1. i \in 0..k /\ (i # 0 => i - 1 \in 0..k)
          BY <4>2
        <5>2. g[i] = IF i = 0 THEN start ELSE PairStage(g[i - 1], run, i)
          BY <3>1, <5>1
        <5> QED BY <5>1, <5>2, <3>2
      <4> QED BY <4>1, <4>2
    <3>4. Good(k + 1, h)
      BY <3>3
    <3>5. \E q : Good(k + 1, q)
      <4> HIDE DEF Good, h
      <4> QED BY <3>4
    <3> QED BY <3>5
  <2>3. n \in S
    <3> HIDE DEF S
    <3> QED BY <2>0, <2>1, <2>2, SetInduction
  <2> QED BY <2>3
<1>1. P = [i \in 0..n |-> IF i = 0 THEN start ELSE PairStage(P[i - 1], run, i)]
  BY <1>0, Zenon DEF PairedUpTo
<1>2. n \in Nat
  OBVIOUS
<1> HIDE DEF n, P, start
<1>3. 0 \in 0..n /\ \A i \in 1..n : i \in 0..n /\ i # 0
  BY <1>2
<1>4. P[0] = start
  BY <1>1, <1>3
<1>5. ASSUME NEW i \in 1..n PROVE P[i] = PairStage(P[i - 1], run, i)
  BY <1>1, <1>3
<1> QED BY <1>4, <1>5 DEF n, P, start

\* One clause keeps the pairing sound.
LEMMA PairIsSound ==
    ASSUME NEW run \in Run, NEW pairs, NEW x, Sound(run, pairs, x),
           NEW i \in FilterClauses(run.query)
    PROVE  Sound(run, pairs, Pair(x, run, FilterClause(run.query, i)))
<1> DEFINE found == FilterClause(run.query, i)
           key == PairKey(run.engagement, found)
           y == Pair(x, run, found)
           op == run.query.stages[i].clause.op
           more == IF run.rows = 0 THEN Asked(run) ELSE {}
<1>1. /\ run.query \in Query /\ run.engagement \in Engagements /\ run.rows \in {0, 1}
      /\ run.id \in Nat /\ run.at \in Nat
  BY DEF Run
<1>2. key \in Keys
  BY <1>1, KeyType
<1>3. found.clause.op = op /\ op \in {"=", "contains"}
  <2>1. run.query.stages[i].clause \in Clause
    BY <1>1, SkeletonType
  <2> QED BY <2>1 DEF Clause, FilterClause
<1>4. /\ x = [pairs |-> x.pairs, seen |-> x.seen]
      /\ x.pairs \in Seq(PairSet) /\ Len(x.pairs) <= MaxPending /\ Distinct(x.pairs)
      /\ Fresh(x.pairs, run.at) /\ NotLater(x.pairs, run.at)
      /\ From(x.pairs, ToSet(pairs) \cup more)
      /\ \A o \in x.seen :
            /\ run.rows > 0
            /\ Contradicts(run, o) \/ \E e \in ToSet(pairs) : ConfirmsWith(run, e, x.pairs, o)
  BY DEF Sound
<1> HIDE DEF found, key, op, more
<1>5. CASE op = "=" /\ run.rows = 0
  <2> DEFINE r == Remember(x.pairs, key, run.id, run.at)
             e == [key |-> key, id |-> run.id, seen |-> run.at]
  <2>1. y = [x EXCEPT !.pairs = r]
    BY <1>3, <1>5 DEF Pair, key
  <2>2. /\ r \in Seq(PairSet) /\ Len(r) <= MaxPending /\ Distinct(r)
        /\ From(r, ToSet(x.pairs) \cup {e})
    BY <1>1, <1>2, <1>4, RememberPutsLast
  <2>3. e \in Asked(run)
    <3>1. EqualsKey(run.query, run.engagement, key)
      BY <1>5 DEF EqualsKey, key, found, op
    <3> QED BY <3>1, <1>2 DEF Asked
  <2>4. TTL \in Nat
    BY ObserversAssumption
  <2>5. e.seen = run.at /\ run.at - run.at <= TTL /\ run.at <= run.at
    BY <2>4, <1>1
  <2> HIDE DEF r, e
  <2>6. \A d \in ToSet(x.pairs) :
           d \in ToSet(pairs) \cup more /\ run.at - d.seen <= TTL /\ d.seen <= run.at
    BY <1>4 DEF ToSet, From, Fresh, NotLater
  <2>7. \A k \in DOMAIN r : /\ r[k] \in ToSet(pairs) \cup more
                            /\ run.at - r[k].seen <= TTL /\ r[k].seen <= run.at
    <3> TAKE k \in DOMAIN r
    <3>1. r[k] \in ToSet(x.pairs) \/ r[k] = e
      BY <2>2 DEF From
    <3>2. e \in more
      BY <2>3, <1>5 DEF more
    <3> QED BY <3>1, <3>2, <2>5, <2>6
  <2>8. y.pairs = r /\ y.seen = x.seen /\ y = [pairs |-> r, seen |-> x.seen]
    BY <2>1, <1>4
  <2>9. x.seen = {}
    BY <1>4, <1>5
  <2> HIDE DEF y
  <2>10. /\ Fresh(r, run.at) /\ NotLater(r, run.at) /\ From(r, ToSet(pairs) \cup more)
    BY <2>7 DEF Fresh, NotLater, From
  <2>11. Sound(run, pairs, y)
    BY <2>2, <2>8, <2>9, <2>10 DEF Sound, more
  <2> QED BY <2>11 DEF y, found
<1>6. CASE op = "=" /\ run.rows # 0
  <2> DEFINE o == Shows("contradict", run, found, <<run.id>>)
  <2>0. run.rows > 0
    BY <1>1, <1>6
  <2>1. y = [x EXCEPT !.seen = @ \cup {o}]
    BY <1>3, <1>6, <2>0 DEF Pair, key
  <2>2. Contradicts(run, o)
    BY DEF Contradicts, found
  <2> HIDE DEF o
  <2>3. y.pairs = x.pairs /\ y.seen = x.seen \cup {o} /\ y = [pairs |-> x.pairs, seen |-> x.seen \cup {o}]
    BY <2>1, <1>4
  <2> HIDE DEF y
  <2>4. Sound(run, pairs, y)
    BY <1>4, <2>0, <2>2, <2>3 DEF Sound, more
  <2> QED BY <2>4 DEF y, found
<1>7. CASE op = "contains" /\ run.rows # 0 /\ Has(x.pairs, key)
  <2> DEFINE t == Take(x.pairs, key)
             new == {Shows("confirm", run, found, <<p.id, run.id>>) : p \in Waiting(x, key)}
  <2>0. run.rows > 0
    BY <1>1, <1>7
  <2>1. y = [pairs |-> t, seen |-> x.seen \cup new]
    BY <1>3, <1>7, <2>0 DEF Pair, key
  <2>2. /\ t \in Seq(PairSet) /\ Len(t) <= Len(x.pairs) /\ Distinct(t)
        /\ From(t, {e \in ToSet(x.pairs) : e.key # key})
    BY <1>4, TakeLeavesOthers
  <2>3. \A d \in ToSet(x.pairs) :
           d \in ToSet(pairs) /\ run.at - d.seen <= TTL /\ d.seen <= run.at
    <3>1. more = {}
      BY <1>7 DEF more
    <3> QED BY <3>1, <1>4 DEF ToSet, From, Fresh, NotLater
  <2> HIDE DEF t
  <2>4. \A k \in DOMAIN t : t[k] \in ToSet(x.pairs) /\ t[k].key # key
    BY <2>2 DEF From
  <2>5. Len(t) <= MaxPending
    <3>1. Len(t) \in Nat /\ Len(x.pairs) \in Nat /\ MaxPending \in Nat
      BY <2>2, <1>4, ObserversAssumption
    <3> QED BY <3>1, <2>2, <1>4
  <2>6. \A o \in new : \E e \in ToSet(pairs) : ConfirmsWith(run, e, t, o)
    <3> TAKE o \in new
    <3>1. PICK p \in Waiting(x, key) : o = Shows("confirm", run, found, <<p.id, run.id>>)
      OBVIOUS
    <3>2. p \in ToSet(x.pairs) /\ p.key = key
      BY <3>1 DEF Waiting
    <3>3. ConfirmsWith(run, p, t, o)
      <4>1. \A k \in DOMAIN t : t[k].key # p.key
        BY <2>4, <3>2
      <4> QED BY <1>7, <2>3, <3>1, <3>2, <4>1 DEF ConfirmsWith, found, key, op
    <3> QED BY <3>2, <3>3, <2>3
  <2>7. \A o \in x.seen : Contradicts(run, o) \/ \E e \in ToSet(pairs) : ConfirmsWith(run, e, t, o)
    <3> TAKE o \in x.seen
    <3>1. ASSUME NEW e \in ToSet(pairs), ConfirmsWith(run, e, x.pairs, o)
          PROVE  ConfirmsWith(run, e, t, o)
      <4>1. PICK j \in FilterClauses(run.query) :
              /\ run.query.stages[j].clause.op = "contains"
              /\ e.key = PairKey(run.engagement, FilterClause(run.query, j))
              /\ run.at - e.seen <= TTL
              /\ o = Shows("confirm", run, FilterClause(run.query, j), <<e.id, run.id>>)
              /\ \A k \in DOMAIN x.pairs : x.pairs[k].key # e.key
        BY <3>1 DEF ConfirmsWith
      <4>2. \A k \in DOMAIN t : t[k].key # e.key
        BY <2>4, <4>1 DEF ToSet
      <4> QED BY <4>1, <4>2 DEF ConfirmsWith
    <3> QED BY <3>1, <1>4
  <2>8. /\ Fresh(t, run.at) /\ NotLater(t, run.at) /\ From(t, ToSet(pairs) \cup more)
    BY <2>3, <2>4 DEF Fresh, NotLater, From
  <2> HIDE DEF new
  <2>9. y.pairs = t /\ y.seen = x.seen \cup new
    BY <2>1
  <2> HIDE DEF y
  <2>10. Sound(run, pairs, y)
    BY <2>0, <2>1, <2>2, <2>5, <2>6, <2>7, <2>8, <2>9 DEF Sound, more
  <2> QED BY <2>10 DEF y, found
<1>8. CASE op = "contains" /\ ~(run.rows # 0 /\ Has(x.pairs, key))
  <2>1. y = x
    <3>1. run.rows > 0 <=> run.rows # 0
      BY <1>1
    <3> QED BY <1>3, <1>8, <3>1 DEF Pair, key
  <2> QED BY <2>1 DEF found
<1> QED BY <1>3, <1>5, <1>6, <1>7, <1>8

\* A query's clauses, one after another, keep it sound.
LEMMA PairingIsSound ==
    ASSUME NEW run \in Run, NEW pairs \in Seq(PairSet), Distinct(pairs),
           Len(pairs) <= MaxPending, NotLater(pairs, run.at)
    PROVE  Sound(run, pairs, EnumObservations(run, pairs))
<1> DEFINE n == Len(run.query.stages)
           P == PairedUpTo(run, pairs)
           S == {k \in Nat : k <= n => Sound(run, pairs, P[k])}
<1>1. n \in Nat /\ run.at \in Nat
  <2>1. run.query \in Query /\ run.at \in Nat
    BY DEF Run
  <2>2. run.query.stages \in Seq(Stage)
    BY <2>1 DEF Query
  <2> QED BY <2>1, <2>2
<1>2. /\ P[0] = [pairs |-> Prune(pairs, run.at), seen |-> {}]
      /\ \A i \in 1..n : P[i] = PairStage(P[i - 1], run, i)
  BY <1>1, PairingStep
<1> HIDE DEF n, P
<1>3. 0 \in S
  <2> DEFINE t == Prune(pairs, run.at)
  <2>1. /\ t \in Seq(PairSet) /\ Len(t) <= Len(pairs) /\ Distinct(t) /\ Fresh(t, run.at)
        /\ From(t, ToSet(pairs))
    BY <1>1, PruneKeepsFresh
  <2>2. NotLater(t, run.at)
    BY <2>1 DEF NotLater, From, ToSet
  <2>3. From(t, ToSet(pairs) \cup (IF run.rows = 0 THEN Asked(run) ELSE {}))
    BY <2>1 DEF From
  <2>4. Len(t) <= MaxPending
    <3>1. Len(t) \in Nat /\ Len(pairs) \in Nat /\ MaxPending \in Nat
      BY <2>1, ObserversAssumption
    <3> QED BY <3>1, <2>1
  <2> HIDE DEF t
  <2>5. P[0] = [pairs |-> t, seen |-> {}] /\ P[0].pairs = t /\ P[0].seen = {}
    BY <1>2 DEF t
  <2>6. Sound(run, pairs, P[0])
    BY <2>1, <2>2, <2>3, <2>4, <2>5 DEF Sound
  <2> QED BY <2>6
<1>4. ASSUME NEW k \in Nat, k \in S PROVE k + 1 \in S
  <2>1. SUFFICES ASSUME k + 1 <= n PROVE Sound(run, pairs, P[k + 1])
    OBVIOUS
  <2>2. k + 1 \in 1..n /\ (k + 1) - 1 = k /\ k <= n
    BY <2>1, <1>1
  <2>3. P[k + 1] = PairStage(P[k], run, k + 1) /\ Sound(run, pairs, P[k])
    BY <1>2, <1>4, <2>2
  <2>4. CASE k + 1 \in FilterClauses(run.query)
    <3>1. Sound(run, pairs, Pair(P[k], run, FilterClause(run.query, k + 1)))
      BY <2>3, <2>4, PairIsSound
    <3> QED BY <3>1, <2>3, <2>4 DEF PairStage
  <2>5. CASE k + 1 \notin FilterClauses(run.query)
    BY <2>3, <2>5 DEF PairStage
  <2> QED BY <2>4, <2>5
<1>5. n \in S
  <2> HIDE DEF S
  <2> QED BY <1>1, <1>3, <1>4, SetInduction
<1>6. Sound(run, pairs, P[n])
  BY <1>5, <1>1
<1> QED BY <1>6 DEF EnumObservations, P, n

(***************************************************************************)
(* Types                                                                   *)
(***************************************************************************)

PendingPair == [key: Keys, id: Observed, seen: 0..now]
Entries == [by: Calls, query: Query, at: 0..now, reply: Reply, units: Figure]

\* Sequences over another set.
LEMMA MemberOfSeq ==
    ASSUME NEW S, NEW s \in Seq(S), NEW k \in DOMAIN s
    PROVE  s[k] \in S
OBVIOUS

\* A sequence whose members are in T is one over T.
LEMMA SeqOfOthers ==
    ASSUME NEW S, NEW T, NEW s \in Seq(S), \A k \in DOMAIN s : s[k] \in T
    PROVE  s \in Seq(T) /\ ToSet(s) \subseteq T
<1>1. Len(s) \in Nat /\ s = [k \in 1..Len(s) |-> s[k]] /\ DOMAIN s = 1..Len(s)
  OBVIOUS
<1>2. s \in Seq(T)
  BY <1>1
<1> QED BY <1>2 DEF ToSet

\* Appending adds one member.
LEMMA SetOfAppended ==
    ASSUME NEW S, NEW s \in Seq(S), NEW e
    PROVE  ToSet(Append(s, e)) = ToSet(s) \cup {e}
<1> DEFINE t == Append(s, e)
<1>1. /\ Len(s) \in Nat /\ DOMAIN s = 1..Len(s) /\ DOMAIN t = 1..(Len(s) + 1)
      /\ \A k \in 1..Len(s) : t[k] = s[k]
      /\ t[Len(s) + 1] = e
  OBVIOUS
<1> HIDE DEF t
<1>2. \A k \in DOMAIN t : t[k] \in ToSet(s) \cup {e}
  BY <1>1 DEF ToSet
<1>3. \A k \in DOMAIN s : s[k] \in ToSet(t)
  <2> TAKE k \in DOMAIN s
  <2>1. k \in DOMAIN t /\ s[k] = t[k]
    BY <1>1
  <2> QED BY <2>1 DEF ToSet
<1>4. e \in ToSet(t)
  <2>1. Len(s) + 1 \in DOMAIN t /\ e = t[Len(s) + 1]
    BY <1>1
  <2> QED BY <2>1 DEF ToSet
<1>5. ToSet(t) \subseteq ToSet(s) \cup {e}
  BY <1>2 DEF ToSet
<1>6. ToSet(s) \subseteq ToSet(t)
  BY <1>3 DEF ToSet
<1>7. ToSet(t) = ToSet(s) \cup {e}
  BY <1>4, <1>5, <1>6
<1> QED BY <1>7 DEF t

\* The call, query and reply of a query in flight.
LEMMA FlightType ==
    ASSUME TypeOK, NEW f \in flight
    PROVE  /\ f.by \in Calls /\ f.query \in Query /\ f.reply \in Reply \cup {None}
           /\ f = [by |-> f.by, query |-> f.query, reply |-> f.reply]
           /\ ProfileOf[f.by] \in Profiles /\ EngagementOf[f.by] \in Engagements
<1>1. f \in [by: Calls, query: Query, reply: Reply \cup {None}]
  BY DEF TypeOK
<1> QED BY <1>1 DEF Profiles, Engagements

\* The units of a reply are a figure.
LEMMA UnitsType ==
    ASSUME NEW reply \in Reply, NEW before \in Nat \cup {None}
    PROVE  Units(reply, before) \in Figure
<1>1. reply.cost \in Nat \cup {None} /\ reply.remaining \in Nat \cup {None}
  BY DEF Reply
<1>2. CASE reply.cost # None
  BY <1>1, <1>2 DEF Units, Figure, Sources
<1>3. CASE reply.cost = None /\ reply.remaining # None /\ before # None /\ before >= reply.remaining
  <2>1. before - reply.remaining \in Nat
    BY <1>1, <1>3
  <2> QED BY <2>1, <1>3 DEF Units, Figure, Sources
<1>4. CASE reply.cost = None /\ ~(reply.remaining # None /\ before # None /\ before >= reply.remaining)
  BY <1>4 DEF Units, Figure, Sources
<1> QED BY <1>2, <1>3, <1>4

\* An unknown field XSIAM names is one of the fields.
LEMMA UnknownType ==
    ASSUME NEW query \in Query
    PROVE  UnknownFields(query) \in SUBSET Fields
<1> DEFINE unknown(i) ==
             LET stage == query.stages[i]
             IN  stage.reads \ (IF stage.of = query.dataset THEN ColumnsAt(query)[i]
                                 ELSE Columns[stage.of])
           failing == {i \in DOMAIN query.stages : unknown(i) # {}}
<1>1. query.stages \in Seq(Stage)
  BY DEF Query
<1>2. UnknownFields(query) = IF failing = {} THEN {} ELSE unknown(Min(failing))
  BY DEF UnknownFields
<1>3. failing \in SUBSET Nat
  BY <1>1
<1>4. \A i \in DOMAIN query.stages : unknown(i) \in SUBSET Fields
  <2> TAKE i \in DOMAIN query.stages
  <2>1. query.stages[i] \in Stage
    BY <1>1
  <2>2. query.stages[i].reads \in SUBSET Fields
    BY <2>1 DEF Stage
  <2> QED BY <2>2
<1>5. failing \subseteq DOMAIN query.stages
  OBVIOUS
<1>6. ASSUME failing # {} PROVE Min(failing) \in DOMAIN query.stages
  <2> HIDE DEF failing
  <2> QED BY <1>3, <1>5, <1>6, LeastIsMin
<1> HIDE DEF unknown, failing
<1> QED BY <1>2, <1>4, <1>6

\* What an observation adds to asked.
Entry(f) == [by |-> f.by, query |-> f.query, at |-> now', reply |-> f.reply,
             units |-> Units(f.reply, last[ProfileOf[f.by]])]
Runner(f) == [engagement |-> EngagementOf[f.by], query |-> f.query, rows |-> f.reply.rows,
              id |-> Len(asked) + 1, at |-> now']

\* An observation adds the next id.
LEMMA ObservedOneMore ==
    ASSUME TypeOK, NEW f \in flight, Observe(f)
    PROVE  /\ f.reply \in Reply /\ now' \in now..MaxTime /\ now \in Nat /\ now' \in Nat
           /\ asked' = Append(asked, Entry(f)) /\ Entry(f).units \in Figure
           /\ Entry(f) \in Entries'
           /\ Len(asked) \in Nat /\ Len(asked') = Len(asked) + 1
           /\ Observed = 1..Len(asked) /\ Observed' = Observed \cup {Len(asked) + 1}
           /\ \A i \in Observed : asked'[i] = asked[i] /\ i # Len(asked) + 1
           /\ asked'[Len(asked) + 1] = Entry(f)
           /\ Runner(f) \in Run
<1>1. /\ f.by \in Calls /\ f.query \in Query /\ f.reply \in Reply \cup {None}
      /\ ProfileOf[f.by] \in Profiles /\ EngagementOf[f.by] \in Engagements
  BY FlightType
<1>2. f.reply \in Reply
  BY <1>1 DEF Observe
<1>3. /\ now \in 0..MaxTime /\ now' \in now..MaxTime /\ now \in Nat /\ now' \in Nat
  <2>1. now \in 0..MaxTime /\ now' \in now..MaxTime /\ MaxTime \in Nat
    BY ObserversAssumption DEF TypeOK, Observe
  <2> QED BY <2>1
<1>4. asked' = Append(asked, Entry(f))
  BY DEF Observe, Entry, CurrentCall
<1>5. last[ProfileOf[f.by]] \in Nat \cup {None}
  BY <1>1 DEF TypeOK
<1>6. Units(f.reply, last[ProfileOf[f.by]]) \in Figure
  BY <1>2, <1>5, UnitsType
<1>7. /\ Entry(f) \in Entries'
      /\ Entry(f).units \in Figure
  BY <1>1, <1>2, <1>3, <1>6 DEF Entry, Entries
<1>8. asked \in Seq(Entries)
  BY DEF TypeOK, Entries
<1>9. Len(asked) \in Nat /\ DOMAIN asked = 1..Len(asked)
  BY <1>8
<1>10. /\ Len(asked') = Len(asked) + 1 /\ DOMAIN asked' = 1..(Len(asked) + 1)
       /\ \A i \in 1..Len(asked) : asked'[i] = asked[i]
       /\ asked'[Len(asked) + 1] = Entry(f)
  BY <1>4, <1>8
<1>11. /\ Observed = 1..Len(asked) /\ Observed' = Observed \cup {Len(asked) + 1}
       /\ \A i \in Observed : asked'[i] = asked[i] /\ i # Len(asked) + 1
  BY <1>9, <1>10 DEF Observed
<1>12. Runner(f) \in Run
  <2>1. f.reply.rows \in {0, 1}
    BY <1>2 DEF Reply
  <2> QED BY <1>1, <1>3, <1>9, <2>1 DEF Runner, Run
<1> QED BY <1>2, <1>3, <1>4, <1>7, <1>9, <1>10, <1>11, <1>12

\* The pairing a query's observation makes is sound, and pending is its pairs or
\* what it was.
LEMMA ObservedPairing ==
    ASSUME TypeOK, Distinct(pending), NEW f \in flight, Observe(f)
    PROVE  /\ pending \in Seq(PairSet) /\ NotLater(pending, now')
           /\ Sound(Runner(f), pending, EnumObservations(Runner(f), pending))
           /\ pending' = IF Active /\ ~f.reply.error
                         THEN EnumObservations(Runner(f), pending).pairs ELSE pending
<1>1. /\ Runner(f) \in Run /\ now \in Nat /\ now' \in now..MaxTime /\ now' \in Nat
      /\ Observed = 1..Len(asked)
  BY ObservedOneMore
<1>2. /\ pending \in Seq(PendingPair) /\ Len(pending) <= MaxPending
  BY DEF TypeOK, Keys, PendingPair
<1>3. \A k \in DOMAIN pending : pending[k] \in PairSet /\ pending[k].seen <= now'
  <2> TAKE k \in DOMAIN pending
  <2>1. pending[k] \in PendingPair
    BY <1>2, MemberOfSeq
  <2> QED BY <1>1, <2>1 DEF PairSet, PendingPair
<1>4. pending \in Seq(PairSet)
  BY <1>2, <1>3, SeqOfOthers
<1>5. NotLater(pending, now')
  BY <1>3 DEF NotLater
<1>6. Runner(f).at = now'
  BY DEF Runner
<1>7. Sound(Runner(f), pending, EnumObservations(Runner(f), pending))
  BY <1>1, <1>2, <1>4, <1>5, <1>6, PairingIsSound
<1>8. pending' = IF Active /\ ~f.reply.error
                 THEN EnumObservations(Runner(f), pending).pairs ELSE pending
  BY DEF Observe, CurrentCall, Runner
<1> QED BY <1>4, <1>5, <1>7, <1>8

\* One lemma per action: it keeps the types.
LEMMA InitType == Init => TypeOK
<1> SUFFICES ASSUME Init PROVE TypeOK
  OBVIOUS
<1>1. 0 \in Nat /\ MaxTime \in Nat /\ MaxFaults \in Nat /\ MaxPending \in Nat
  BY ObserversAssumption
<1>2. Len(<<>>) = 0 /\ <<>> \in Seq({})
  OBVIOUS
<1>3. Quota \in Nat
  BY ObserversAssumption
<1>4. quota \in [remaining: Nat, charged: Nat, readings: Nat]
  BY <1>3 DEF Init
<1>5. calls \in [Calls -> [pc: {"running", "ended"}, query_ids: Seq(Observed), units: Seq(Nat)]]
  BY DEF Init, Begun
<1>6. /\ now \in 0..MaxTime /\ faults \in 0..MaxFaults /\ last \in [Profiles -> Nat \cup {None}]
      /\ flight = {} /\ journal = {} /\ steps = {} /\ pending = <<>> /\ asked = <<>>
      /\ Len(pending) <= MaxPending
  BY <1>1 DEF Init
<1> QED BY <1>4, <1>5, <1>6 DEF TypeOK

LEMMA AskType == TypeOK /\ (\E c \in Calls : Ask(c)) => TypeOK'
<1> SUFFICES ASSUME TypeOK, NEW c \in Calls, Ask(c) PROVE TypeOK'
  OBVIOUS
<1>1. PICK query \in Asks[c] : flight' = flight \cup {[by |-> c, query |-> query, reply |-> None]}
  BY DEF Ask
<1>2. query \in Query
  BY <1>1, ObserversAssumption
<1>3. flight' \subseteq [by: Calls, query: Query, reply: Reply \cup {None}]
  BY <1>1, <1>2 DEF TypeOK
<1> QED BY <1>3 DEF TypeOK, Ask, Observed

LEMMA EndType == TypeOK /\ (\E c \in Calls : End(c)) => TypeOK'
<1> SUFFICES ASSUME TypeOK, NEW c \in Calls, End(c) PROVE TypeOK'
  OBVIOUS
<1>1. calls' \in [Calls -> [pc: {"running", "ended"}, query_ids: Seq(Observed), units: Seq(Nat)]]
  BY DEF TypeOK, End
<1>2. \A s \in steps' : s.by \in Calls
  BY DEF TypeOK, End, Step
<1> QED BY <1>1, <1>2 DEF TypeOK, End, Observed

LEMMA CancelType == TypeOK /\ (\E c \in Calls : Cancel(c)) => TypeOK'
<1> SUFFICES ASSUME TypeOK, NEW c \in Calls, Cancel(c) PROVE TypeOK'
  OBVIOUS
<1>1. calls' \in [Calls -> [pc: {"running", "ended"}, query_ids: Seq(Observed), units: Seq(Nat)]]
  BY DEF TypeOK, Cancel
<1>2. faults' \in 0..MaxFaults
  BY ObserversAssumption DEF TypeOK, Cancel, GoesWrong
<1>3. flight' \subseteq flight
  BY DEF Cancel
<1> QED BY <1>1, <1>2, <1>3 DEF TypeOK, Cancel, Observed

\* A faulty step counts its fault.
LEMMA FaultType == TypeOK /\ GoesWrong => faults' \in 0..MaxFaults
BY ObserversAssumption DEF TypeOK, GoesWrong

\* Charging units the quota still has keeps it a record of naturals.
LEMMA ChargeType ==
    ASSUME TypeOK, NEW units \in Nat, quota.remaining >= units
    PROVE  /\ Charged(units) \in [remaining: Nat, charged: Nat, readings: Nat]
           /\ Charged(units).remaining = quota.remaining - units
           /\ Charged(units).charged = quota.charged + units
           /\ Charged(units).readings = quota.readings
<1>1. /\ quota = [remaining |-> quota.remaining, charged |-> quota.charged, readings |-> quota.readings]
      /\ quota.remaining \in Nat /\ quota.charged \in Nat /\ quota.readings \in Nat
  BY DEF TypeOK
<1>2. Charged(units) = [remaining |-> quota.remaining - units, charged |-> quota.charged + units,
                        readings |-> quota.readings]
  <2> DEFINE left == quota.remaining - units
             spent == quota.charged + units
  <2>1. Charged(units) = [quota EXCEPT !.remaining = left, !.charged = spent]
    BY DEF Charged
  <2> HIDE DEF left, spent
  <2>2. Charged(units) = [remaining |-> left, charged |-> spent, readings |-> quota.readings]
    BY <1>1, <2>1
  <2> QED BY <2>2 DEF left, spent
<1>3. quota.remaining - units \in Nat /\ quota.charged + units \in Nat
  BY <1>1
<1> QED BY <1>1, <1>2, <1>3

\* A query that runs is charged its price and writes the next reading.
LEMMA ReadingType ==
    ASSUME TypeOK, NEW f \in flight, Runs(f)
    PROVE  /\ Reading(f) \in [remaining: Nat, charged: Nat, readings: Nat]
           /\ Cost[f.query.dataset] \in Nat
           /\ Reading(f).remaining = quota.remaining - Cost[f.query.dataset]
           /\ Reading(f).charged = quota.charged + Cost[f.query.dataset]
           /\ Reading(f).readings = quota.readings + 1
<1> DEFINE k == Cost[f.query.dataset]
<1>1. f.query.dataset \in Datasets
  <2>1. f.query \in Query
    BY FlightType
  <2> QED BY <2>1 DEF Query
<1>2. k \in Nat /\ quota.remaining >= k
  BY <1>1, ObserversAssumption DEF Runs
<1>3. Reading(f) = [Charged(k) EXCEPT !.readings = @ + 1]
  BY DEF Reading
<1> HIDE DEF k
<1>4. /\ Charged(k) \in [remaining: Nat, charged: Nat, readings: Nat]
      /\ Charged(k).remaining = quota.remaining - k /\ Charged(k).charged = quota.charged + k
      /\ Charged(k).readings = quota.readings
  BY <1>2, ChargeType
<1> QED BY <1>2, <1>3, <1>4 DEF k

\* An answered query stays in flight with its reply.
LEMMA AnswerType ==
    ASSUME TypeOK, NEW f \in flight, NEW reply \in Reply, Answer(f, reply)
    PROVE  flight' \subseteq [by: Calls, query: Query, reply: Reply \cup {None}]
<1>1. [f EXCEPT !.reply = reply] \in [by: Calls, query: Query, reply: Reply \cup {None}]
  BY FlightType
<1> QED BY <1>1 DEF TypeOK, Answer

\* A failure is a reply without a reading.
LEMMA FailedType ==
    ASSUME NEW field \in Fields \cup {None}
    PROVE  Failed(field) \in Reply
BY DEF Failed, Reply

\* The reply that Succeed writes.
Written(f, rows, states) ==
    [error |-> FALSE, unknown |-> None, rows |-> rows,
     cost |-> IF "cost" \in states THEN Cost[f.query.dataset] ELSE None,
     remaining |-> IF "quota" \in states THEN quota'.remaining ELSE None,
     number |-> quota'.readings, charged |-> quota'.charged]

\* A success replies with the balance it leaves.
LEMMA SucceedWrites ==
    ASSUME TypeOK, NEW f \in flight, Succeed(f)
    PROVE  /\ Runs(f) /\ quota' = Reading(f) /\ faults' = faults
           /\ \E rows \in {0, 1}, states \in Reports[f.by] :
                 Written(f, rows, states) \in Reply /\ Answer(f, Written(f, rows, states))
<1>1. Runs(f) /\ quota' = Reading(f) /\ faults' = faults
  BY DEF Succeed
<1>2. PICK rows \in {0, 1}, states \in Reports[f.by] : Answer(f, Written(f, rows, states))
  BY DEF Succeed, Written
<1>3. Written(f, rows, states) \in Reply
  <2>1. quota' \in [remaining: Nat, charged: Nat, readings: Nat] /\ Cost[f.query.dataset] \in Nat
    BY <1>1, ReadingType
  <2> QED BY <2>1 DEF Written, Reply
<1> QED BY <1>1, <1>2, <1>3

LEMMA SucceedType == TypeOK /\ (\E f \in flight : Succeed(f)) => TypeOK'
<1> SUFFICES ASSUME TypeOK, NEW f \in flight, Succeed(f) PROVE TypeOK'
  OBVIOUS
<1>1. PICK reply \in Reply : Answer(f, reply)
  BY SucceedWrites
<1>2. flight' \subseteq [by: Calls, query: Query, reply: Reply \cup {None}]
  BY <1>1, AnswerType
<1>3. quota' \in [remaining: Nat, charged: Nat, readings: Nat]
  BY SucceedWrites, ReadingType
<1>4. UNCHANGED <<now, calls, last, pending, journal, steps, asked, faults>>
  BY <1>1, SucceedWrites DEF Answer
<1> QED BY <1>2, <1>3, <1>4 DEF TypeOK, Observed

LEMMA FailType == TypeOK /\ (\E f \in flight : Fail(f)) => TypeOK'
<1> SUFFICES ASSUME TypeOK, NEW f \in flight, Fail(f) PROVE TypeOK'
  OBVIOUS
<1>1. PICK field \in Fields \cup {None} : Answer(f, Failed(field))
  <2>1. f.query \in Query
    BY FlightType
  <2>2. UnknownFields(f.query) \in SUBSET Fields
    BY <2>1, UnknownType
  <2> QED BY <2>2 DEF Fail
<1>2. flight' \subseteq [by: Calls, query: Query, reply: Reply \cup {None}]
  BY <1>1, FailedType, AnswerType
<1>3. faults' \in 0..MaxFaults
  BY FaultType DEF Fail, TypeOK
<1>4. UNCHANGED <<now, calls, last, pending, journal, steps, asked, quota>>
  BY <1>1 DEF Answer, Fail
<1> QED BY <1>2, <1>3, <1>4 DEF TypeOK, Observed

LEMMA LoseType == TypeOK /\ (\E f \in flight : Lose(f)) => TypeOK'
<1> SUFFICES ASSUME TypeOK, NEW f \in flight, Lose(f) PROVE TypeOK'
  OBVIOUS
<1>1. faults' \in 0..MaxFaults
  BY FaultType DEF Lose
<1>2. quota' \in [remaining: Nat, charged: Nat, readings: Nat]
  BY ReadingType DEF Lose, TypeOK
<1>3. flight' \subseteq flight /\ UNCHANGED <<now, calls, last, pending, journal, steps, asked>>
  BY DEF Lose
<1> QED BY <1>1, <1>2, <1>3 DEF TypeOK, Observed

LEMMA SpendType == TypeOK /\ SpendElsewhere => TypeOK'
<1> SUFFICES ASSUME TypeOK, SpendElsewhere PROVE TypeOK'
  OBVIOUS
<1>1. faults' \in 0..MaxFaults
  BY FaultType DEF SpendElsewhere
<1>2. quota' \in [remaining: Nat, charged: Nat, readings: Nat]
  <2>1. PICK units \in 1..quota.remaining : quota' = Charged(units)
    BY DEF SpendElsewhere
  <2>2. units \in Nat /\ quota.remaining >= units
    BY DEF TypeOK
  <2> QED BY <2>1, <2>2, ChargeType
<1>3. UNCHANGED <<now, calls, flight, last, pending, journal, steps, asked>>
  BY DEF SpendElsewhere
<1> QED BY <1>1, <1>2, <1>3 DEF TypeOK, Observed

LEMMA RenewType == TypeOK /\ Renew => TypeOK'
<1> SUFFICES ASSUME TypeOK, Renew PROVE TypeOK'
  OBVIOUS
<1>1. faults' \in 0..MaxFaults
  BY FaultType DEF Renew
<1>2. quota' \in [remaining: Nat, charged: Nat, readings: Nat]
  BY ObserversAssumption DEF Renew, TypeOK
<1>3. UNCHANGED <<now, calls, flight, last, pending, journal, steps, asked>>
  BY DEF Renew
<1> QED BY <1>1, <1>2, <1>3 DEF TypeOK, Observed

\* What an observation adds to the journal: enumeration confirmed with a pending
\* pair, or something else that only this query shows.
LEMMA NewObservations ==
    ASSUME TypeOK, Distinct(pending), NEW f \in flight, Observe(f),
           NEW o \in journal', o \notin journal
    PROVE  \/ /\ o.evidence = <<Len(asked) + 1>>
              /\ ~(o.kind = "enum_fields" /\ o.effect = "confirm")
           \/ /\ f.reply.rows > 0
              /\ \E e \in ToSet(pending) : ConfirmsWith(Runner(f), e, pending', o)
<1> DEFINE id == Len(asked) + 1
           key == EngagementOf[f.by]
           units == Units(f.reply, last[ProfileOf[f.by]])
           x == EnumObservations(Runner(f), pending)
           only == /\ o.evidence = <<id>> /\ ~(o.kind = "enum_fields" /\ o.effect = "confirm")
<1>1. journal' = journal \cup
              (CASE ~Active -> {}
                 [] Active /\ f.reply.error ->
                      FieldObservations(key, f.query, f.reply.unknown, id)
                 [] OTHER ->
                      CostObservation(key, f.query, units, id) \cup x.seen \cup
                      (IF f.query \in Discovering /\ f.reply.rows > 0
                       THEN CatalogObservations(key, f.query, id) ELSE {}))
  BY DEF Observe, CurrentCall, Runner
<1>2. Active \in BOOLEAN
  BY ObserversAssumption
<1>3. f.reply.error \in BOOLEAN
  BY ObservedOneMore DEF Reply
<1> HIDE DEF x, units, key
<1>4. o \in FieldObservations(key, f.query, f.reply.unknown, id) => only
  BY DEF FieldObservations, Observation
<1>5. o \in CostObservation(key, f.query, units, id) => only
  BY DEF CostObservation, Observation
<1>6. o \in CatalogObservations(key, f.query, id) => only
  BY DEF CatalogObservations, Observation
<1>7. ASSUME o \in x.seen, Active, ~f.reply.error
      PROVE  only \/ (f.reply.rows > 0 /\ \E e \in ToSet(pending) : ConfirmsWith(Runner(f), e, pending', o))
  <2>1. Sound(Runner(f), pending, x) /\ pending' = x.pairs
    BY <1>7, ObservedPairing DEF x
  <2>2. /\ Runner(f).rows > 0
        /\ Contradicts(Runner(f), o) \/ \E e \in ToSet(pending) : ConfirmsWith(Runner(f), e, pending', o)
    BY <1>7, <2>1 DEF Sound
  <2>3. Contradicts(Runner(f), o) => only
    BY DEF Contradicts, Shows, Observation, Runner
  <2>4. Runner(f).rows = f.reply.rows
    BY DEF Runner
  <2> QED BY <2>2, <2>3, <2>4
<1> HIDE DEF only
<1>8. only \/ (f.reply.rows > 0 /\ \E e \in ToSet(pending) : ConfirmsWith(Runner(f), e, pending', o))
  <2>1. CASE ~Active
    BY <2>1, <1>1
  <2>2. CASE Active /\ f.reply.error
    BY <2>2, <1>1, <1>4
  <2>3. CASE Active /\ ~f.reply.error
    <3>1. \/ o \in CostObservation(key, f.query, units, id) \/ o \in x.seen
          \/ o \in CatalogObservations(key, f.query, id)
      BY <2>3, <1>1
    <3> QED BY <3>1, <2>3, <1>5, <1>6, <1>7
  <2> QED BY <2>1, <2>2, <2>3, <1>2, <1>3
<1> QED BY <1>8 DEF only

\* What a confirmation says.
LEMMA ConfirmsMeans ==
    ASSUME NEW run, NEW e, NEW left, NEW o, ConfirmsWith(run, e, left, o)
    PROVE  \E i \in FilterClauses(run.query) :
        /\ run.query.stages[i].clause.op = "contains"
        /\ e.key = PairKey(run.engagement, FilterClause(run.query, i))
        /\ run.at - e.seen <= TTL
        /\ o = [kind |-> "enum_fields", effect |-> "confirm", engagement |-> run.engagement,
                dataset |-> run.query.dataset, fact |-> e.key.field, evidence |-> <<e.id, run.id>>]
        /\ \A k \in DOMAIN left : left[k].key # e.key
BY DEF ConfirmsWith, Shows, Observation, PairKey

\* Observing keeps the types: ids are those observed, pairs within their bound.
LEMMA ObserveType ==
    ASSUME TypeOK, Distinct(pending), NEW f \in flight, Observe(f)
    PROVE  TypeOK'
<1> DEFINE n == Len(asked)
           u == Units(f.reply, last[ProfileOf[f.by]])
<1>0. /\ f.reply \in Reply /\ now' \in now..MaxTime /\ now \in Nat /\ now' \in Nat
      /\ asked' = Append(asked, Entry(f)) /\ Entry(f).units \in Figure
      /\ Entry(f) \in Entries'
      /\ n \in Nat /\ Len(asked') = n + 1
      /\ Observed = 1..n /\ Observed' = Observed \cup {n + 1}
      /\ \A i \in Observed : asked'[i] = asked[i] /\ i # n + 1
      /\ Runner(f) \in Run
  BY ObservedOneMore
<1>1. /\ f.by \in Calls /\ ProfileOf[f.by] \in Profiles
  BY FlightType
<1>2. now' \in 0..MaxTime
  <2>1. MaxTime \in Nat
    BY ObserversAssumption
  <2> QED BY <2>1, <1>0
<1>3. calls' \in [Calls -> [pc: {"running", "ended"}, query_ids: Seq(Observed'), units: Seq(Nat)]]
  <2>1. calls' = [calls EXCEPT ![f.by].query_ids = Append(@, n + 1),
                               ![f.by].units = IF u.units = None THEN @ ELSE Append(@, u.units)]
    BY DEF Observe, CurrentCall
  <2>2. u \in Figure
    BY <1>0 DEF Entry
  <2>3. u.units \in Nat \cup {None}
    BY <2>2 DEF Figure
  <2>4. \A c \in Calls : calls[c] \in [pc: {"running", "ended"}, query_ids: Seq(Observed), units: Seq(Nat)]
    BY DEF TypeOK
  <2>5. \A s \in Seq(Observed) : s \in Seq(Observed') /\ Append(s, n + 1) \in Seq(Observed')
    <3> TAKE s \in Seq(Observed)
    <3>1. Observed \subseteq Observed' /\ n + 1 \in Observed'
      BY <1>0
    <3>2. s \in Seq(Observed')
      BY <3>1
    <3> QED BY <3>1, <3>2
  <2>6. \A s \in Seq(Nat) : u.units # None => Append(s, u.units) \in Seq(Nat)
    BY <2>3
  <2> HIDE DEF n, u
  <2>7. \A c \in Calls : calls[c] \in [pc: {"running", "ended"}, query_ids: Seq(Observed'), units: Seq(Nat)]
    BY <2>4, <2>5
  <2>8. DOMAIN calls = Calls
    BY DEF TypeOK
  <2> DEFINE own == [calls[f.by] EXCEPT !.query_ids = Append(calls[f.by].query_ids, n + 1),
               !.units = IF u.units = None THEN calls[f.by].units ELSE Append(calls[f.by].units, u.units)]
  <2>9. calls' = [calls EXCEPT ![f.by] = own]
    <3>1. calls[f.by] = [pc |-> calls[f.by].pc, query_ids |-> calls[f.by].query_ids,
                         units |-> calls[f.by].units]
      BY <2>4, <1>1
    <3> QED BY <2>1, <2>8, <1>1, <3>1
  <2>10. own \in [pc: {"running", "ended"}, query_ids: Seq(Observed'), units: Seq(Nat)]
    BY <2>4, <2>5, <2>6, <1>1
  <2> HIDE DEF Observed, own
  <2>11. calls \in [Calls -> [pc: {"running", "ended"}, query_ids: Seq(Observed'), units: Seq(Nat)]]
    <3>1. calls = [c \in Calls |-> calls[c]]
      BY DEF TypeOK
    <3> QED BY <3>1, <2>7
  <2> DEFINE R == [pc: {"running", "ended"}, query_ids: Seq(Observed'), units: Seq(Nat)]
  <2>12. calls \in [Calls -> R] /\ own \in R /\ calls' = [calls EXCEPT ![f.by] = own]
    BY <2>9, <2>10, <2>11
  <2> HIDE DEF R
  <2>13. calls' \in [Calls -> R]
    BY <2>12
  <2> QED BY <2>13 DEF R
<1>4. flight' \subseteq [by: Calls, query: Query, reply: Reply \cup {None}]
  BY DEF Observe, TypeOK
<1>5. last' \in [Profiles -> Nat \cup {None}]
  <2>1. last' = [last EXCEPT ![ProfileOf[f.by]] = KeepReading(@, f.reply)]
    BY DEF Observe
  <2>2. last[ProfileOf[f.by]] \in Nat \cup {None} /\ f.reply.remaining \in Nat \cup {None}
    BY <1>0, <1>1 DEF TypeOK, Reply
  <2>3. KeepReading(last[ProfileOf[f.by]], f.reply) \in Nat \cup {None}
    BY <2>2 DEF KeepReading
  <2> QED BY <2>1, <2>3 DEF TypeOK
<1>6. pending' \in Seq(PendingPair') /\ Len(pending') <= MaxPending
  <2>1. pending \in Seq(PendingPair) /\ Len(pending) <= MaxPending
    BY DEF TypeOK, Keys, PendingPair
  <2>2. PendingPair \subseteq PendingPair'
    BY <1>0 DEF PendingPair
  <2>3. CASE ~(Active /\ ~f.reply.error)
    <3>1. pending' = pending
      BY <2>3, ObservedPairing
    <3>2. pending \in Seq(PendingPair')
      BY <2>1, <2>2, MemberOfSeq, SeqOfOthers
    <3> QED BY <2>1, <3>1, <3>2
  <2>4. CASE Active /\ ~f.reply.error
    <3>1. /\ pending' \in Seq(PairSet) /\ Len(pending') <= MaxPending
          /\ From(pending', ToSet(pending) \cup Asked(Runner(f)))
      BY <2>4, ObservedPairing DEF Sound, From
    <3>2. ToSet(pending) \subseteq PendingPair'
      BY <2>1, <2>2, MemberOfSeq, SeqOfOthers
    <3>3. Asked(Runner(f)) \subseteq PendingPair'
      <4>1. Runner(f).id \in Observed' /\ Runner(f).at \in 0..now'
        BY <1>0 DEF Runner
      <4> QED BY <4>1 DEF Asked, PendingPair
    <3>4. \A k \in DOMAIN pending' : pending'[k] \in PendingPair'
      BY <3>1, <3>2, <3>3 DEF From
    <3> QED BY <3>1, <3>4, SeqOfOthers
  <2> QED BY <2>3, <2>4
<1>7. ASSUME NEW o \in journal' PROVE ToSet(o.evidence) \subseteq Observed'
  <2>1. CASE o \in journal
    BY <2>1, <1>0 DEF TypeOK
  <2>2. CASE o \notin journal /\ o.evidence = <<n + 1>>
    BY <2>2, <1>0 DEF ToSet
  <2>3. CASE \E e \in ToSet(pending) : ConfirmsWith(Runner(f), e, pending', o)
    <3>1. PICK e \in ToSet(pending) : ConfirmsWith(Runner(f), e, pending', o)
      BY <2>3
    <3>2. o.evidence = <<e.id, Runner(f).id>>
      BY <3>1, ConfirmsMeans
    <3>3. e.id \in Observed
      <4>1. pending \in Seq(PendingPair)
        BY DEF TypeOK, Keys, PendingPair
      <4>2. PICK k \in DOMAIN pending : e = pending[k]
        BY <3>1 DEF ToSet
      <4>3. e \in PendingPair
        BY <4>1, <4>2, MemberOfSeq
      <4> QED BY <4>3 DEF PendingPair
    <3>4. Runner(f).id = n + 1
      BY DEF Runner
    <3> QED BY <3>2, <3>3, <3>4, <1>0 DEF ToSet
  <2> QED BY <2>1, <2>2, <2>3, NewObservations
<1>8. asked' \in Seq(Entries')
  <2>1. asked \in Seq(Entries)
    BY DEF TypeOK, Entries
  <2>2. Entries \subseteq Entries'
    BY <1>0 DEF Entries
  <2>3. asked \in Seq(Entries')
    BY <2>1, <2>2, MemberOfSeq, SeqOfOthers
  <2> QED BY <2>3, <1>0
<1>9. UNCHANGED <<steps, quota, faults>>
  BY DEF Observe
<1> HIDE DEF n, u
<1> QED BY <1>2, <1>3, <1>4, <1>5, <1>6, <1>7, <1>8, <1>9 DEF TypeOK, Keys, PendingPair, Entries

(***************************************************************************)
(* Calls and their steps                                                   *)
(***************************************************************************)

\* Only an observation writes the pairs, the journal and the history.
LEMMA OnlyObserve ==
    [Next]_vars =>
        (\E f \in flight : Observe(f)) \/ UNCHANGED <<now, last, pending, journal, asked>>
BY DEF Next, vars, Ask, End, Cancel, Succeed, Fail, Answer, Lose, SpendElsewhere, Renew

\* What other steps do to calls.
LEMMA CallsStay ==
    ASSUME TypeOK, [Next]_vars, ~(\E f \in flight : Observe(f)), NEW c \in Calls
    PROVE  /\ calls'[c].query_ids = calls[c].query_ids /\ calls'[c].units = calls[c].units
           /\ calls[c].pc = "ended" => calls'[c].pc = "ended"
<1>1. calls \in [Calls -> [pc: {"running", "ended"}, query_ids: Seq(Observed), units: Seq(Nat)]]
  BY DEF TypeOK
<1>2. ASSUME NEW d \in Calls, calls' = [calls EXCEPT ![d].pc = "ended"]
      PROVE  /\ calls'[c].query_ids = calls[c].query_ids /\ calls'[c].units = calls[c].units
             /\ calls[c].pc = "ended" => calls'[c].pc = "ended"
  BY <1>1, <1>2
<1>3. (\E d \in Calls : calls' = [calls EXCEPT ![d].pc = "ended"]) \/ calls' = calls
  BY DEF Next, vars, Ask, End, Cancel, Succeed, Fail, Answer, Lose, SpendElsewhere, Renew
<1> QED BY <1>2, <1>3

\* An observation gives its own call the next id, and its units if known.
LEMMA ObservedCall ==
    ASSUME TypeOK, NEW f \in flight, Observe(f)
    PROVE  /\ f.by \in Calls
           /\ calls'[f.by].query_ids = Append(calls[f.by].query_ids, Len(asked) + 1)
           /\ calls'[f.by].units = IF Entry(f).units.units = None THEN calls[f.by].units
                                   ELSE Append(calls[f.by].units, Entry(f).units.units)
           /\ calls'[f.by].pc = calls[f.by].pc
           /\ \A d \in Calls \ {f.by} : calls'[d] = calls[d]
<1>1. calls \in [Calls -> [pc: {"running", "ended"}, query_ids: Seq(Observed), units: Seq(Nat)]]
  BY DEF TypeOK
<1>2. f.by \in Calls
  BY FlightType
<1>3. Entry(f).units = Units(f.reply, last[ProfileOf[f.by]])
  BY DEF Entry
<1>4. calls' = [calls EXCEPT ![f.by].query_ids = Append(@, Len(asked) + 1),
                             ![f.by].units = IF Entry(f).units.units = None THEN @
                                             ELSE Append(@, Entry(f).units.units)]
  BY <1>3 DEF Observe, CurrentCall
<1> DEFINE u == Entry(f).units.units
           n == Len(asked) + 1
<1> HIDE DEF u, n
<1> QED BY <1>1, <1>2, <1>4 DEF u, n

\* A call ends only with nothing of it in flight.
LEMMA RunningStep == TypeOK /\ FlightIsRunning /\ [Next]_vars => FlightIsRunning'
<1> SUFFICES ASSUME TypeOK, FlightIsRunning, [Next]_vars PROVE FlightIsRunning'
  OBVIOUS
<1>1. ASSUME NEW c \in Calls, Ask(c) PROVE FlightIsRunning'
  BY <1>1 DEF Ask, FlightIsRunning
<1>2. ASSUME NEW c \in Calls, End(c) PROVE FlightIsRunning'
  <2>1. \A f \in flight : f.by # c /\ f.by \in Calls
    BY <1>2, FlightType DEF End, InFlight
  <2>2. calls' = [calls EXCEPT ![c].pc = "ended"] /\ flight' = flight /\ DOMAIN calls = Calls
    BY <1>2 DEF End, TypeOK
  <2> QED BY <2>1, <2>2 DEF FlightIsRunning
<1>3. ASSUME NEW c \in Calls, Cancel(c) PROVE FlightIsRunning'
  <2>1. /\ calls' = [calls EXCEPT ![c].pc = "ended"] /\ DOMAIN calls = Calls
        /\ flight' = {f \in flight : f.by # c}
    BY <1>3 DEF Cancel, TypeOK
  <2>2. \A f \in flight : f.by \in Calls
    BY FlightType
  <2> QED BY <2>1, <2>2 DEF FlightIsRunning
<1>4. ASSUME NEW f \in flight, NEW reply, Answer(f, reply) PROVE FlightIsRunning'
  <2>1. [f EXCEPT !.reply = reply].by = f.by
    BY FlightType
  <2> QED BY <1>4, <2>1 DEF Answer, FlightIsRunning
<1>5. ASSUME NEW f \in flight, Lose(f) PROVE FlightIsRunning'
  BY <1>5 DEF Lose, FlightIsRunning
<1>6. ASSUME NEW f \in flight, Observe(f) PROVE FlightIsRunning'
  <2>1. flight' = flight \ {f}
    BY <1>6 DEF Observe
  <2>2. \A g \in flight : g.by \in Calls /\ calls'[g.by].pc = calls[g.by].pc
    <3> TAKE g \in flight
    <3>1. g.by \in Calls
      BY FlightType
    <3>2. CASE g.by = f.by
      BY <1>6, <3>2, ObservedCall
    <3>3. CASE g.by # f.by
      BY <1>6, <3>1, <3>3, ObservedCall
    <3> QED BY <3>1, <3>2, <3>3
  <2> QED BY <2>1, <2>2 DEF FlightIsRunning
<1>7. ASSUME SpendElsewhere \/ Renew PROVE FlightIsRunning'
  BY <1>7 DEF SpendElsewhere, Renew, FlightIsRunning
<1>8. ASSUME UNCHANGED vars PROVE FlightIsRunning'
  BY <1>8 DEF vars, FlightIsRunning
<1>9. ASSUME NEW f \in flight, Succeed(f) \/ Fail(f) PROVE FlightIsRunning'
  <2>1. \E reply : Answer(f, reply)
    BY <1>9 DEF Succeed, Fail
  <2> QED BY <2>1, <1>4
<1> QED BY <1>1, <1>2, <1>3, <1>5, <1>6, <1>7, <1>8, <1>9 DEF Next

\* A call's own queries, and its units, after a query of its own or another's.
LEMMA OwnOneMore ==
    ASSUME TypeOK, NEW f \in flight, Observe(f), NEW c \in Calls
    PROVE  /\ Own(c)' = IF c = f.by THEN Own(c) \cup {Len(asked) + 1} ELSE Own(c)
           /\ \A i \in Observed : UnitsOfQuery'[i] = UnitsOfQuery[i]
           /\ UnitsOfQuery'[Len(asked) + 1] = Entry(f).units.units
<1>1. /\ Observed' = Observed \cup {Len(asked) + 1} /\ asked'[Len(asked) + 1] = Entry(f)
      /\ \A i \in Observed : asked'[i] = asked[i] /\ i # Len(asked) + 1
  BY ObservedOneMore
<1>2. Entry(f).by = f.by
  BY DEF Entry
<1> HIDE DEF Observed
<1>3. Own(c)' = IF c = f.by THEN Own(c) \cup {Len(asked) + 1} ELSE Own(c)
  BY <1>1, <1>2 DEF Own
<1>4. \A i \in Observed' : UnitsOfQuery'[i] = asked'[i].units.units
  BY DEF UnitsOfQuery
<1>5. \A i \in Observed : UnitsOfQuery[i] = asked[i].units.units
  BY DEF UnitsOfQuery
<1> QED BY <1>1, <1>3, <1>4, <1>5

\* The observation of each call stays its own whatever the calls interleave.
LEMMA CallsStep == TypeOK /\ CallsAreOwn /\ [Next]_vars => CallsAreOwn'
<1> SUFFICES ASSUME TypeOK, CallsAreOwn, [Next]_vars PROVE CallsAreOwn'
  OBVIOUS
<1> DEFINE Mine(c) ==
        /\ ToSet(calls[c].query_ids) = Own(c) /\ Ascending(calls[c].query_ids)
        /\ Len(calls[c].units) <= Len(calls[c].query_ids)
        /\ Len(calls[c].units) = Len(calls[c].query_ids) <=> Known(Own(c))
        /\ Known(Own(c)) => Total(calls[c].units, Len(calls[c].units))
                              = Over(UnitsOfQuery, Own(c), Len(asked))
<1> SUFFICES ASSUME NEW c \in Calls PROVE Mine(c)'
  BY DEF CallsAreOwn
<1>0. Mine(c)
  BY DEF CallsAreOwn
<1>1. CASE ~(\E f \in flight : Observe(f))
  <2>1. asked' = asked
    BY <1>1, OnlyObserve
  <2>2. calls'[c].query_ids = calls[c].query_ids /\ calls'[c].units = calls[c].units
    BY <1>1, CallsStay
  <2>3. UnitsOfQuery' = UnitsOfQuery /\ Own(c)' = Own(c)
    BY <2>1 DEF UnitsOfQuery, Own, Observed
  <2>4. Known(Own(c))' <=> Known(Own(c))
    BY <2>3 DEF Known
  <2> QED BY <1>0, <2>1, <2>2, <2>3, <2>4 DEF Ascending
<1>2. ASSUME NEW f \in flight, Observe(f) PROVE Mine(c)'
  <2> DEFINE n == Len(asked)
             u == Entry(f).units.units
             ids == calls[c].query_ids
             units == calls[c].units
  <2>1. /\ Own(c)' = IF c = f.by THEN Own(c) \cup {n + 1} ELSE Own(c)
        /\ \A i \in Observed : UnitsOfQuery'[i] = UnitsOfQuery[i]
        /\ UnitsOfQuery'[n + 1] = u
    BY <1>2, OwnOneMore
  <2>2. /\ n \in Nat /\ Len(asked') = n + 1 /\ Observed = 1..n /\ u \in Nat \cup {None}
        /\ Own(c) \subseteq Observed
    <3>1. Entry(f).units \in Figure /\ n \in Nat /\ Len(asked') = n + 1 /\ Observed = 1..n
      BY <1>2, ObservedOneMore
    <3>2. u \in Nat \cup {None}
      BY <3>1 DEF Figure
    <3> QED BY <3>1, <3>2 DEF Own
  <2>3. /\ ids \in Seq(Observed) /\ units \in Seq(Nat) /\ Len(ids) \in Nat /\ Len(units) \in Nat
    BY DEF TypeOK
  <2>4. /\ ToSet(ids) = Own(c) /\ Ascending(ids) /\ Len(units) <= Len(ids)
        /\ Len(units) = Len(ids) <=> Known(Own(c))
        /\ Known(Own(c)) => Total(units, Len(units)) = Over(UnitsOfQuery, Own(c), n)
    BY <1>0
  <2>5. Over(UnitsOfQuery', Own(c)', n + 1)
          = Over(UnitsOfQuery, Own(c), n) + (IF n + 1 \in Own(c)' THEN u ELSE 0)
    <3>1. \A i \in 1..n : (i \in Own(c) <=> i \in Own(c)') /\ (i \in Own(c) => UnitsOfQuery'[i] = UnitsOfQuery[i])
      BY <2>1, <2>2
    <3> HIDE DEF u, n
    <3> DEFINE w == UnitsOfQuery
               v == UnitsOfQuery'
               S == Own(c)
               T == Own(c)'
    <3>2. \A i \in 1..n : (i \in S <=> i \in T) /\ (i \in S => v[i] = w[i])
      BY <3>1
    <3>3. v[n + 1] = u /\ n \in Nat
      BY <2>1, <2>2
    <3> HIDE DEF w, v, S, T
    <3>4. Over(v, T, n + 1) = Over(w, S, n) + (IF n + 1 \in T THEN v[n + 1] ELSE 0)
      BY <3>2, <3>3, OverOneMore
    <3> QED BY <3>3, <3>4 DEF w, v, S, T
  <2>6. /\ \A i \in Own(c) : i # n + 1 /\ UnitsOfQuery'[i] = UnitsOfQuery[i]
    BY <2>1, <2>2
  <2>7. CASE c # f.by
    <3>1. calls'[c] = calls[c] /\ Own(c)' = Own(c) /\ n + 1 \notin Own(c)'
      BY <1>2, <2>1, <2>2, <2>7, ObservedCall
    <3>2. Known(Own(c))' <=> Known(Own(c))
      BY <3>1, <2>6 DEF Known
    <3>3. Known(Own(c)) => Over(UnitsOfQuery, Own(c), n) \in Nat
      <4>1. ASSUME Known(Own(c)) PROVE \A i \in 1..n : i \in Own(c) => UnitsOfQuery[i] \in Nat
        <5> TAKE i \in 1..n
        <5> HAVE i \in Own(c)
        <5>1. asked[i] \in Entries /\ i \in Observed
          BY <2>2, MemberOfSeq DEF TypeOK, Entries, Observed
        <5>2. asked[i].units \in Figure /\ UnitsOfQuery[i] = asked[i].units.units
          BY <5>1 DEF Entries, UnitsOfQuery
        <5>3. UnitsOfQuery[i] # None
          BY <4>1 DEF Known
        <5> QED BY <5>2, <5>3 DEF Figure
      <4> HIDE DEF n
      <4> QED BY <4>1, <2>2, OverType
    <3>4. Known(Own(c)) => Over(UnitsOfQuery', Own(c)', n + 1) = Over(UnitsOfQuery, Own(c), n)
      BY <2>5, <3>1, <3>3
    <3> QED BY <2>2, <2>4, <3>1, <3>2, <3>4 DEF Ascending
  <2>8. CASE c = f.by
    <3>1. /\ calls'[c].query_ids = Append(ids, n + 1) /\ Own(c)' = Own(c) \cup {n + 1}
          /\ calls'[c].units = IF u = None THEN units ELSE Append(units, u)
      BY <1>2, <2>1, <2>8, ObservedCall
    <3> HIDE DEF n, u, ids, units
    <3>2. /\ Len(Append(ids, n + 1)) = Len(ids) + 1 /\ Append(ids, n + 1)[Len(ids) + 1] = n + 1
          /\ \A k \in 1..Len(ids) : Append(ids, n + 1)[k] = ids[k] /\ ids[k] \in 1..n
          /\ DOMAIN Append(ids, n + 1) = 1..(Len(ids) + 1) /\ DOMAIN ids = 1..Len(ids)
      BY <2>2, <2>3
    <3>3. ToSet(Append(ids, n + 1)) = Own(c) \cup {n + 1}
      <4>1. ToSet(Append(ids, n + 1)) = ToSet(ids) \cup {n + 1}
        BY <2>3, SetOfAppended
      <4> QED BY <4>1, <2>4
    <3>4. Ascending(Append(ids, n + 1))
      <4> SUFFICES ASSUME NEW m \in 1..(Len(ids) + 1), NEW k \in 1..(Len(ids) + 1), m < k
                   PROVE  Append(ids, n + 1)[m] < Append(ids, n + 1)[k]
        BY <3>2 DEF Ascending
      <4>1. m \in 1..Len(ids)
        BY <2>3
      <4>2. CASE k \in 1..Len(ids)
        BY <4>1, <4>2, <3>2, <2>4 DEF Ascending
      <4>3. CASE k = Len(ids) + 1
        BY <4>1, <4>3, <3>2, <2>2
      <4> QED BY <4>2, <4>3, <2>3
    <3>5. Known(Own(c))' <=> Known(Own(c)) /\ u # None
      BY <3>1, <2>1, <2>6 DEF Known
    <3>6. CASE u = None
      <4>1. calls'[c].units = units /\ ~Known(Own(c))' /\ Len(units) <= Len(ids) + 1
            /\ Len(units) # Len(ids) + 1
        BY <3>6, <3>1, <3>5, <2>3, <2>4
      <4> QED BY <3>1, <3>2, <3>3, <3>4, <4>1
    <3>7. CASE u # None
      <4>1. calls'[c].units = Append(units, u) /\ u \in Nat
        BY <3>7, <3>1, <2>2
      <4>2. /\ Len(Append(units, u)) = Len(units) + 1 /\ Append(units, u)[Len(units) + 1] = u
            /\ \A k \in 1..Len(units) : units[k] = Append(units, u)[k]
        BY <4>1, <2>3
      <4>3. Total(Append(units, u), Len(units) + 1) = Total(units, Len(units)) + u
        <5> DEFINE v == Append(units, u)
                   m == Len(units)
        <5>1. v[m + 1] = u /\ m \in Nat /\ \A k \in 1..m : units[k] = v[k]
          BY <4>2, <2>3
        <5> HIDE DEF v, m
        <5>2. Total(v, m + 1) = Total(units, m) + v[m + 1]
          BY <5>1, SumOfOneMore
        <5> QED BY <5>1, <5>2 DEF v, m
      <4>4. Len(units) + 1 <= Len(ids) + 1
            /\ (Len(units) + 1 = Len(ids) + 1 <=> Known(Own(c))')
        BY <2>3, <2>4, <3>5, <3>7
      <4>5. Known(Own(c))' => Total(Append(units, u), Len(units) + 1)
                               = Over(UnitsOfQuery', Own(c)', n + 1)
        BY <2>4, <2>5, <3>1, <3>5, <4>3
      <4> QED BY <2>2, <3>1, <3>2, <3>3, <3>4, <4>1, <4>2, <4>4, <4>5 DEF n
    <3> QED BY <3>6, <3>7
  <2> QED BY <2>7, <2>8
<1> QED BY <1>1, <1>2

\* A step stays what its ended call had observed.
LEMMA StepsStep ==
    TypeOK /\ FlightIsRunning /\ StepsAreLast /\ [Next]_vars => StepsAreLast'
<1> SUFFICES ASSUME TypeOK, FlightIsRunning, StepsAreLast, [Next]_vars PROVE StepsAreLast'
  OBVIOUS
<1> DEFINE LastOf(s) == /\ calls[s.by].pc = "ended"
                      /\ s.query_ids = calls[s.by].query_ids /\ s.units = StepUnits(calls[s.by])
<1>1. ASSUME NEW s \in steps PROVE LastOf(s)'
  <2>1. s.by \in Calls /\ LastOf(s)
    BY DEF TypeOK, StepsAreLast
  <2>2. CASE ~(\E f \in flight : Observe(f))
    <3>1. /\ calls'[s.by].query_ids = calls[s.by].query_ids /\ calls'[s.by].units = calls[s.by].units
          /\ calls'[s.by].pc = "ended"
      BY <2>1, <2>2, CallsStay
    <3> QED BY <2>1, <3>1 DEF StepUnits
  <2>3. ASSUME NEW f \in flight, Observe(f) PROVE LastOf(s)'
    <3>1. s.by # f.by
      BY <2>1 DEF FlightIsRunning
    <3>2. calls'[s.by] = calls[s.by]
      BY <2>1, <2>3, <3>1, ObservedCall
    <3> QED BY <2>1, <3>2
  <2> QED BY <2>2, <2>3
<1>2. ASSUME NEW c \in Calls, End(c), NEW s, s = Step(c) PROVE LastOf(s)'
  <2>1. calls' = [calls EXCEPT ![c].pc = "ended"]
        /\ calls \in [Calls -> [pc: {"running", "ended"}, query_ids: Seq(Observed), units: Seq(Nat)]]
    BY <1>2 DEF End, TypeOK
  <2>2. /\ calls'[c].pc = "ended" /\ calls'[c].query_ids = calls[c].query_ids
        /\ calls'[c].units = calls[c].units
    BY <2>1
  <2>3. StepUnits(calls'[c]) = StepUnits(calls[c])
    BY <2>2 DEF StepUnits
  <2> QED BY <1>2, <2>2, <2>3 DEF Step
<1>3. \/ steps' = steps \/ \E c \in Calls : End(c) /\ steps' = steps \cup {Step(c)}
  BY DEF Next, vars, Ask, End, Cancel, Succeed, Fail, Answer, Lose, Observe, SpendElsewhere, Renew
<1> HIDE DEF LastOf
<1>4. \A s \in steps' : LastOf(s)'
  BY <1>1, <1>2, <1>3
<1> QED BY <1>4 DEF StepsAreLast, LastOf

\* What the steps are makes StepsAreOwn true.
LEMMA StepsFollow == TypeOK /\ CallsAreOwn /\ StepsAreLast => StepsAreOwn
<1> SUFFICES ASSUME TypeOK, CallsAreOwn, StepsAreLast, NEW s \in steps
             PROVE  /\ ToSet(s.query_ids) = Own(s.by) /\ Ascending(s.query_ids)
                    /\ s.units = IF \E i \in ToSet(s.query_ids) : UnitsOfQuery[i] = None THEN None
                                 ELSE Over(UnitsOfQuery, ToSet(s.query_ids), Len(asked))
  BY DEF StepsAreOwn, Own, Ascending
<1> DEFINE call == calls[s.by]
<1>1. s.by \in Calls /\ s.query_ids = call.query_ids /\ s.units = StepUnits(call)
  BY DEF TypeOK, StepsAreLast
<1>2. /\ ToSet(call.query_ids) = Own(s.by) /\ Ascending(call.query_ids)
      /\ Len(call.units) = Len(call.query_ids) <=> Known(Own(s.by))
      /\ Known(Own(s.by)) => Total(call.units, Len(call.units))
                               = Over(UnitsOfQuery, Own(s.by), Len(asked))
  BY <1>1 DEF CallsAreOwn
<1>3. StepUnits(call) = IF Known(Own(s.by)) THEN Over(UnitsOfQuery, Own(s.by), Len(asked)) ELSE None
  BY <1>2 DEF StepUnits
<1> QED BY <1>1, <1>2, <1>3 DEF Known

(***************************************************************************)
(* Replies and drops                                                       *)
(***************************************************************************)

\* An entry of the history.
LEMMA EntryOf ==
    ASSUME TypeOK, NEW i \in Observed
    PROVE  /\ asked[i].by \in Calls /\ asked[i].query \in Query /\ asked[i].reply \in Reply
           /\ asked[i].units \in Figure /\ asked[i].at \in 0..now
<1>1. asked \in Seq(Entries) /\ i \in DOMAIN asked
  BY DEF TypeOK, Entries, Observed
<1>2. asked[i] \in Entries
  BY <1>1, MemberOfSeq
<1> QED BY <1>2 DEF Entries

\* A stated reply has its numbers.
LEMMA StatedType ==
    ASSUME TypeOK, NEW r \in Stated
    PROVE  r \in Reply /\ r.remaining \in Nat /\ r.charged \in Nat /\ r.number \in Nat
<1>1. r.remaining # None /\ r \in Reply
  <2>1. CASE \E f \in flight : r = f.reply /\ f.reply # None /\ States(f)
    BY <2>1, FlightType DEF States
  <2>2. CASE \E i \in Observed : r = asked[i].reply /\ States(asked[i])
    BY <2>2, EntryOf DEF States
  <2> QED BY <2>1, <2>2 DEF Stated
<1> QED BY <1>1 DEF Reply

\* What charging and renewing do to the figures.
QuotaGrows ==
    /\ quota.readings <= quota'.readings /\ quota.charged <= quota'.charged
    /\ quota.remaining + quota.charged <= quota'.remaining + quota'.charged

\* Replies stay ordered when none is new and the quota only grows.
LEMMA RepliesKept ==
    ASSUME TypeOK, TypeOK', RepliesAreOrdered, QuotaGrows,
           Stated' \subseteq Stated
    PROVE  RepliesAreOrdered'
<1>1. /\ quota.readings \in Nat /\ quota.charged \in Nat /\ quota.remaining \in Nat
      /\ quota'.readings \in Nat /\ quota'.charged \in Nat /\ quota'.remaining \in Nat
  BY DEF TypeOK
<1>2. ASSUME NEW r \in Stated
      PROVE  /\ r.number \in 1..quota'.readings
             /\ r.charged <= quota'.charged
             /\ r.remaining + r.charged <= quota'.remaining + quota'.charged
  <2>1. r.remaining \in Nat /\ r.charged \in Nat /\ r.number \in Nat
    BY StatedType
  <2>2. /\ r.number \in 1..quota.readings
        /\ r.charged <= quota.charged
        /\ r.remaining + r.charged <= quota.remaining + quota.charged
    BY DEF RepliesAreOrdered
  <2> QED BY <1>1, <2>1, <2>2 DEF QuotaGrows
<1>3. \A r, s \in Stated : Ordered(r, s)
  BY DEF RepliesAreOrdered
<1> HIDE DEF Stated
<1> QED BY <1>2, <1>3 DEF RepliesAreOrdered, Ordered

\* The same quota has grown by nothing.
LEMMA QuotaStays ==
    ASSUME TypeOK, quota' = quota PROVE QuotaGrows
<1>1. /\ quota.readings \in Nat /\ quota.charged \in Nat /\ quota.remaining \in Nat
  BY DEF TypeOK
<1> QED BY <1>1 DEF QuotaGrows

\* Charging moves units from what remains to what was charged.
LEMMA ChargedGrows ==
    ASSUME TypeOK, NEW f \in flight, Runs(f), quota' = Reading(f)
    PROVE  QuotaGrows
<1> DEFINE k == Cost[f.query.dataset]
<1>1. /\ k \in Nat /\ quota'.remaining = quota.remaining - k
      /\ quota'.charged = quota.charged + k /\ quota'.readings = quota.readings + 1
  BY ReadingType
<1>2. quota.readings \in Nat /\ quota.charged \in Nat /\ quota.remaining \in Nat
  BY DEF TypeOK
<1> HIDE DEF k
<1> QED BY <1>1, <1>2 DEF QuotaGrows

LEMMA SpendGrows == ASSUME TypeOK, SpendElsewhere PROVE QuotaGrows
<1>1. PICK units \in 1..quota.remaining : quota' = Charged(units)
  BY DEF SpendElsewhere
<1>2. quota.readings \in Nat /\ quota.charged \in Nat /\ quota.remaining \in Nat
  BY DEF TypeOK
<1>3. units \in Nat /\ quota.remaining >= units
  BY <1>2
<1>4. /\ quota'.remaining = quota.remaining - units /\ quota'.charged = quota.charged + units
      /\ quota'.readings = quota.readings
  BY <1>1, <1>3, ChargeType
<1> QED BY <1>2, <1>3, <1>4 DEF QuotaGrows

\* A step without a new reply.
LEMMA FewerStated ==
    ASSUME NEW left, left \subseteq flight, flight' = left, asked' = asked
    PROVE  Stated' \subseteq Stated
BY DEF Stated, States, Observed

\* Every step keeps the readings in order.
LEMMA RepliesStep == TypeOK /\ TypeOK' /\ RepliesAreOrdered /\ [Next]_vars => RepliesAreOrdered'
<1> SUFFICES ASSUME TypeOK, TypeOK', RepliesAreOrdered, [Next]_vars PROVE RepliesAreOrdered'
  OBVIOUS
<1>1. ASSUME NEW c \in Calls, Ask(c) PROVE RepliesAreOrdered'
  <2>1. PICK query : flight' = flight \cup {[by |-> c, query |-> query, reply |-> None]}
    BY <1>1 DEF Ask
  <2>2. Stated' \subseteq Stated
    BY <1>1, <2>1 DEF Stated, States, Ask, Observed
  <2>3. QuotaGrows
    BY <1>1, QuotaStays DEF Ask
  <2> QED BY <2>2, <2>3, RepliesKept
<1>2. ASSUME NEW c \in Calls, End(c) \/ Cancel(c) PROVE RepliesAreOrdered'
  <2>1. flight' \subseteq flight /\ asked' = asked /\ quota' = quota
    BY <1>2 DEF End, Cancel
  <2> QED BY <2>1, FewerStated, QuotaStays, RepliesKept
<1>3. ASSUME NEW f \in flight, Succeed(f) PROVE RepliesAreOrdered'
  <2>1. PICK rows \in {0, 1}, states \in Reports[f.by] :
          Written(f, rows, states) \in Reply /\ Answer(f, Written(f, rows, states))
    BY <1>3, SucceedWrites
  <2> DEFINE new == Written(f, rows, states)
             k == Cost[f.query.dataset]
  <2>2. QuotaGrows
    BY <1>3, SucceedWrites, ChargedGrows
  <2>3. /\ flight' = (flight \ {f}) \cup {[f EXCEPT !.reply = new]} /\ asked' = asked
    BY <2>1 DEF Answer
  <2>4. [f EXCEPT !.reply = new].reply = new /\ [f EXCEPT !.reply = new].by = f.by
    BY FlightType
  <2>5. Stated' \subseteq Stated \cup {new}
        /\ (new \in Stated' => new.remaining # None \/ new \in Stated)
    <3> HIDE DEF new
    <3> QED BY <2>3, <2>4 DEF Stated, States, Observed
  <2>6. CASE new \notin Stated' \/ new \in Stated
    <3>1. Stated' \subseteq Stated
      BY <2>5, <2>6
    <3> QED BY <2>2, <3>1, RepliesKept
  <2>7. CASE new \in Stated' /\ new \notin Stated
    <3>1. new.remaining # None
      BY <2>5, <2>7
    <3>2. /\ k \in Nat
          /\ quota'.remaining = quota.remaining - k
          /\ quota'.charged = quota.charged + k
          /\ quota'.readings = quota.readings + 1
      BY <1>3, SucceedWrites, ReadingType
    <3>3. /\ new.remaining = quota'.remaining /\ new.number = quota'.readings
          /\ new.charged = quota'.charged
      BY <3>1 DEF Written
    <3>4. /\ quota.readings \in Nat /\ quota.charged \in Nat /\ quota.remaining \in Nat
      BY DEF TypeOK
    <3> HIDE DEF new, k
    <3>5. /\ new.number = quota.readings + 1 /\ new.charged = quota.charged + k
          /\ new.remaining + new.charged = quota.remaining + quota.charged
          /\ new.number \in Nat /\ new.charged \in Nat /\ new.remaining \in Int
      BY <3>2, <3>3, <3>4
    <3>6. ASSUME NEW r \in Stated
          PROVE  /\ r.number \in 1..quota'.readings
                 /\ r.charged <= quota'.charged
                 /\ r.remaining + r.charged <= quota'.remaining + quota'.charged
                 /\ Ordered(r, new) /\ Ordered(new, r)
      <4>1. r.remaining \in Nat /\ r.charged \in Nat /\ r.number \in Nat
        BY StatedType
      <4>2. /\ r.number \in 1..quota.readings
            /\ r.charged <= quota.charged
            /\ r.remaining + r.charged <= quota.remaining + quota.charged
        BY DEF RepliesAreOrdered
      <4> QED BY <3>2, <3>4, <3>5, <4>1, <4>2 DEF Ordered
    <3>7. /\ new.number \in 1..quota'.readings
          /\ new.charged <= quota'.charged
          /\ new.remaining + new.charged <= quota'.remaining + quota'.charged
          /\ Ordered(new, new)
      BY <3>2, <3>3, <3>4, <3>5 DEF Ordered
    <3>8. \A r, s \in Stated : Ordered(r, s)
      BY DEF RepliesAreOrdered
    <3> HIDE DEF Stated
    <3> QED BY <2>5, <3>6, <3>7, <3>8 DEF RepliesAreOrdered, Ordered
  <2> QED BY <2>6, <2>7
<1>4. ASSUME NEW f \in flight, Fail(f) PROVE RepliesAreOrdered'
  <2>1. PICK field : Answer(f, Failed(field))
    BY <1>4 DEF Fail
  <2>2. /\ flight' = (flight \ {f}) \cup {[f EXCEPT !.reply = Failed(field)]} /\ asked' = asked
    BY <2>1 DEF Answer
  <2>3. [f EXCEPT !.reply = Failed(field)].reply = Failed(field) /\ Failed(field).remaining = None
    BY FlightType DEF Failed
  <2>4. Stated' \subseteq Stated
    BY <2>2, <2>3 DEF Stated, States, Observed
  <2>5. QuotaGrows
    BY <1>4, QuotaStays DEF Fail
  <2> QED BY <2>4, <2>5, RepliesKept
<1>5. ASSUME NEW f \in flight, Lose(f) PROVE RepliesAreOrdered'
  <2>1. flight' \subseteq flight /\ asked' = asked
    BY <1>5 DEF Lose
  <2>2. QuotaGrows
    BY <1>5, QuotaStays, ChargedGrows DEF Lose
  <2> QED BY <2>1, <2>2, FewerStated, RepliesKept
<1>6. ASSUME NEW f \in flight, Observe(f) PROVE RepliesAreOrdered'
  <2>1. /\ Observed' = Observed \cup {Len(asked) + 1} /\ asked'[Len(asked) + 1] = Entry(f)
        /\ \A i \in Observed : asked'[i] = asked[i]
    BY <1>6, ObservedOneMore
  <2>2. Entry(f).by = f.by /\ Entry(f).reply = f.reply /\ f.reply # None /\ flight' \subseteq flight /\ quota' = quota
    BY <1>6 DEF Entry, Observe
  <2>3. Stated' \subseteq Stated
    <3> HIDE DEF Observed
    <3> QED BY <2>1, <2>2 DEF Stated, States
  <2> QED BY <2>2, <2>3, QuotaStays, RepliesKept
<1>7. ASSUME SpendElsewhere \/ Renew PROVE RepliesAreOrdered'
  <2>1. flight' = flight /\ asked' = asked
    BY <1>7 DEF SpendElsewhere, Renew
  <2>2. QuotaGrows
    <3>1. CASE SpendElsewhere
      BY <3>1, SpendGrows
    <3>2. CASE Renew
      <4>1. /\ quota \in [remaining: Nat, charged: Nat, readings: Nat] /\ Quota \in Nat
            /\ quota' = [quota EXCEPT !.remaining = Quota] /\ quota.remaining < Quota
        BY <3>2, ObserversAssumption DEF TypeOK, Renew
      <4> QED BY <4>1 DEF QuotaGrows
    <3> QED BY <1>7, <3>1, <3>2
  <2> QED BY <2>1, <2>2, FewerStated, RepliesKept
<1>8. ASSUME UNCHANGED vars PROVE RepliesAreOrdered'
  BY <1>8, FewerStated, QuotaStays, RepliesKept DEF vars
<1> QED BY <1>1, <1>2, <1>3, <1>4, <1>5, <1>6, <1>7, <1>8 DEF Next

\* One more query: it may be a reading of the profile and a drop; the others are as
\* they were.
LEMMA DropsOneMore ==
    ASSUME TypeOK, NEW f \in flight, Observe(f), NEW p \in Profiles,
           NEW n \in Nat, n = Len(asked)
    PROVE  LET drop == ProfileOf[f.by] = p /\ Entry(f).units.source = "remaining_quota_delta"
           IN  /\ Dropped(p) \subseteq Observed
               /\ Dropped(p)' = IF drop THEN Dropped(p) \cup {n + 1} ELSE Dropped(p)
               /\ \A i \in Observed : IsReading(p, i)' <=> IsReading(p, i)
               /\ IsReading(p, n + 1)' <=> (ProfileOf[f.by] = p /\ f.reply.remaining # None)
<1>1. /\ Observed' = Observed \cup {n + 1} /\ asked'[n + 1] = Entry(f)
      /\ \A i \in Observed : asked'[i] = asked[i] /\ i # n + 1
  BY ObservedOneMore
<1>2. Entry(f).by = f.by /\ Entry(f).reply = f.reply
  BY DEF Entry
<1> HIDE DEF Observed
<1>3. Dropped(p) \subseteq Observed
  BY DEF Dropped
<1>4. /\ \A i \in Observed : IsReading(p, i)' <=> IsReading(p, i)
      /\ IsReading(p, n + 1)' <=> (ProfileOf[f.by] = p /\ f.reply.remaining # None)
  BY <1>1, <1>2 DEF IsReading
<1>5. Dropped(p)' = IF ProfileOf[f.by] = p /\ Entry(f).units.source = "remaining_quota_delta"
                    THEN Dropped(p) \cup {n + 1} ELSE Dropped(p)
  BY <1>1, <1>2 DEF Dropped
<1> QED BY <1>3, <1>4, <1>5

\* The drops up to j, summed when another query has been observed.
LEMMA SumOneMore ==
    ASSUME TypeOK, NEW f \in flight, Observe(f), NEW S \in SUBSET Observed, NEW T,
           T \cap Observed = S, \A i \in S : asked[i].units.units \in Nat
    PROVE  /\ Over(UnitsOfQuery, S, Len(asked)) \in Nat
           /\ Over(UnitsOfQuery', T, Len(asked')) = Over(UnitsOfQuery, S, Len(asked))
                + (IF Len(asked) + 1 \in T THEN Entry(f).units.units ELSE 0)
<1> DEFINE n == Len(asked)
           w == UnitsOfQuery
           v == UnitsOfQuery'
<1>1. n \in Nat /\ Observed = 1..n /\ Len(asked') = n + 1
  BY ObservedOneMore
<1>2. \A i \in Observed : v[i] = w[i]
  BY OwnOneMore, FlightType
<1>3. v[n + 1] = Entry(f).units.units
  BY OwnOneMore, FlightType
<1>4. \A i \in S : w[i] \in Nat
  BY DEF UnitsOfQuery
<1> HIDE DEF n, w, v
<1>5. \A i \in 1..n : (i \in S <=> i \in T) /\ (i \in S => v[i] = w[i] /\ w[i] \in Nat)
  BY <1>1, <1>2, <1>4
<1>6. Over(v, T, n + 1) = Over(w, S, n) + (IF n + 1 \in T THEN v[n + 1] ELSE 0)
  <2>1. \A i \in 1..n : (i \in S <=> i \in T) /\ (i \in S => v[i] = w[i])
    BY <1>5
  <2>2. n \in Nat
    BY <1>1
  <2> QED BY <2>1, <2>2, OverOneMore
<1>7. Over(w, S, n) \in Nat
  BY <1>1, <1>5, OverType
<1> QED BY <1>1, <1>3, <1>6, <1>7 DEF n, w, v

\* A drop is a number of units.
LEMMA DropType ==
    ASSUME TypeOK, NEW p, NEW i \in Dropped(p)
    PROVE  asked[i].units.units \in Nat
<1>1. i \in Observed /\ asked[i].units.source = "remaining_quota_delta"
  BY DEF Dropped
<1>2. asked[i].units \in Figure
  BY <1>1, EntryOf
<1> QED BY <1>1, <1>2, ObserversAssumption DEF Figure, Sources

\* What an observation does to the last remaining quota of a profile: it is replaced
\* by a reading of its own, and only such a reading is a drop.
LEMMA LastAfter ==
    ASSUME TypeOK, NEW f \in flight, Observe(f), NEW p \in Profiles
    PROVE  /\ ProfileOf[f.by] = p /\ f.reply.remaining # None => last'[p] = f.reply.remaining
           /\ ~(ProfileOf[f.by] = p /\ f.reply.remaining # None) =>
                 /\ last'[p] = last[p]
                 /\ ~(ProfileOf[f.by] = p /\ Entry(f).units.source = "remaining_quota_delta")
           /\ ProfileOf[f.by] = p /\ Entry(f).units.source = "remaining_quota_delta" =>
                 last[p] # None /\ Entry(f).units.units = last[p] - f.reply.remaining
<1>1. last' = [last EXCEPT ![ProfileOf[f.by]] = KeepReading(@, f.reply)] /\ DOMAIN last = Profiles
  BY DEF Observe, TypeOK
<1>2. Entry(f).units = Units(f.reply, last[ProfileOf[f.by]])
  BY DEF Entry
<1>3. None # "remaining_quota_delta"
  BY ObserversAssumption DEF Sources
<1>4. Entry(f).units.source = "remaining_quota_delta" =>
        /\ f.reply.remaining # None /\ last[ProfileOf[f.by]] # None
        /\ Entry(f).units.units = last[ProfileOf[f.by]] - f.reply.remaining
  BY <1>2, <1>3 DEF Units
<1> QED BY <1>1, <1>4 DEF KeepReading

\* The last remaining quota of a profile stays that of its latest reading.
LEMMA LastStep == TypeOK /\ LastIsReading /\ [Next]_vars => LastIsReading'
<1> DEFINE Never(p) == last[p] = None /\ Dropped(p) = {} /\ \A k \in Observed : ~IsReading(p, k)
           Once(p) == last[p] # None /\ \E j \in Observed :
                         Latest(p, j) /\ asked[j].reply.remaining = last[p]
<1> SUFFICES ASSUME TypeOK, LastIsReading, [Next]_vars, NEW p \in Profiles
             PROVE  (Never(p) \/ Once(p))'
  BY DEF LastIsReading
<1>0. Never(p) \/ Once(p)
  BY DEF LastIsReading
<1>1. CASE ~(\E f \in flight : Observe(f))
  <2>1. last' = last /\ asked' = asked
    BY <1>1, OnlyObserve
  <2> QED BY <1>0, <2>1 DEF Dropped, IsReading, Latest, Observed
<1>2. ASSUME NEW f \in flight, Observe(f) PROVE (Never(p) \/ Once(p))'
  <2>0. PICK n \in Nat : n = Len(asked)
    BY <1>2, ObservedOneMore
  <2> DEFINE reads == ProfileOf[f.by] = p /\ f.reply.remaining # None
             drop == ProfileOf[f.by] = p /\ Entry(f).units.source = "remaining_quota_delta"
  <2>1. /\ n \in Nat /\ Observed = 1..n /\ Observed' = Observed \cup {n + 1}
        /\ asked'[n + 1] = Entry(f) /\ \A i \in Observed : asked'[i] = asked[i]
    BY <1>2, <2>0, ObservedOneMore
  <2>2. /\ Dropped(p) \subseteq Observed
        /\ Dropped(p)' = IF drop THEN Dropped(p) \cup {n + 1} ELSE Dropped(p)
        /\ \A i \in Observed : IsReading(p, i)' <=> IsReading(p, i)
        /\ IsReading(p, n + 1)' <=> reads
    BY <1>2, <2>0, DropsOneMore
  <2>3. /\ reads => last'[p] = f.reply.remaining
        /\ ~reads => last'[p] = last[p] /\ ~drop
    BY <1>2, LastAfter
  <2>4. Entry(f).reply = f.reply
    BY DEF Entry
  <2> HIDE DEF drop, Observed
  <2>5. CASE reads
    <3>1. Latest(p, n + 1)'
      <4>1. \A k \in Observed' : k <= n + 1
        BY <2>1
      <4>2. IsReading(p, n + 1)'
        BY <2>2, <2>5
      <4> QED BY <4>1, <4>2 DEF Latest
    <3>2. asked'[n + 1].reply.remaining = last'[p] /\ last'[p] # None /\ n + 1 \in Observed'
      BY <2>1, <2>3, <2>4, <2>5
    <3> QED BY <3>1, <3>2
  <2>6. CASE ~reads
    <3>1. Dropped(p)' = Dropped(p) /\ last'[p] = last[p]
      BY <2>2, <2>3, <2>6
    <3>2. \A k \in Observed' : IsReading(p, k)' => k \in Observed /\ IsReading(p, k)
      BY <2>1, <2>2, <2>6
    <3>3. CASE Never(p)
      BY <3>1, <3>2, <3>3
    <3>4. ASSUME NEW j \in Observed, Latest(p, j), asked[j].reply.remaining = last[p], last[p] # None
          PROVE  Once(p)'
      <4>1. IsReading(p, j)' /\ j \in Observed'
        BY <2>1, <2>2, <3>4 DEF Latest
      <4>2. \A k \in Observed' : IsReading(p, k)' \/ k \in Dropped(p)' => k <= j
        BY <2>2, <3>1, <3>2, <3>4 DEF Latest
      <4>3. Latest(p, j)'
        BY <4>1, <4>2 DEF Latest
      <4> QED BY <2>1, <3>1, <3>4, <4>1, <4>3
    <3> QED BY <1>0, <3>3, <3>4
  <2> QED BY <2>5, <2>6
<1> QED BY <1>1, <1>2

\* A new drop is what was charged since the reading before it, at most, and that
\* reading had no drop after it.
LEMMA DropsStep ==
    TypeOK /\ RepliesAreOrdered /\ LastIsReading /\ DropsFitCharges /\ [Next]_vars
        => DropsFitCharges'
<1> DEFINE Sum(p, i, j) == Over(UnitsOfQuery, Dropped(p) \cap (i + 1)..j, Len(asked))
           Fits(p, i, j) == Sum(p, i, j) + asked[i].reply.charged <= asked[j].reply.charged
           Fit(p) == \A i, j \in Observed :
                        IsReading(p, i) /\ IsReading(p, j) /\ i <= j => Fits(p, i, j)
<1> SUFFICES ASSUME TypeOK, RepliesAreOrdered, LastIsReading, DropsFitCharges, [Next]_vars,
                    NEW p \in Profiles, InOrder(p)'
             PROVE  Fit(p)'
  BY DEF DropsFitCharges
<1>1. CASE ~(\E f \in flight : Observe(f))
  <2>1. asked' = asked
    BY <1>1, OnlyObserve
  <2>2. InOrder(p)
    BY <2>1 DEF InOrder, IsReading, Observed
  <2>3. Fit(p)
    BY <2>2 DEF DropsFitCharges
  <2> QED BY <2>1, <2>3 DEF Dropped, IsReading, Observed, UnitsOfQuery
<1>2. ASSUME NEW f \in flight, Observe(f) PROVE Fit(p)'
  <2>0. PICK n \in Nat : n = Len(asked)
    BY <1>2, ObservedOneMore
  <2> DEFINE r == f.reply
             u == Entry(f).units
             reads == ProfileOf[f.by] = p /\ r.remaining # None
             drop == ProfileOf[f.by] = p /\ u.source = "remaining_quota_delta"
             D == Dropped(p)
  <2>1. /\ n \in Nat /\ Observed = 1..n /\ Observed' = Observed \cup {n + 1} /\ r \in Reply
        /\ asked'[n + 1] = Entry(f) /\ \A i \in Observed : asked'[i] = asked[i]
    BY <1>2, <2>0, ObservedOneMore
  <2>2. /\ D \subseteq Observed /\ D' = IF drop THEN D \cup {n + 1} ELSE D
        /\ \A i \in Observed : IsReading(p, i)' <=> IsReading(p, i)
        /\ IsReading(p, n + 1)' <=> reads
    BY <1>2, <2>0, DropsOneMore
  <2>3. /\ ~reads => ~drop
        /\ drop => last[p] # None /\ u.units = last[p] - r.remaining
    BY <1>2, LastAfter
  <2>4. Entry(f).reply = r /\ r # None
    BY <1>2 DEF Entry, Observe
  <2>5. /\ InOrder(p)
        /\ \A i \in Observed : IsReading(p, i) /\ reads => asked[i].reply.number < r.number
    <3> HIDE DEF r, Observed
    <3>1. \A i \in Observed : asked'[i].reply.number = asked[i].reply.number
      BY <2>1
    <3>2. asked'[n + 1].reply.number = r.number
      BY <2>1, <2>4
    <3>3. \A i \in Observed : i < n + 1
      BY <2>1
    <3> QED BY <2>1, <2>2, <3>1, <3>2, <3>3 DEF InOrder
  <2>6. Fit(p)
    BY <2>5 DEF DropsFitCharges
  <2>7. \A i \in D : asked[i].units.units \in Nat
    BY DropType
  <2>8. \A i \in Observed : asked[i].reply.charged \in Nat
    BY EntryOf DEF Reply
  <2>9. ASSUME NEW i \in Observed, NEW j \in Observed
        PROVE  /\ Sum(p, i, j) \in Nat /\ Sum(p, i, j)' = Sum(p, i, j)
    <3> DEFINE S == D \cap (i + 1)..j
               T == D' \cap (i + 1)..j
    <3>1. S \in SUBSET Observed /\ T \cap Observed = S /\ n + 1 \notin T /\ S \subseteq D
      <4> HIDE DEF D, drop
      <4> QED BY <2>1, <2>2
    <3> HIDE DEF S, T, D, Observed
    <3>2. \A k \in S : asked[k].units.units \in Nat
      BY <2>7, <3>1
    <3>3. /\ Over(UnitsOfQuery, S, Len(asked)) \in Nat
          /\ Over(UnitsOfQuery', T, Len(asked')) = Over(UnitsOfQuery, S, Len(asked))
               + (IF Len(asked) + 1 \in T THEN Entry(f).units.units ELSE 0)
      BY <1>2, <3>1, <3>2, SumOneMore
    <3> QED BY <2>0, <3>1, <3>3 DEF S, T, D
  <2>10. ASSUME NEW i \in Observed, reads, IsReading(p, i) PROVE Fits(p, i, n + 1)'
    <3>1. PICK j \in Observed : Latest(p, j) /\ asked[j].reply.remaining = last[p] /\ last[p] # None
      BY <2>10 DEF LastIsReading
    <3> DEFINE s == asked[j].reply
               S == D \cap (i + 1)..j
               T == D' \cap (i + 1)..(n + 1)
    <3>2. i <= j /\ IsReading(p, j) /\ \A k \in D : k <= j
      BY <2>2, <2>10, <3>1 DEF Latest
    <3>3. S \in SUBSET Observed /\ T \cap Observed = S /\ S \subseteq D /\ (n + 1 \in T <=> drop)
      <4> HIDE DEF D, drop
      <4> QED BY <2>1, <2>2, <3>2
    <3>4. Over(UnitsOfQuery', T, Len(asked')) = Sum(p, i, j) + (IF drop THEN u.units ELSE 0)
      <4> HIDE DEF S, T, D, Observed, drop
      <4>1. \A k \in S : asked[k].units.units \in Nat
        BY <2>7, <3>3
      <4>2. Over(UnitsOfQuery', T, Len(asked')) = Over(UnitsOfQuery, S, Len(asked))
               + (IF Len(asked) + 1 \in T THEN Entry(f).units.units ELSE 0)
        BY <1>2, <3>3, <4>1, SumOneMore
      <4> QED BY <2>0, <3>3, <4>2 DEF S, D
    <3>5. s \in Stated /\ r \in Stated
      BY <2>4, <2>10, <3>2 DEF Stated, States, IsReading
    <3>6. /\ s.remaining \in Nat /\ s.charged \in Nat /\ r.remaining \in Nat /\ r.charged \in Nat
      BY <3>5, StatedType
    <3>7. s.charged <= r.charged /\ s.remaining + s.charged <= r.remaining + r.charged
      <4>1. Ordered(s, r)
        BY <3>5 DEF RepliesAreOrdered
      <4>2. s.number < r.number
        BY <2>5, <2>10, <3>2
      <4> QED BY <4>1, <4>2 DEF Ordered
    <3>8. Sum(p, i, j) + asked[i].reply.charged <= s.charged
      BY <2>6, <2>10, <3>2
    <3>9. Sum(p, i, j) \in Nat /\ asked[i].reply.charged \in Nat
      BY <2>8, <2>9
    <3>10. drop => u.units = s.remaining - r.remaining
      BY <2>3, <3>1
    <3>11. asked'[i].reply.charged = asked[i].reply.charged /\ asked'[n + 1].reply.charged = r.charged
      BY <2>1, <2>4
    <3> HIDE DEF s, r, u, drop, Sum
    <3>12. Over(UnitsOfQuery', T, Len(asked')) + asked[i].reply.charged <= r.charged
      <4> DEFINE after == Over(UnitsOfQuery', T, Len(asked'))
                 before == Sum(p, i, j)
                 first == asked[i].reply.charged
      <4>1. after = before + (IF drop THEN u.units ELSE 0) /\ before \in Nat /\ first \in Nat
        BY <3>4, <3>9
      <4>2. before + first <= s.charged
        BY <3>8
      <4> HIDE DEF after, before, first
      <4>3. after + first <= r.charged
        <5>1. CASE drop
          <6>1. after = before + (s.remaining - r.remaining)
            BY <3>10, <4>1, <5>1
          <6> QED BY <3>6, <3>7, <4>1, <4>2, <6>1
        <5>2. CASE ~drop
          <6>1. after = before
            BY <4>1, <5>2
          <6> QED BY <3>6, <3>7, <4>1, <4>2, <6>1
        <5> QED BY <5>1, <5>2
      <4> QED BY <4>3 DEF after, first
    <3> QED BY <3>11, <3>12 DEF T, D, Sum
  <2>11. ASSUME reads PROVE Fits(p, n + 1, n + 1)'
    <3> DEFINE T == D' \cap (n + 1 + 1)..(n + 1)
    <3>1. T = {}
      BY <2>1
    <3>2. Over(UnitsOfQuery', T, Len(asked')) = 0
      <4> DEFINE v == UnitsOfQuery'
                 m == Len(asked')
      <4>1. m \in Nat
        BY <1>2, ObservedOneMore
      <4> HIDE DEF v, m, T
      <4>2. Over(v, T, m) = 0
        BY <3>1, <4>1, OverNothing
      <4> QED BY <4>2 DEF v, m
    <3>3. asked'[n + 1].reply.charged = r.charged /\ r.charged \in Nat
      BY <2>1, <2>4 DEF Reply
    <3> HIDE DEF r, T, D
    <3> QED BY <3>2, <3>3 DEF T, D
  <2>12. ASSUME NEW i \in Observed, NEW j \in Observed, IsReading(p, i), IsReading(p, j), i <= j
         PROVE  Fits(p, i, j)'
    <3>1. Sum(p, i, j)' = Sum(p, i, j) /\ Fits(p, i, j)
      BY <2>6, <2>9, <2>12
    <3>2. asked'[i] = asked[i] /\ asked'[j] = asked[j]
      BY <2>1
    <3> QED BY <3>1, <3>2
  <2>13. \A i, j \in Observed' : IsReading(p, i)' /\ IsReading(p, j)' /\ i <= j => Fits(p, i, j)'
    <3> HIDE DEF Fits, Observed, reads
    <3> QED BY <2>1, <2>2, <2>10, <2>11, <2>12
  <2> QED BY <2>13
<1> QED BY <1>1, <1>2

(***************************************************************************)
(* Pairs                                                                   *)
(***************************************************************************)

\* A pending pair is an equality filter of an observed query.
LEMMA PendingIsEquality ==
    ASSUME TypeOK, PendingAreAsked, NEW e \in ToSet(pending)
    PROVE  LET a == asked[e.id]
           IN  /\ e.id \in Observed /\ e.seen = a.at /\ a.reply.rows = 0
               /\ \E i \in Equals(a.query, e.key.field) :
                     e.key = PairKey(EngagementOf[a.by], FilterClause(a.query, i))
<1>1. PICK k \in DOMAIN pending : e = pending[k]
  BY DEF ToSet
<1>2. e \in PendingPair
  <2>1. pending \in Seq(PendingPair)
    BY DEF TypeOK, Keys, PendingPair
  <2> QED BY <1>1, <2>1, MemberOfSeq
<1>3. /\ asked[e.id].at = e.seen /\ asked[e.id].reply.rows = 0
      /\ EqualsKey(asked[e.id].query, EngagementOf[asked[e.id].by], e.key)
  BY <1>1 DEF PendingAreAsked
<1>4. PICK i \in FilterClauses(asked[e.id].query) :
        /\ asked[e.id].query.stages[i].clause.op = "="
        /\ e.key = PairKey(EngagementOf[asked[e.id].by], FilterClause(asked[e.id].query, i))
  BY <1>3 DEF EqualsKey
<1>5. e.key.field = asked[e.id].query.stages[i].clause.field
  BY <1>4 DEF PairKey, FilterClause
<1>6. i \in Equals(asked[e.id].query, e.key.field)
  BY <1>4, <1>5 DEF Equals
<1> QED BY <1>2, <1>3, <1>4, <1>6 DEF PendingPair

\* What observing a query leaves of the pairs and adds to them.
LEMMA PendingAfter ==
    ASSUME TypeOK, Distinct(pending), NEW f \in flight, Observe(f)
    PROVE  /\ Distinct(pending')
           /\ \A k \in DOMAIN pending' :
                 \/ pending'[k] \in ToSet(pending)
                 \/ f.reply.rows = 0 /\ pending'[k] \in Asked(Runner(f))
<1>1. CASE ~(Active /\ ~f.reply.error)
  <2>1. pending' = pending
    BY <1>1, ObservedPairing
  <2> QED BY <2>1 DEF ToSet
<1>2. CASE Active /\ ~f.reply.error
  <2>1. /\ Distinct(pending')
        /\ From(pending', ToSet(pending) \cup (IF Runner(f).rows = 0 THEN Asked(Runner(f)) ELSE {}))
    BY <1>2, ObservedPairing DEF Sound
  <2>2. Runner(f).rows = f.reply.rows
    BY DEF Runner
  <2> QED BY <2>1, <2>2 DEF From
<1> QED BY <1>1, <1>2

\* A new confirmation: of which pending pair.
LEMMA NewConfirms ==
    ASSUME TypeOK, Distinct(pending), NEW f \in flight, Observe(f),
           NEW o \in Confirms', o \notin Confirms
    PROVE  /\ f.reply.rows > 0
           /\ \E e \in ToSet(pending) :
                 /\ o = [kind |-> "enum_fields", effect |-> "confirm",
                         engagement |-> EngagementOf[f.by], dataset |-> f.query.dataset,
                         fact |-> e.key.field, evidence |-> <<e.id, Len(asked) + 1>>]
                 /\ now' - e.seen <= TTL
                 /\ \E i \in FilterClauses(f.query) :
                       /\ f.query.stages[i].clause.op = "contains"
                       /\ e.key = PairKey(EngagementOf[f.by], FilterClause(f.query, i))
                 /\ \A k \in DOMAIN pending' : pending'[k].key # e.key
<1>1. o \in journal' /\ o \notin journal /\ o.kind = "enum_fields" /\ o.effect = "confirm"
  BY DEF Confirms, Of
<1>2. f.reply.rows > 0 /\ \E e \in ToSet(pending) : ConfirmsWith(Runner(f), e, pending', o)
  BY <1>1, NewObservations
<1>3. PICK e \in ToSet(pending) : ConfirmsWith(Runner(f), e, pending', o)
  BY <1>2
<1>4. /\ Runner(f).query = f.query /\ Runner(f).engagement = EngagementOf[f.by]
      /\ Runner(f).at = now' /\ Runner(f).id = Len(asked) + 1
  BY DEF Runner
<1>5. PICK i \in FilterClauses(f.query) :
        /\ f.query.stages[i].clause.op = "contains"
        /\ e.key = PairKey(EngagementOf[f.by], FilterClause(f.query, i))
        /\ now' - e.seen <= TTL
        /\ o = [kind |-> "enum_fields", effect |-> "confirm",
                engagement |-> EngagementOf[f.by], dataset |-> f.query.dataset,
                fact |-> e.key.field, evidence |-> <<e.id, Len(asked) + 1>>]
        /\ \A k \in DOMAIN pending' : pending'[k].key # e.key
  BY <1>3, <1>4, ConfirmsMeans
<1> QED BY <1>2, <1>5

\* A confirmation names two observed queries.
LEMMA ConfirmsStay == ConfirmsHaveTwo => \A o \in Confirms : o.evidence[1] \in Observed /\ o.evidence[2] \in Observed
BY DEF ConfirmsHaveTwo

\* A new pair is real.
LEMMA NewPairIsReal ==
    ASSUME TypeOK, PairsInv, NEW f \in flight, Observe(f), NEW o \in Confirms', o \notin Confirms
    PROVE  /\ o.evidence[1] < o.evidence[2]
           /\ Pairs(asked'[o.evidence[1]], asked'[o.evidence[2]], o.fact)
           /\ o.evidence \in Observed' \X Observed'
<1> DEFINE n == Len(asked)
<1>1. PICK e \in ToSet(pending) :
        /\ o = [kind |-> "enum_fields", effect |-> "confirm",
                engagement |-> EngagementOf[f.by], dataset |-> f.query.dataset,
                fact |-> e.key.field, evidence |-> <<e.id, n + 1>>]
        /\ now' - e.seen <= TTL
        /\ \E i \in FilterClauses(f.query) :
              /\ f.query.stages[i].clause.op = "contains"
              /\ e.key = PairKey(EngagementOf[f.by], FilterClause(f.query, i))
        /\ f.reply.rows > 0
  BY NewConfirms DEF PairsInv
<1>2. PICK j \in FilterClauses(f.query) :
        /\ f.query.stages[j].clause.op = "contains"
        /\ e.key = PairKey(EngagementOf[f.by], FilterClause(f.query, j))
  BY <1>1
<1> DEFINE a == asked[e.id]
           b == Entry(f)
<1>3. PICK i \in Equals(a.query, e.key.field) :
        e.key = PairKey(EngagementOf[a.by], FilterClause(a.query, i))
  BY PendingIsEquality DEF PairsInv
<1>4. e.id \in Observed /\ e.seen = a.at /\ a.reply.rows = 0
  BY PendingIsEquality DEF PairsInv
<1>5. /\ n \in Nat /\ Observed = 1..n /\ Observed' = Observed \cup {n + 1}
      /\ asked'[e.id] = a /\ asked'[n + 1] = b
  BY <1>4, ObservedOneMore
<1>6. b.query = f.query /\ b.by = f.by /\ b.reply = f.reply /\ b.at = now'
  BY DEF Entry
<1>7. /\ a.query \in Query /\ a.by \in Calls /\ EngagementOf[a.by] \in Engagements
      /\ f.query \in Query /\ f.by \in Calls /\ EngagementOf[f.by] \in Engagements
  BY <1>4, EntryOf, FlightType DEF Engagements
<1>8. i \in FilterClauses(a.query) /\ a.query.stages[i].clause.op = "="
  BY <1>3 DEF Equals
<1>9. e.key.rest.dataset = a.query.dataset /\ e.key.rest.dataset = f.query.dataset
  <2>1. PairKey(EngagementOf[a.by], FilterClause(a.query, i)).rest.dataset = a.query.dataset
    BY <1>7, <1>8, KeyType
  <2>2. PairKey(EngagementOf[f.by], FilterClause(f.query, j)).rest.dataset = f.query.dataset
    BY <1>2, <1>7, KeyType
  <2> QED BY <1>2, <1>3, <2>1, <2>2
<1>10. /\ e.key.engagement = EngagementOf[a.by] /\ e.key.engagement = EngagementOf[f.by]
       /\ e.key.value = FilterClause(a.query, i).clause.value
       /\ e.key.value = FilterClause(f.query, j).clause.value
       /\ e.key.rest = FilterClause(a.query, i).rest /\ e.key.rest = FilterClause(f.query, j).rest
       /\ e.key.field = FilterClause(f.query, j).clause.field
  BY <1>2, <1>3 DEF PairKey
<1>11. FilterClause(f.query, j).clause.op = "contains"
  BY <1>2 DEF FilterClause
<1>12. o.evidence = <<e.id, n + 1>> /\ o.fact = e.key.field
  BY <1>1
<1> HIDE DEF a, b, n
<1>13. Pairs(a, b, e.key.field)
  <2>1. /\ a.query.dataset = b.query.dataset /\ EngagementOf[a.by] = EngagementOf[b.by]
        /\ a.reply.rows = 0 /\ b.reply.rows > 0 /\ b.at - a.at <= TTL
    BY <1>1, <1>4, <1>6, <1>9, <1>10
  <2>2. /\ i \in Equals(a.query, e.key.field) /\ j \in FilterClauses(b.query)
        /\ FilterClause(b.query, j).clause.op = "contains"
        /\ FilterClause(b.query, j).clause.field = e.key.field
        /\ FilterClause(a.query, i).clause.value = FilterClause(b.query, j).clause.value
        /\ FilterClause(a.query, i).rest = FilterClause(b.query, j).rest
    BY <1>2, <1>3, <1>6, <1>10, <1>11
  <2> QED BY <2>1, <2>2, Zenon DEF Pairs
<1>14. e.id < n + 1
  <2> HIDE DEF Observed
  <2> QED BY <1>4, <1>5
<1> QED BY <1>4, <1>5, <1>12, <1>13, <1>14

\* A pair that confirms leaves the pending ones.
LEMMA TakenStep ==
    ASSUME TypeOK, PairsInv, NEW f \in flight, Observe(f)
    PROVE  TakenOnce'
<1> DEFINE n == Len(asked)
<1>0. /\ Distinct(pending) /\ PendingAreAsked /\ ConfirmsHaveTwo /\ TakenOnce
  BY DEF PairsInv
<1>1. /\ Observed' = Observed \cup {n + 1} /\ n + 1 \notin Observed
      /\ \A i \in Observed : asked'[i] = asked[i]
  BY ObservedOneMore
<1> HIDE DEF n, Observed
<1> SUFFICES ASSUME NEW o \in Confirms', NEW k \in DOMAIN pending',
                    pending'[k].id = o.evidence[1], pending'[k].key.field = o.fact
             PROVE  Twice(asked'[pending'[k].id].query, o.fact)
  BY DEF TakenOnce
<1> DEFINE d == pending'[k]
<1>2. CASE d \in ToSet(pending)
  <2>1. d.id \in Observed /\ asked'[d.id] = asked[d.id]
    BY <1>0, <1>1, <1>2, PendingIsEquality
  <2>2. CASE o \in Confirms
    <3>1. PICK m \in DOMAIN pending : d = pending[m]
      BY <1>2 DEF ToSet
    <3> QED BY <1>0, <2>1, <2>2, <3>1 DEF TakenOnce
  <2>3. CASE o \notin Confirms
    <3>1. PICK e \in ToSet(pending) :
            /\ o.fact = e.key.field /\ o.evidence[1] = e.id
            /\ \A i \in DOMAIN pending' : pending'[i].key # e.key
      BY <1>0, <2>3, NewConfirms
    <3>2. d.key # e.key /\ d.id = e.id
      BY <3>1
    <3>3. PICK i \in Equals(asked[d.id].query, d.key.field) :
            d.key = PairKey(EngagementOf[asked[d.id].by], FilterClause(asked[d.id].query, i))
      BY <1>0, <1>2, PendingIsEquality
    <3>4. PICK j \in Equals(asked[e.id].query, e.key.field) :
            e.key = PairKey(EngagementOf[asked[e.id].by], FilterClause(asked[e.id].query, j))
      BY <1>0, PendingIsEquality
    <3>5. i # j
      BY <3>2, <3>3, <3>4
    <3>6. i \in Equals(asked[d.id].query, o.fact) /\ j \in Equals(asked[d.id].query, o.fact)
      BY <3>1, <3>2, <3>3, <3>4
    <3> QED BY <2>1, <3>5, <3>6 DEF Twice
  <2> QED BY <2>2, <2>3
<1>3. CASE d \notin ToSet(pending)
  <2>1. f.reply.rows = 0 /\ d \in Asked(Runner(f))
    BY <1>0, <1>3, PendingAfter
  <2>2. d.id = n + 1
    BY <2>1 DEF Asked, Runner, n
  <2>3. o \in Confirms
    <3>1. ~(f.reply.rows > 0)
      BY <2>1
    <3> QED BY <1>0, <3>1, NewConfirms
  <2>4. o.evidence[1] \in Observed
    BY <1>0, <2>3, ConfirmsStay
  <2> QED BY <1>1, <2>2, <2>4
<1> QED BY <1>2, <1>3

\* What is pending after an observation was asked.
LEMMA PendingStep ==
    ASSUME TypeOK, PairsInv, NEW f \in flight, Observe(f)
    PROVE  PendingAreAsked'
<1> DEFINE n == Len(asked)
           Means(e, a) == /\ a.at = e.seen /\ a.reply.rows = 0
                          /\ EqualsKey(a.query, EngagementOf[a.by], e.key)
<1>0. /\ Distinct(pending) /\ PendingAreAsked
  BY DEF PairsInv
<1>1. \A i \in Observed : asked'[i] = asked[i]
  BY ObservedOneMore
<1>2. asked'[n + 1] = Entry(f)
  BY ObservedOneMore
<1> HIDE DEF Observed
<1>3. SUFFICES ASSUME NEW k \in DOMAIN pending' PROVE Means(pending'[k], asked'[pending'[k].id])
  BY DEF PendingAreAsked
<1> DEFINE d == pending'[k]
<1>4. CASE d \in ToSet(pending)
  <2>1. d.id \in Observed
    BY <1>0, <1>4, PendingIsEquality
  <2>2. PICK m \in DOMAIN pending : d = pending[m]
    BY <1>4 DEF ToSet
  <2>3. Means(d, asked[d.id])
    BY <1>0, <2>2 DEF PendingAreAsked
  <2> QED BY <1>1, <2>1, <2>3
<1>5. CASE d \notin ToSet(pending)
  <2>1. f.reply.rows = 0 /\ d \in Asked(Runner(f))
    BY <1>0, <1>5, PendingAfter
  <2>2. /\ d.id = n + 1 /\ d.seen = now'
        /\ EqualsKey(f.query, EngagementOf[f.by], d.key)
    BY <2>1 DEF Asked, Runner
  <2>3. Entry(f).at = now' /\ Entry(f).reply = f.reply /\ Entry(f).query = f.query /\ Entry(f).by = f.by
    BY DEF Entry
  <2>4. Means(d, Entry(f))
    BY <2>1, <2>2, <2>3
  <2> QED BY <1>2, <2>2, <2>4
<1> QED BY <1>4, <1>5

\* The confirmations stay real, and one to an equality filter.
LEMMA EnumStep ==
    ASSUME TypeOK, PairsInv, NEW f \in flight, Observe(f)
    PROVE  EnumPairsAreReal' /\ ConfirmsHaveTwo'
<1> DEFINE n == Len(asked)
           Single(q, field) == \A i, j \in Equals(q, field) : i = j
<1>0. /\ Distinct(pending) /\ PendingAreAsked /\ ConfirmsHaveTwo /\ TakenOnce /\ EnumPairsAreReal
  BY DEF PairsInv
<1>1. /\ Observed' = Observed \cup {n + 1} /\ n + 1 \notin Observed
      /\ \A i \in Observed : asked'[i] = asked[i]
  BY ObservedOneMore
<1> HIDE DEF Observed, n
<1>2. \A o \in Confirms : /\ o.evidence[1] \in Observed /\ o.evidence[2] \in Observed
                          /\ asked'[o.evidence[1]] = asked[o.evidence[1]]
                          /\ asked'[o.evidence[2]] = asked[o.evidence[2]]
  BY <1>0, <1>1, ConfirmsStay
<1>3. ASSUME NEW o \in Confirms'
      PROVE  /\ o.evidence[1] < o.evidence[2]
             /\ Pairs(asked'[o.evidence[1]], asked'[o.evidence[2]], o.fact)
             /\ o.evidence \in Observed' \X Observed'
  <2>1. CASE o \in Confirms
    <3>1. o.evidence \in Observed \X Observed
      BY <1>0, <2>1 DEF ConfirmsHaveTwo
    <3>2. o.evidence[1] < o.evidence[2] /\ Pairs(asked[o.evidence[1]], asked[o.evidence[2]], o.fact)
      BY <1>0, <2>1 DEF EnumPairsAreReal, Confirms
    <3> QED BY <1>1, <1>2, <2>1, <3>1, <3>2
  <2>2. CASE o \notin Confirms
    BY <2>2, NewPairIsReal
  <2> QED BY <2>1, <2>2
\* A confirmation of a pair that is already part of one.
<1>4. ASSUME NEW o \in Confirms', o \notin Confirms, NEW other \in Confirms,
             other.fact = o.fact, other.evidence[1] = o.evidence[1]
      PROVE  ~Single(asked'[o.evidence[1]].query, o.fact)
  <2>1. PICK e \in ToSet(pending) : o.fact = e.key.field /\ o.evidence[1] = e.id
    BY <1>0, <1>4, NewConfirms
  <2>2. PICK k \in DOMAIN pending : e = pending[k]
    BY <2>1 DEF ToSet
  <2>3. Twice(asked[e.id].query, o.fact)
    BY <1>0, <1>4, <2>1, <2>2 DEF TakenOnce
  <2>4. asked'[o.evidence[1]] = asked[e.id]
    BY <1>2, <1>4, <2>1
  <2> QED BY <2>3, <2>4 DEF Twice
<1>5. ASSUME NEW o \in Confirms', NEW other \in Confirms',
             other.fact = o.fact, other.evidence[1] = o.evidence[1],
             Single(asked'[o.evidence[1]].query, o.fact)
      PROVE  other = o
  <2>1. CASE o \in Confirms /\ other \in Confirms
    BY <1>0, <1>2, <1>5, <2>1 DEF EnumPairsAreReal, Confirms
  <2>2. CASE o \in Confirms /\ other \notin Confirms
    BY <1>4, <1>5, <2>2
  <2>3. CASE o \notin Confirms /\ other \in Confirms
    BY <1>4, <1>5, <2>3
  <2>4. CASE o \notin Confirms /\ other \notin Confirms
    <3>1. PICK e \in ToSet(pending) :
            o = [kind |-> "enum_fields", effect |-> "confirm",
                 engagement |-> EngagementOf[f.by], dataset |-> f.query.dataset,
                 fact |-> e.key.field, evidence |-> <<e.id, Len(asked) + 1>>]
      BY <1>0, <2>4, NewConfirms
    <3>2. PICK d \in ToSet(pending) :
            other = [kind |-> "enum_fields", effect |-> "confirm",
                     engagement |-> EngagementOf[f.by], dataset |-> f.query.dataset,
                     fact |-> d.key.field, evidence |-> <<d.id, Len(asked) + 1>>]
      BY <1>0, <2>4, NewConfirms
    <3>3. e.key.field = d.key.field /\ e.id = d.id
      BY <3>1, <3>2, <1>5
    <3> QED BY <3>1, <3>2, <3>3
  <2> QED BY <2>1, <2>2, <2>3, <2>4
<1>6. EnumPairsAreReal'
  <2> HIDE DEF Confirms
  <2>1. EnumPairsAreReal' <=>
          \A o \in Confirms' :
            /\ o.evidence[1] < o.evidence[2]
            /\ Pairs(asked'[o.evidence[1]], asked'[o.evidence[2]], o.fact)
            /\ \A other \in Confirms' :
                  /\ other.fact = o.fact /\ other.evidence[1] = o.evidence[1]
                  /\ Single(asked'[o.evidence[1]].query, o.fact)
                  => other = o
    BY DEF EnumPairsAreReal, Confirms
  <2> HIDE DEF Single
  <2> QED BY <1>3, <1>5, <2>1
<1>7. ConfirmsHaveTwo'
  BY <1>3 DEF ConfirmsHaveTwo
<1> QED BY <1>6, <1>7

\* Every step keeps the pairs.
LEMMA PairsStep == TypeOK /\ PairsInv /\ [Next]_vars => PairsInv'
<1> SUFFICES ASSUME TypeOK, PairsInv, [Next]_vars PROVE PairsInv'
  OBVIOUS
<1>1. CASE ~(\E f \in flight : Observe(f))
  <2>1. pending' = pending /\ journal' = journal /\ asked' = asked
    BY <1>1, OnlyObserve
  <2>2. Confirms' = Confirms /\ Observed' = Observed
    BY <2>1 DEF Confirms, Of, Observed
  <2>3. Distinct(pending') /\ PendingAreAsked' /\ ConfirmsHaveTwo' /\ TakenOnce'
    BY <2>1, <2>2 DEF PairsInv, PendingAreAsked, ConfirmsHaveTwo, TakenOnce
  <2>4. EnumPairsAreReal'
    BY <2>1 DEF PairsInv, EnumPairsAreReal, Of
  <2> QED BY <2>3, <2>4 DEF PairsInv
<1>2. ASSUME NEW f \in flight, Observe(f) PROVE PairsInv'
  <2>1. Distinct(pending')
    BY <1>2, PendingAfter DEF PairsInv
  <2> QED BY <1>2, <2>1, PendingStep, TakenStep, EnumStep DEF PairsInv
<1> QED BY <1>1, <1>2

(***************************************************************************)
(* The invariant and the theorems                                          *)
(***************************************************************************)

\* The initial state has the invariant and every step keeps it.
LEMMA InitStep == Init => IInv
<1> SUFFICES ASSUME Init PROVE IInv
  OBVIOUS
<1>1. TypeOK
  BY InitType
<1>2. /\ flight = {} /\ journal = {} /\ steps = {} /\ pending = <<>> /\ asked = <<>>
      /\ last = [p \in Profiles |-> None] /\ calls = [c \in Calls |-> Begun]
  BY DEF Init
<1>3. Observed = {} /\ Len(asked) = 0 /\ DOMAIN pending = {}
  BY <1>2 DEF Observed
<1>4. FlightIsRunning /\ StepsAreLast
  BY <1>2 DEF FlightIsRunning, StepsAreLast
<1>5. CallsAreOwn
  <2> SUFFICES ASSUME NEW c \in Calls
               PROVE  /\ ToSet(calls[c].query_ids) = Own(c) /\ Ascending(calls[c].query_ids)
                      /\ Len(calls[c].units) <= Len(calls[c].query_ids)
                      /\ Len(calls[c].units) = Len(calls[c].query_ids) <=> Known(Own(c))
                      /\ Known(Own(c)) => Total(calls[c].units, Len(calls[c].units))
                                            = Over(UnitsOfQuery, Own(c), Len(asked))
    BY DEF CallsAreOwn
  <2>1. calls[c].query_ids = <<>> /\ calls[c].units = <<>>
    BY <1>2 DEF Begun
  <2>2. Own(c) = {} /\ Known(Own(c))
    BY <1>3 DEF Own, Known
  <2>3. ToSet(<<>>) = {} /\ Ascending(<<>>) /\ Len(<<>>) = 0
    BY DEF ToSet, Ascending
  <2>4. Total(<<>>, 0) = 0
    BY PartialSumsStep DEF Total
  <2>5. Over(UnitsOfQuery, Own(c), 0) = 0
    <3> DEFINE w == UnitsOfQuery
    <3> HIDE DEF w
    <3>1. Over(w, {}, 0) = 0
      BY OverNothing
    <3> QED BY <2>2, <3>1 DEF w
  <2> QED BY <1>3, <2>1, <2>2, <2>3, <2>4, <2>5
<1>6. RepliesAreOrdered
  BY <1>2, <1>3 DEF RepliesAreOrdered, Stated
<1>7. LastIsReading /\ DropsFitCharges
  BY <1>2, <1>3 DEF LastIsReading, DropsFitCharges, Dropped
<1>8. PairsInv
  BY <1>2, <1>3 DEF PairsInv, Distinct, PendingAreAsked, ConfirmsHaveTwo, TakenOnce,
                    EnumPairsAreReal, Confirms, Of
<1> QED BY <1>1, <1>4, <1>5, <1>6, <1>7, <1>8 DEF IInv

LEMMA TypeStep == TypeOK /\ Distinct(pending) /\ [Next]_vars => TypeOK'
<1> SUFFICES ASSUME TypeOK, Distinct(pending), [Next]_vars PROVE TypeOK'
  OBVIOUS
<1>1. CASE UNCHANGED vars
  BY <1>1 DEF vars, TypeOK, Observed
<1>2. CASE Next
  BY <1>2, AskType, EndType, CancelType, SucceedType, FailType, LoseType, ObserveType, SpendType, RenewType
     DEF Next
<1> QED BY <1>1, <1>2

LEMMA InvariantStep == IInv /\ [Next]_vars => IInv'
<1> SUFFICES ASSUME IInv, [Next]_vars PROVE IInv'
  OBVIOUS
<1>1. TypeOK'
  BY TypeStep DEF IInv, PairsInv
<1>2. FlightIsRunning' /\ CallsAreOwn' /\ StepsAreLast'
  BY RunningStep, CallsStep, StepsStep DEF IInv
<1>3. RepliesAreOrdered' /\ LastIsReading' /\ DropsFitCharges' /\ PairsInv'
  BY <1>1, RepliesStep, LastStep, DropsStep, PairsStep DEF IInv
<1> QED BY <1>1, <1>2, <1>3 DEF IInv

\* The observers (learning_observers.py) keep their invariant in every reachable
\* state, for any number of calls, profiles, queries and bounds.
THEOREM ObserversInvariant == Spec => []IInv
BY InitStep, InvariantStep, PTL DEF Spec

\* State, pending pairs, history and figures keep their types: in particular
\* _pending_enum_pairs never holds more than MAX_PENDING_ENUM_PAIRS, and every id an
\* observation cites was observed.
THEOREM ObserversTypes == Spec => []TypeOK
<1>1. IInv => TypeOK
  BY DEF IInv
<1> QED BY <1>1, ObserversInvariant, PTL

\* _observe_enum_pairs: enumeration is confirmed only on a real pair of queries of
\* one engagement within ENUM_PAIR_TTL_SECONDS, and by an equality filter once.
THEOREM PairsCorrect == Spec => []EnumPairsAreReal
<1>1. IInv => EnumPairsAreReal
  BY DEF IInv, PairsInv
<1> QED BY <1>1, ObserversInvariant, PTL

\* end_tool_call: a step names the queries of its own call, in order, and its units
\* are the sum of theirs exactly when all are known, however the calls interleave.
THEOREM StepsCorrect == Spec => []StepsAreOwn
<1>1. IInv => StepsAreOwn
  BY StepsFollow DEF IInv
<1> QED BY <1>1, ObserversInvariant, PTL

\* _query_units: while the replies of a credential profile are observed in the order
\* XSIAM made them, the costs it derives from drops of the remaining quota between
\* one reading and a later one add up to no more than the tenant was charged in
\* between, by whichever profile or client: no unit is counted twice.
THEOREM DropsCorrect == Spec => []DropsFitCharges
<1>1. IInv => DropsFitCharges
  BY DEF IInv
<1> QED BY <1>1, ObserversInvariant, PTL

===============================================================================
