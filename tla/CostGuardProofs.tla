---------------------------- MODULE CostGuardProofs ----------------------------
(***************************************************************************)
(* Proofs about CostGuard for every number of queries, every set of        *)
(* requests and every limit: the laws of the sums, the types, the          *)
(* invariants of the slots and the ledger, and, as long as nothing outside *)
(* the gateway fails (Faults = {}), the automation reserve.                *)
(*                                                                         *)
(* The last part is about the guard's result cache (ResultCache, the other *)
(* piece of cost_guard.py): it keeps to its bound, answers a call only     *)
(* with what was fetched for the same key, and never with a stale result.  *)
(* The two specifications share no variable and no constant; their proofs  *)
(* share the library's facts about sequences and finite sets.              *)
(***************************************************************************)
EXTENDS CostGuard, ResultCache, FiniteSetTheorems, SequenceTheorems, WellFoundedInduction, TLAPS

(***************************************************************************)
(* The laws of the sums of UnitSums.  Each is an induction over the number *)
(* of queries; the step is made in SetInduction once, for sets rather than *)
(* for predicates.                                                         *)
(***************************************************************************)

\* A nonempty set of naturals has a least element.
LEMMA LeastNat ==
    ASSUME NEW T \in SUBSET Nat, T # {}
    PROVE  \E m \in T : \A k \in T : m <= k
<1>1. IsWellFoundedOn(OpToRel(<, Nat), Nat)
  BY NatLessThanWellFounded
<1>2. PICK m \in T : \A k \in T : ~(<<k, m>> \in OpToRel(<, Nat))
  BY <1>1, WFMin, Zenon
<1>3. ASSUME NEW k \in T PROVE m <= k
  <2>1. <<k, m>> \in Nat \X Nat /\ ~(k < m)
    BY <1>2 DEF OpToRel
  <2> QED BY <2>1
<1> QED BY <1>3

\* A set of naturals with 0 that is closed under successor is all of Nat.
LEMMA SetInduction ==
    ASSUME NEW S, 0 \in S, \A k \in Nat : k \in S => k + 1 \in S
    PROVE  \A k \in Nat : k \in S
<1> DEFINE Bad == {k \in Nat : k \notin S}
<1>1. SUFFICES ASSUME Bad # {} PROVE FALSE
  OBVIOUS
<1>2. PICK m \in Bad : \A k \in Bad : m <= k
  <2>1. Bad \in SUBSET Nat
    OBVIOUS
  <2> HIDE DEF Bad
  <2> QED BY <1>1, <2>1, LeastNat
<1>3. m \in Nat /\ m # 0 /\ m - 1 \in Nat
  OBVIOUS
<1>4. m - 1 \in S
  BY <1>2, <1>3
<1>5. (m - 1) + 1 \in S
  BY <1>3, <1>4
<1> QED BY <1>3, <1>5

\* The recursive function of PartialSums exists.
LEMMA PartialSumsExist ==
    ASSUME NEW n \in Nat, NEW w
    PROVE  \E f : f = [i \in 0..n |-> IF i = 0 THEN 0 ELSE f[i - 1] + w[i]]
<1> DEFINE Good(k, f) == f = [i \in 0..k |-> IF i = 0 THEN 0 ELSE f[i - 1] + w[i]]
<1> DEFINE S == {k \in Nat : \E f : Good(k, f)}
<1>1. 0 \in S
  <2>1. Good(0, [i \in 0..0 |-> 0])
    OBVIOUS
  <2> QED BY <2>1
<1>2. ASSUME NEW k \in Nat, k \in S PROVE k + 1 \in S
  <2>1. PICK g : Good(k, g)
    BY <1>2
  <2> DEFINE h == [i \in 0..(k + 1) |-> IF i = k + 1 THEN g[k] + w[k + 1] ELSE g[i]]
  <2>2. \A i \in 0..k : h[i] = g[i]
    OBVIOUS
  <2>3. ASSUME NEW i \in 0..(k + 1)
        PROVE  h[i] = IF i = 0 THEN 0 ELSE h[i - 1] + w[i]
    <3>1. CASE i = k + 1
      <4>1. i - 1 = k /\ k \in 0..k /\ i # 0
        BY <3>1
      <4> QED BY <3>1, <4>1, <2>2
    <3>2. CASE i # k + 1
      <4>1. i \in 0..k /\ (i # 0 => i - 1 \in 0..k)
        BY <3>2
      <4>2. g[i] = IF i = 0 THEN 0 ELSE g[i - 1] + w[i]
        BY <2>1, <4>1
      <4> QED BY <4>1, <4>2, <2>2
    <3> QED BY <3>1, <3>2
  <2>4. Good(k + 1, h)
    BY <2>3
  <2>5. \E f : Good(k + 1, f)
    <3> HIDE DEF Good, h
    <3> QED BY <2>4
  <2> QED BY <2>5
<1>3. n \in S
  <2> HIDE DEF S
  <2> QED BY <1>1, <1>2, SetInduction
<1> QED BY <1>3

LEMMA PartialSumsDef ==
    ASSUME NEW n \in Nat, NEW w
    PROVE  PartialSums(w, n) =
             [i \in 0..n |-> IF i = 0 THEN 0 ELSE PartialSums(w, n)[i - 1] + w[i]]
BY PartialSumsExist DEF PartialSums

\* The two equations of the definition.
LEMMA PartialSumsStep ==
    ASSUME NEW n \in Nat, NEW w
    PROVE  /\ PartialSums(w, n)[0] = 0
           /\ \A i \in 1..n : PartialSums(w, n)[i] = PartialSums(w, n)[i - 1] + w[i]
<1>1. 0 \in 0..n /\ \A i \in 1..n : i \in 0..n /\ i # 0
  OBVIOUS
<1> QED BY <1>1, PartialSumsDef

\* Sums of naturals are naturals.
LEMMA PartialSumsType ==
    ASSUME NEW n \in Nat, NEW w \in [1..n -> Nat]
    PROVE  \A i \in 0..n : PartialSums(w, n)[i] \in Nat
<1> DEFINE p == PartialSums(w, n)
           S == {i \in Nat : i <= n => p[i] \in Nat}
<1>1. p[0] = 0 /\ \A i \in 1..n : p[i] = p[i - 1] + w[i]
  BY PartialSumsStep
<1> HIDE DEF p
<1>2. 0 \in S
  BY <1>1
<1>3. ASSUME NEW k \in Nat, k \in S PROVE k + 1 \in S
  <2>1. CASE k + 1 <= n
    <3>1. k + 1 \in 1..n /\ (k + 1) - 1 = k
      BY <2>1
    <3> QED BY <1>1, <1>3, <3>1
  <2> QED BY <2>1
<1>4. \A i \in Nat : i \in S
  <2> HIDE DEF S
  <2> QED BY <1>2, <1>3, SetInduction
<1> QED BY <1>4 DEF p

LEMMA TotalType ==
    ASSUME NEW n \in Nat, NEW w \in [1..n -> Nat]
    PROVE  Total(w, n) \in Nat
BY PartialSumsType DEF Total

\* The sum of a termwise sum is the sum of the sums.
LEMMA TotalAdd ==
    ASSUME NEW n \in Nat, NEW u \in [1..n -> Nat], NEW v \in [1..n -> Nat],
           NEW w \in [1..n -> Nat], \A i \in 1..n : u[i] = v[i] + w[i]
    PROVE  Total(u, n) = Total(v, n) + Total(w, n)
<1> DEFINE o == PartialSums(u, n)
           p == PartialSums(v, n)
           r == PartialSums(w, n)
           S == {i \in Nat : i <= n => o[i] = p[i] + r[i]}
<1>1. o[0] = 0 /\ \A i \in 1..n : o[i] = o[i - 1] + u[i]
  BY PartialSumsStep
<1>2. p[0] = 0 /\ \A i \in 1..n : p[i] = p[i - 1] + v[i]
  BY PartialSumsStep
<1>3. r[0] = 0 /\ \A i \in 1..n : r[i] = r[i - 1] + w[i]
  BY PartialSumsStep
<1>4. \A i \in 0..n : o[i] \in Nat /\ p[i] \in Nat /\ r[i] \in Nat
  BY PartialSumsType
<1>5. o[n] = Total(u, n) /\ p[n] = Total(v, n) /\ r[n] = Total(w, n)
  BY DEF Total
<1> HIDE DEF o, p, r
<1>6. 0 \in S
  BY <1>1, <1>2, <1>3
<1>7. ASSUME NEW k \in Nat, k \in S PROVE k + 1 \in S
  <2>1. CASE k + 1 <= n
    <3>1. k + 1 \in 1..n /\ (k + 1) - 1 = k /\ k \in 0..n
      BY <2>1
    <3>2. o[k] = p[k] + r[k] /\ u[k + 1] = v[k + 1] + w[k + 1]
      BY <1>7, <2>1, <3>1
    <3>3. v[k + 1] \in Nat /\ w[k + 1] \in Nat
      BY <3>1
    <3>4. /\ o[k + 1] = o[k] + u[k + 1]
          /\ p[k + 1] = p[k] + v[k + 1]
          /\ r[k + 1] = r[k] + w[k + 1]
      BY <1>1, <1>2, <1>3, <3>1
    <3>5. p[k] \in Nat /\ r[k] \in Nat
      BY <1>4, <3>1
    <3>6. o[k + 1] = (p[k] + r[k]) + (v[k + 1] + w[k + 1])
      BY <3>2, <3>4
    <3>7. (p[k] + r[k]) + (v[k + 1] + w[k + 1]) = (p[k] + v[k + 1]) + (r[k] + w[k + 1])
      BY <3>3, <3>5
    <3> QED BY <3>4, <3>6, <3>7
  <2> QED BY <2>1
<1>8. n \in S
  <2> HIDE DEF S
  <2> QED BY <1>6, <1>7, SetInduction
<1> QED BY <1>5, <1>8

\* A sum is monotone in its terms.
LEMMA TotalMonotone ==
    ASSUME NEW n \in Nat, NEW v \in [1..n -> Nat], NEW w \in [1..n -> Nat],
           \A i \in 1..n : v[i] <= w[i]
    PROVE  Total(v, n) <= Total(w, n)
<1> DEFINE d == [i \in 1..n |-> w[i] - v[i]]
<1>1. d \in [1..n -> Nat] /\ \A i \in 1..n : w[i] = v[i] + d[i]
  OBVIOUS
<1>2. Total(w, n) = Total(v, n) + Total(d, n)
  <2> HIDE DEF d
  <2> QED BY <1>1, TotalAdd
<1>3. Total(w, n) \in Nat /\ Total(v, n) \in Nat /\ Total(d, n) \in Nat
  <2> HIDE DEF d
  <2> QED BY <1>1, TotalType
<1> QED BY <1>2, <1>3

(***************************************************************************)
(* Sums over a set of queries                                              *)
(***************************************************************************)

LEMMA OverType ==
    ASSUME NEW n \in Nat, NEW w \in [1..n -> Nat], NEW S
    PROVE  Over(w, S, n) \in Nat
<1>1. [i \in 1..n |-> IF i \in S THEN w[i] ELSE 0] \in [1..n -> Nat]
  OBVIOUS
<1> QED BY <1>1, TotalType DEF Over

\* Fewer queries, or smaller units, never sum to more.
LEMMA OverMonotone ==
    ASSUME NEW n \in Nat, NEW v \in [1..n -> Nat], NEW w \in [1..n -> Nat],
           NEW S, NEW T,
           \A i \in 1..n : i \in S => i \in T /\ v[i] <= w[i]
    PROVE  Over(v, S, n) <= Over(w, T, n)
<1> DEFINE vs == [i \in 1..n |-> IF i \in S THEN v[i] ELSE 0]
           wt == [i \in 1..n |-> IF i \in T THEN w[i] ELSE 0]
<1>1. /\ vs \in [1..n -> Nat] /\ wt \in [1..n -> Nat]
      /\ \A i \in 1..n : vs[i] <= wt[i]
  OBVIOUS
<1>2. Over(v, S, n) = Total(vs, n) /\ Over(w, T, n) = Total(wt, n)
  BY DEF Over
<1> HIDE DEF vs, wt
<1> QED BY <1>1, <1>2, TotalMonotone

\* A sum depends only on the members of its set that are queries, and on their units.
LEMMA OverSame ==
    ASSUME NEW n \in Nat, NEW v \in [1..n -> Nat], NEW w \in [1..n -> Nat],
           NEW S, NEW T,
           \A i \in 1..n : (i \in S <=> i \in T) /\ (i \in S => v[i] = w[i])
    PROVE  Over(v, S, n) = Over(w, T, n)
<1>1. \A i \in 1..n : (i \in S => v[i] <= w[i]) /\ (i \in T => w[i] <= v[i])
  OBVIOUS
<1>2. Over(v, S, n) <= Over(w, T, n)
  BY <1>1, OverMonotone
<1>3. Over(w, T, n) <= Over(v, S, n)
  BY <1>1, OverMonotone
<1>4. Over(v, S, n) \in Nat /\ Over(w, T, n) \in Nat
  BY OverType
<1> QED BY <1>2, <1>3, <1>4

\* The sum over two disjoint sets that make up T.
LEMMA OverSplit ==
    ASSUME NEW n \in Nat, NEW w \in [1..n -> Nat], NEW R, NEW S, NEW T,
           \A i \in 1..n : /\ i \in T <=> i \in R \/ i \in S
                          /\ ~(i \in R /\ i \in S)
    PROVE  Over(w, T, n) = Over(w, R, n) + Over(w, S, n)
<1> DEFINE t == [i \in 1..n |-> IF i \in T THEN w[i] ELSE 0]
           r == [i \in 1..n |-> IF i \in R THEN w[i] ELSE 0]
           s == [i \in 1..n |-> IF i \in S THEN w[i] ELSE 0]
<1>1. /\ t \in [1..n -> Nat] /\ r \in [1..n -> Nat] /\ s \in [1..n -> Nat]
      /\ \A i \in 1..n : t[i] = r[i] + s[i]
  OBVIOUS
<1>2. /\ Over(w, T, n) = Total(t, n)
      /\ Over(w, R, n) = Total(r, n)
      /\ Over(w, S, n) = Total(s, n)
  BY DEF Over
<1> HIDE DEF t, r, s
<1>3. Total(t, n) = Total(r, n) + Total(s, n)
  BY <1>1, TotalAdd
<1> QED BY <1>2, <1>3

\* Nothing sums to 0.
LEMMA OverNone ==
    ASSUME NEW n \in Nat, NEW w \in [1..n -> Nat], NEW S,
           \A i \in 1..n : i \notin S
    PROVE  Over(w, S, n) = 0
<1>1. Over(w, S, n) = Over(w, S, n) + Over(w, S, n)
  BY OverSplit
<1> QED BY <1>1, OverType

\* The sum over one query.
LEMMA OverOne ==
    ASSUME NEW n \in Nat, NEW w \in [1..n -> Nat], NEW k \in 1..n
    PROVE  Over(w, {k}, n) = w[k]
<1> DEFINE o == [i \in 1..n |-> IF i \in {k} THEN w[i] ELSE 0]
           p == PartialSums(o, n)
           S == {i \in Nat : i <= n => p[i] = IF i >= k THEN w[k] ELSE 0}
<1>1. p[0] = 0 /\ \A i \in 1..n : p[i] = p[i - 1] + o[i]
  BY PartialSumsStep
<1>2. \A i \in 1..n : o[i] = IF i = k THEN w[k] ELSE 0
  OBVIOUS
<1>3. Over(w, {k}, n) = p[n]
  BY DEF Over, Total
<1> HIDE DEF p, o
<1>4. 0 \in S
  BY <1>1
<1>5. ASSUME NEW j \in Nat, j \in S PROVE j + 1 \in S
  <2>1. CASE j + 1 <= n
    <3>1. j + 1 \in 1..n /\ (j + 1) - 1 = j
      BY <2>1
    <3>2. p[j + 1] = p[j] + o[j + 1]
      BY <1>1, <3>1
    <3>3. p[j] = IF j >= k THEN w[k] ELSE 0
      BY <1>5, <2>1
    <3>4. o[j + 1] = IF j + 1 = k THEN w[k] ELSE 0
      BY <1>2, <3>1
    <3>5. w[k] \in Nat /\ k \in Nat
      OBVIOUS
    <3>6. p[j + 1] = IF j + 1 >= k THEN w[k] ELSE 0
      BY <3>2, <3>3, <3>4, <3>5
    <3> QED BY <3>6
  <2> QED BY <2>1
<1>6. n \in S
  <2> HIDE DEF S
  <2> QED BY <1>4, <1>5, SetInduction
<1> QED BY <1>3, <1>6

\* One query more.
LEMMA OverInsert ==
    ASSUME NEW n \in Nat, NEW w \in [1..n -> Nat], NEW S, NEW k \in 1..n, k \notin S
    PROVE  Over(w, S \cup {k}, n) = Over(w, S, n) + w[k]
<1>1. Over(w, S \cup {k}, n) = Over(w, S, n) + Over(w, {k}, n)
  BY OverSplit
<1> QED BY <1>1, OverOne

\* One query more, whose units are only now known.
LEMMA OverCharged ==
    ASSUME NEW n \in Nat, NEW v \in [1..n -> Nat], NEW w \in [1..n -> Nat]
    PROVE  \A S : \A k \in 1..n :
              k \notin S /\ (\A i \in 1..n : i # k => w[i] = v[i]) =>
                Over(w, S \cup {k}, n) = Over(v, S, n) + w[k]
<1> SUFFICES ASSUME NEW S, NEW k \in 1..n, k \notin S, \A i \in 1..n : i # k => w[i] = v[i]
             PROVE  Over(w, S \cup {k}, n) = Over(v, S, n) + w[k]
  OBVIOUS
<1>1. Over(w, S \cup {k}, n) = Over(w, S, n) + w[k]
  BY OverInsert
<1>2. \A i \in 1..n : i \in S => w[i] = v[i]
  OBVIOUS
<1>3. Over(w, S, n) = Over(v, S, n)
  BY <1>2, OverSame
<1> QED BY <1>1, <1>3

\* A member is worth no more than its set.
LEMMA OverMember ==
    ASSUME NEW n \in Nat, NEW w \in [1..n -> Nat], NEW S, NEW k \in 1..n, k \in S
    PROVE  Over(w, S, n) = Over(w, S \ {k}, n) + w[k]
<1>1. Over(w, S, n) = Over(w, S \ {k}, n) + Over(w, {k}, n)
  BY OverSplit
<1> QED BY <1>1, OverOne

\* max(a - b, 0) is a natural number, and gives back at most b.
LEMMA MinusBounds ==
    ASSUME NEW a \in Nat, NEW b \in Nat
    PROVE  /\ Minus(a, b) \in Nat
           /\ Minus(a, b) <= a
           /\ a <= Minus(a, b) + b
BY DEF Minus

\* A charge within what was set aside leaves no less than there was.
LEMMA ChargeWithin ==
    ASSUME NEW x \in Nat, NEW y \in Nat, NEW u \in Nat, NEW h \in Nat,
           NEW a \in Nat, NEW b \in Nat, x <= y + u, u <= h, b = a + h
    PROVE  y - a >= x - b
OBVIOUS

(***************************************************************************)
(* The requests                                                            *)
(***************************************************************************)

USE DEF Queries

\* What the assumptions say of one request.
LEMMA RequestFields ==
    ASSUME NEW r \in Requests
    PROVE  /\ r.who \in Principals /\ r.heavy \in BOOLEAN
           /\ r.high \in Nat /\ r.high > 0
           /\ r.threshold \in Nat /\ r.reserve \in Nat
           /\ r.prompt \in BOOLEAN /\ r.typed \in BOOLEAN /\ r.extend \in BOOLEAN
BY RequestsAssumption DEF Request

(***************************************************************************)
(* Types                                                                   *)
(***************************************************************************)

LEMMA InitType == Init => TypeOK
<1> SUFFICES ASSUME Init PROVE TypeOK
  OBVIOUS
<1>1. NoMsg \in Msgs
  BY DEF NoMsg, Msgs
<1>2. msg \in [Queries -> Msgs] /\ ahead \in [Queries -> SUBSET Queries]
  BY <1>1 DEF Init
<1>3. xsiam \in Nat /\ ledger \in [Principals -> Nat] /\ charge \in [Queries -> Nat]
  BY LimitsAssumption DEF Init
<1>4. phase \in [Queries -> Phases]
  BY DEF Init, Phases
<1> QED BY <1>2, <1>3, <1>4 DEF Init, TypeOK

LEMMA FrozenType ==
    ASSUME TypeOK
    PROVE  Frozen \in [Queries -> Nat \cup {Unknown, Current}]
BY DEF Frozen, TypeOK

LEMMA DecideType ==
    ASSUME TypeOK, NEW q \in Queries, NEW r, Decide(q, r)
    PROVE  phase' \in [Queries -> Phases] /\ inflight' \subseteq Queries
BY DEF Decide, GoTo, TypeOK, Phases

LEMMA DebitType ==
    ASSUME TypeOK, NEW u \in Nat, Debit(u)
    PROVE  /\ observed' \in Nat \cup {Unknown}
           /\ fresh' \in BOOLEAN
           /\ seen' \in [Queries -> Nat \cup {Unknown, Current}]
BY MinusBounds DEF Debit, TypeOK

LEMMA DropType ==
    ASSUME TypeOK, NEW q \in Queries, Drop(q)
    PROVE  msg' \in [Queries -> Msgs] /\ ahead' \in [Queries -> SUBSET Queries]
BY DEF Drop, TypeOK, NoMsg, Msgs

LEMMA SendType ==
    ASSUME TypeOK, NEW q \in Queries, NEW m \in Msgs, Send(q, m)
    PROVE  msg' \in [Queries -> Msgs] /\ ahead' \in [Queries -> SUBSET Queries]
BY DEF Send, Travelling, TypeOK

\* Every step keeps the types.
LEMMA TypeStep == TypeOK /\ [Next]_vars => TypeOK'
<1> SUFFICES ASSUME TypeOK, [Next]_vars PROVE TypeOK'
  OBVIOUS
<1> USE DEF xsiamVars, historyVars, gatewayVars
<1>1. ASSUME NEW q \in Queries, RefuseLongSlots(q) PROVE TypeOK'
  BY <1>1 DEF RefuseLongSlots, GoTo, TypeOK, Phases
<1>2. ASSUME NEW q \in Queries, PassLongSlots(q) PROVE TypeOK'
  BY <1>2 DEF PassLongSlots, GoTo, TypeOK, Phases
<1>3. ASSUME NEW q \in Queries, UseObservation(q) PROVE TypeOK'
  BY <1>3, DecideType DEF UseObservation, TypeOK
<1>4. ASSUME NEW q \in Queries, AskQuota(q) PROVE TypeOK'
  BY <1>4 DEF AskQuota, GoTo, TypeOK, Phases
<1>5. ASSUME NEW q \in Queries, QuotaArrives(q) PROVE TypeOK'
  <2>1. msg[q].units \in Nat
    BY DEF TypeOK, Msgs
  <2> QED BY <1>5, <2>1, DecideType, DropType, FrozenType DEF QuotaArrives, Observe, TypeOK
<1>6. ASSUME NEW q \in Queries, QuotaFails(q) PROVE TypeOK'
  BY <1>6, DecideType, DropType DEF QuotaFails, TypeOK
<1>7. ASSUME NEW q \in Queries, ApproveByPrompt(q) PROVE TypeOK'
  BY <1>7 DEF ApproveByPrompt, GoTo, TypeOK, Phases
<1>8. ASSUME NEW q \in Queries, RefuseApproval(q) PROVE TypeOK'
  BY <1>8 DEF RefuseApproval, GoTo, TypeOK, Phases
<1>9. ASSUME NEW q \in Queries, ApproveByArgument(q) PROVE TypeOK'
  <2>1. ApprovalUnits(q) \in Nat /\ req[q].who \in Principals
    BY RequestFields DEF ApprovalUnits, TypeOK
  <2>2. ledger' \in [Principals -> Nat]
    BY <1>9, <2>1 DEF ApproveByArgument, TypeOK
  <2> QED BY <1>9, <2>2 DEF ApproveByArgument, GoTo, TypeOK, Phases
<1>10. ASSUME NEW q \in Queries, AcquireSlot(q) PROVE TypeOK'
  BY <1>10 DEF AcquireSlot, GoTo, TypeOK, Phases
<1>11. ASSUME NEW q \in Queries, Submit(q) PROVE TypeOK'
  BY <1>11 DEF Submit, GoTo, TypeOK, Phases
<1>12. ASSUME NEW q \in Queries, ReplyArrives(q) PROVE TypeOK'
  <2>1. msg[q].units \in Nat
    BY DEF TypeOK, Msgs
  <2>2. /\ observed' \in Nat \cup {Unknown}
        /\ fresh' \in BOOLEAN
        /\ seen' \in [Queries -> Nat \cup {Unknown, Current}]
    BY <1>12, <2>1, DebitType, FrozenType DEF ReplyArrives, Observe, TypeOK
  <2> QED BY <1>12, <2>2, DropType DEF ReplyArrives, Release, GoTo, TypeOK, Phases
<1>13. ASSUME NEW q \in Queries, TimeOut(q) \/ AbortSubmitted(q) PROVE TypeOK'
  <2>1. req[q].high \in Nat
    BY RequestFields DEF TypeOK
  <2> QED BY <1>13, <2>1, DebitType, DropType
          DEF TimeOut, AbortSubmitted, Release, GoTo, TypeOK, Phases
<1>14. ASSUME NEW q \in Queries, AbortUnsubmitted(q) PROVE TypeOK'
  BY <1>14, DropType DEF AbortUnsubmitted, Release, GoTo, TypeOK, Phases
<1>15. ASSUME NEW q \in Queries, SlotAges(q) PROVE TypeOK'
  BY <1>15 DEF SlotAges, TypeOK
<1>16. ASSUME NEW q \in Queries, ReadQuota(q) PROVE TypeOK'
  <2>1. [kind |-> "reading", units |-> xsiam] \in Msgs
    BY DEF TypeOK, Msgs
  <2> QED BY <1>16, <2>1, SendType DEF ReadQuota, TypeOK
<1>17. ASSUME NEW q \in Queries, XsiamCompletes(q) PROVE TypeOK'
  <2>1. req[q].high \in Nat
    BY RequestFields DEF TypeOK
  <2>2. PICK c \in 0..req[q].high, kind \in {"reading", "cost", "failure"} : Complete(q, c, kind)
    BY <1>17 DEF XsiamCompletes
  <2>3. c \in Nat /\ Minus(xsiam, c) \in Nat
    <3>1. c \in Nat /\ xsiam \in Nat
      BY <2>1 DEF TypeOK
    <3> QED BY <3>1, MinusBounds
  <2>4. [kind |-> kind, units |-> CASE kind = "reading" -> Minus(xsiam, c)
                                    [] kind = "cost"    -> c
                                    [] kind = "failure" -> 0] \in Msgs
    <3>1. CASE kind = "reading"
      BY <3>1, <2>3 DEF Msgs
    <3>2. CASE kind = "cost"
      BY <3>2, <2>3 DEF Msgs
    <3>3. CASE kind = "failure"
      BY <3>3, <2>3 DEF Msgs
    <3> QED BY <3>1, <3>2, <3>3
  <2>5. msg' \in [Queries -> Msgs] /\ ahead' \in [Queries -> SUBSET Queries]
    BY <2>2, <2>4, SendType DEF Complete, TypeOK
  <2> QED BY <2>2, <2>3, <2>5 DEF Complete, TypeOK
<1>18. CASE ObservationAges
  BY <1>18 DEF ObservationAges, TypeOK
<1>19. CASE NewDay
  <2>1. ledger' \in [Principals -> Nat] /\ xsiam' \in Nat /\ day' \in Nat
    BY <1>19, LimitsAssumption DEF NewDay, TypeOK
  <2>2. seen' \in [Queries -> Nat \cup {Unknown, Current}]
    BY <1>19, FrozenType DEF NewDay
  <2> QED BY <1>19, <2>1, <2>2 DEF NewDay, TypeOK
<1>20. CASE SpendElsewhere
  BY <1>20 DEF SpendElsewhere, TypeOK
<1>21. CASE UNCHANGED vars
  BY <1>21 DEF vars, TypeOK
<1> QED BY <1>1, <1>2, <1>3, <1>4, <1>5, <1>6, <1>7, <1>8, <1>9, <1>10, <1>11, <1>12,
           <1>13, <1>14, <1>15, <1>16, <1>17, <1>18, <1>19, <1>20, <1>21 DEF Next, Idle

\* Every variable keeps its type, whatever fails outside the gateway.
THEOREM TypeCorrect == Spec => []TypeOK
<1>1. TypeOK /\ [Next]_vars => TypeOK'
  BY TypeStep
<1> QED BY InitType, <1>1, PTL DEF Spec

(***************************************************************************)
(* Reservations and slots                                                  *)
(***************************************************************************)

LEMMA QueriesFinite == IsFiniteSet(Queries)
BY FS_Interval, NumQueriesAssumption

\* Giving slots back keeps them within the semaphore.
LEMMA FewerSlots ==
    ASSUME TypeOK, HoldsMatchPhases, slots' \subseteq slots
    PROVE  Cardinality(slots') <= MaxConcurrent
<1>1. IsFiniteSet(slots)
  BY QueriesFinite, FS_Subset DEF TypeOK
<1>2. /\ Cardinality(slots') <= Cardinality(slots)
      /\ Cardinality(slots') \in Nat /\ Cardinality(slots) \in Nat
  BY <1>1, FS_Subset, FS_CardinalityType
<1> QED BY <1>2, LimitsAssumption DEF HoldsMatchPhases

\* Every way out of run_xql_query gives back what the query holds.
LEMMA ReleaseHolds ==
    ASSUME TypeOK, HoldsMatchPhases, NEW q \in Queries, Release(q),
           GoTo(q, "finished") \/ GoTo(q, "gone")
    PROVE  HoldsMatchPhases'
<1>1. Cardinality(slots') <= MaxConcurrent
  BY FewerSlots DEF Release
<1> QED BY <1>1 DEF Release, GoTo, HoldsMatchPhases, TypeOK

\* A step between two phases that hold nothing.
LEMMA NoHolds ==
    ASSUME TypeOK, HoldsMatchPhases, NEW q \in Queries, NEW to,
           phase[q] \notin {"waiting", "starting", "running"},
           to \notin {"waiting", "starting", "running"},
           GoTo(q, to), UNCHANGED <<inflight, slots, long>>
    PROVE  HoldsMatchPhases'
BY DEF GoTo, HoldsMatchPhases, TypeOK

LEMMA DecideHolds ==
    ASSUME TypeOK, HoldsMatchPhases, NEW q \in Queries, NEW r,
           phase[q] \notin {"waiting", "starting", "running"},
           Decide(q, r), UNCHANGED <<slots, long>>
    PROVE  HoldsMatchPhases'
<1>1. CASE inflight' = inflight /\ ~GoTo(q, "waiting")
  BY <1>1, NoHolds DEF Decide
<1>2. CASE GoTo(q, "waiting") /\ inflight' = inflight \cup {q}
  BY <1>2 DEF GoTo, HoldsMatchPhases, TypeOK
<1>3. ~GoTo(q, "waiting") \/ inflight' = inflight \cup {q}
  BY DEF Decide, GoTo, TypeOK
<1> QED BY <1>1, <1>2, <1>3 DEF Decide

\* Reservations and slots follow the phases, whatever fails.
LEMMA HoldsStep == TypeOK /\ HoldsMatchPhases /\ [Next]_vars => HoldsMatchPhases'
<1> SUFFICES ASSUME TypeOK, HoldsMatchPhases, [Next]_vars PROVE HoldsMatchPhases'
  OBVIOUS
<1>1. ASSUME NEW q \in Queries,
             \/ RefuseLongSlots(q) \/ PassLongSlots(q) \/ AskQuota(q)
             \/ ApproveByPrompt(q) \/ RefuseApproval(q) \/ ApproveByArgument(q)
      PROVE  HoldsMatchPhases'
  BY <1>1, NoHolds
  DEF RefuseLongSlots, PassLongSlots, AskQuota, ApproveByPrompt, RefuseApproval,
      ApproveByArgument
<1>2. ASSUME NEW q \in Queries, UseObservation(q) \/ QuotaArrives(q) \/ QuotaFails(q)
      PROVE  HoldsMatchPhases'
  BY <1>2, DecideHolds DEF UseObservation, QuotaArrives, QuotaFails, Reading
<1>3. ASSUME NEW q \in Queries, AcquireSlot(q) PROVE HoldsMatchPhases'
  <2>1. IsFiniteSet(slots)
    BY QueriesFinite, FS_Subset DEF TypeOK
  <2>2. Cardinality(slots') <= MaxConcurrent
    <3>1. q \notin slots
      BY <1>3 DEF AcquireSlot, HoldsMatchPhases
    <3>2. Cardinality(slots') = Cardinality(slots) + 1
      BY <1>3, <2>1, <3>1, FS_AddElement DEF AcquireSlot
    <3>3. Cardinality(slots) \in Nat
      BY <2>1, FS_CardinalityType
    <3> QED BY <1>3, <3>2, <3>3, LimitsAssumption DEF AcquireSlot
  <2> QED BY <1>3, <2>2 DEF AcquireSlot, GoTo, HoldsMatchPhases, TypeOK
<1>4. ASSUME NEW q \in Queries, Submit(q) PROVE HoldsMatchPhases'
  BY <1>4 DEF Submit, GoTo, HoldsMatchPhases, TypeOK
<1>5. ASSUME NEW q \in Queries,
             ReplyArrives(q) \/ TimeOut(q) \/ AbortSubmitted(q) \/ AbortUnsubmitted(q)
      PROVE  HoldsMatchPhases'
  BY <1>5, ReleaseHolds DEF ReplyArrives, TimeOut, AbortSubmitted, AbortUnsubmitted
<1>6. ASSUME NEW q \in Queries, SlotAges(q) PROVE HoldsMatchPhases'
  BY <1>6 DEF SlotAges, HoldsMatchPhases
<1>7. ASSUME UNCHANGED <<phase, inflight, slots, long>> PROVE HoldsMatchPhases'
  BY <1>7 DEF HoldsMatchPhases
<1>8. ASSUME \/ \E q \in Queries : ReadQuota(q) \/ XsiamCompletes(q)
             \/ ObservationAges \/ NewDay \/ SpendElsewhere \/ UNCHANGED vars
      PROVE  UNCHANGED <<phase, inflight, slots, long>>
  BY <1>8
  DEF ReadQuota, XsiamCompletes, Complete, ObservationAges, NewDay, SpendElsewhere,
      vars, gatewayVars
<1> QED BY <1>1, <1>2, <1>3, <1>4, <1>5, <1>6, <1>7, <1>8 DEF Next, Idle

\* No exit path of run_xql_query leaks a reservation or a slot, or gives one back
\* early, and the semaphore is never exceeded.
THEOREM HoldsCorrect == Spec => []HoldsMatchPhases
<1>1. Init => HoldsMatchPhases
  BY FS_EmptySet, LimitsAssumption DEF Init, HoldsMatchPhases
<1>2. TypeOK /\ HoldsMatchPhases /\ [Next]_vars => HoldsMatchPhases'
  BY HoldsStep
<1> QED BY <1>1, <1>2, TypeCorrect, PTL DEF Spec

(***************************************************************************)
(* Approval                                                                *)
(***************************************************************************)

BeforeApproval == {"new", "gate1", "reading1", "approving"}
PastApproval   == {"gate2", "reading2", "waiting", "starting", "running", "finished"}

\* Strengthens SubmittedWithinGuard: what holds of a query from the moment it
\* leaves the approval step, and of the approval itself.
ApprovalInv ==
    \A q \in Queries :
        /\ phase[q] \in PastApproval \/ q \in open => (NeedsApproval(q) => method[q] # "none")
        /\ method[q] = "elicitation" => req[q].prompt
        /\ method[q] = "argument" => req[q].typed
        /\ phase[q] \in BeforeApproval => method[q] = "none"

\* A step that approves nothing and moves q forward without passing approval.
LEMMA ApprovalMove ==
    ASSUME TypeOK, ApprovalInv, NEW q \in Queries, NEW to, GoTo(q, to),
           to \in PastApproval =>
              phase[q] \in PastApproval \/ q \in open \/ ~NeedsApproval(q),
           to \in BeforeApproval => phase[q] \in BeforeApproval,
           UNCHANGED <<req, method>>, open' \subseteq open
    PROVE  ApprovalInv'
BY DEF GoTo, ApprovalInv, TypeOK, NeedsApproval

LEMMA DecideApproval ==
    ASSUME TypeOK, ApprovalInv, NEW q \in Queries, NEW r, Decide(q, r),
           phase[q] \in {"gate1", "reading1", "gate2", "reading2"},
           UNCHANGED <<req, method, open>>
    PROVE  ApprovalInv'
<1>1. CASE GoTo(q, "refused")
  BY <1>1, ApprovalMove DEF PastApproval, BeforeApproval
<1>2. CASE GoTo(q, "approving") /\ AtGate1(q)
  BY <1>2, ApprovalMove DEF AtGate1, PastApproval, BeforeApproval
<1>3. CASE GoTo(q, "gate2") /\ ~NeedsApproval(q)
  BY <1>3, ApprovalMove DEF PastApproval, BeforeApproval
<1>4. CASE GoTo(q, "waiting") /\ ~AtGate1(q)
  BY <1>4, ApprovalMove DEF AtGate1, PastApproval, BeforeApproval
<1> QED BY <1>1, <1>2, <1>3, <1>4 DEF Decide

LEMMA ApprovalStep == TypeOK /\ ApprovalInv /\ [Next]_vars => ApprovalInv'
<1> SUFFICES ASSUME TypeOK, ApprovalInv, [Next]_vars PROVE ApprovalInv'
  OBVIOUS
<1> USE DEF xsiamVars, historyVars, gatewayVars
<1>1. ASSUME NEW q \in Queries, RefuseLongSlots(q) \/ RefuseApproval(q)
      PROVE  ApprovalInv'
  BY <1>1, ApprovalMove DEF RefuseLongSlots, RefuseApproval, PastApproval, BeforeApproval
<1>2. ASSUME NEW q \in Queries, PassLongSlots(q) PROVE ApprovalInv'
  BY <1>2, ApprovalMove DEF PassLongSlots, PastApproval, BeforeApproval
<1>3. ASSUME NEW q \in Queries, AskQuota(q) PROVE ApprovalInv'
  BY <1>3, ApprovalMove DEF AskQuota, PastApproval, BeforeApproval
<1>4. ASSUME NEW q \in Queries, UseObservation(q) \/ QuotaArrives(q) \/ QuotaFails(q)
      PROVE  ApprovalInv'
  BY <1>4, DecideApproval DEF UseObservation, QuotaArrives, QuotaFails, Reading
<1>5. ASSUME NEW q \in Queries, ApproveByPrompt(q) PROVE ApprovalInv'
  BY <1>5 DEF ApproveByPrompt, Prompted, GoTo, ApprovalInv, TypeOK, NeedsApproval,
              PastApproval, BeforeApproval
<1>6. ASSUME NEW q \in Queries, ApproveByArgument(q) PROVE ApprovalInv'
  BY <1>6 DEF ApproveByArgument, GoTo, ApprovalInv, TypeOK, NeedsApproval,
              PastApproval, BeforeApproval
<1>7. ASSUME NEW q \in Queries, AcquireSlot(q) PROVE ApprovalInv'
  BY <1>7, ApprovalMove DEF AcquireSlot, PastApproval, BeforeApproval
<1>8. ASSUME NEW q \in Queries, Submit(q) PROVE ApprovalInv'
  BY <1>8 DEF Submit, GoTo, ApprovalInv, TypeOK, NeedsApproval, PastApproval, BeforeApproval
<1>9. ASSUME NEW q \in Queries, ReplyArrives(q) \/ TimeOut(q) PROVE ApprovalInv'
  BY <1>9, ApprovalMove DEF ReplyArrives, TimeOut, PastApproval, BeforeApproval
<1>10. ASSUME NEW q \in Queries, AbortSubmitted(q) \/ AbortUnsubmitted(q)
       PROVE  ApprovalInv'
  BY <1>10, ApprovalMove DEF AbortSubmitted, AbortUnsubmitted, PastApproval, BeforeApproval
<1>11. ASSUME UNCHANGED <<phase, req, method>>, open' \subseteq open PROVE ApprovalInv'
  BY <1>11 DEF ApprovalInv, NeedsApproval
<1>12. ASSUME \/ \E q \in Queries : SlotAges(q) \/ ReadQuota(q) \/ XsiamCompletes(q)
              \/ ObservationAges \/ NewDay \/ SpendElsewhere \/ UNCHANGED vars
       PROVE  UNCHANGED <<phase, req, method>> /\ open' \subseteq open
  BY <1>12
  DEF SlotAges, ReadQuota, XsiamCompletes, Complete, ObservationAges, NewDay,
      SpendElsewhere, vars
<1> QED BY <1>1, <1>2, <1>3, <1>4, <1>5, <1>6, <1>7, <1>8, <1>9, <1>10, <1>11, <1>12
        DEF Next, Idle

LEMMA ApprovalCorrect == Spec => []ApprovalInv
<1>1. Init => ApprovalInv
  BY DEF Init, ApprovalInv, PastApproval
<1>2. TypeOK /\ ApprovalInv /\ [Next]_vars => ApprovalInv'
  BY ApprovalStep
<1> QED BY <1>1, <1>2, TypeCorrect, PTL DEF Spec

\* Nothing above the threshold is submitted, or owed by XSIAM, without an
\* approval that the caller could give.
THEOREM GuardCorrect == Spec => []SubmittedWithinGuard
<1>1. ApprovalInv => SubmittedWithinGuard
  BY DEF ApprovalInv, SubmittedWithinGuard, PastApproval
<1> QED BY <1>1, ApprovalCorrect, PTL

(***************************************************************************)
(* The approval ledger                                                     *)
(***************************************************************************)

\* Strengthens ApprovalsWithinCap: no approval is dated later than today.
LedgerInv == ApprovalsWithinCap /\ \A q \in Queries : argDay[q] <= day

LEMMA UnitsFunctionType ==
    ASSUME TypeOK
    PROVE  [q \in Queries |-> ApprovalUnits(q)] \in [1..NumQueries -> Nat]
<1>1. \A q \in Queries : ApprovalUnits(q) \in Nat
  BY RequestFields DEF ApprovalUnits, TypeOK
<1> QED BY <1>1

LEMMA LedgerUnchanged ==
    ASSUME LedgerInv, UNCHANGED <<req, method, ledger, argDay, day>>
    PROVE  LedgerInv'
BY DEF LedgerInv, ApprovalsWithinCap, ArgumentUnits, ByArgument, ApprovalUnits, NeedsApproval

\* An approval by prompt is not dated and charges nothing.
LEMMA LedgerPrompt ==
    ASSUME TypeOK, ApprovalInv, LedgerInv, NEW q \in Queries, ApproveByPrompt(q)
    PROVE  LedgerInv'
<1> USE DEF historyVars
<1>1. method[q] = "none"
  BY DEF ApproveByPrompt, ApprovalInv, BeforeApproval
<1>2. \A p \in Principals : ByArgument(p)' = ByArgument(p)
  BY <1>1 DEF ApproveByPrompt, ByArgument, TypeOK
<1>3. \A p \in Principals : ArgumentUnits(p)' = ArgumentUnits(p)
  BY <1>2 DEF ApproveByPrompt, ArgumentUnits, ApprovalUnits, NeedsApproval
<1> QED BY <1>3 DEF LedgerInv, ApprovalsWithinCap, ApproveByPrompt

\* An approval by argument charges the ledger what it adds to the sum.
LEMMA LedgerArgument ==
    ASSUME TypeOK, ApprovalInv, LedgerInv, NEW q \in Queries, ApproveByArgument(q)
    PROVE  LedgerInv'
<1> DEFINE units == [i \in Queries |-> ApprovalUnits(i)]
           p == req[q].who
<1> USE DEF historyVars
<1>1. units \in [1..NumQueries -> Nat] /\ units[q] = ApprovalUnits(q)
  BY UnitsFunctionType
<1>2. method[q] = "none" /\ p \in Principals
  BY RequestFields DEF ApproveByArgument, ApprovalInv, BeforeApproval, TypeOK
<1>3. [i \in Queries |-> ApprovalUnits(i)]' = units
  BY DEF ApproveByArgument, ApprovalUnits, NeedsApproval
<1>4. ASSUME NEW o \in Principals, o = p
      PROVE  ByArgument(o)' = ByArgument(o) \cup {q} /\ q \notin ByArgument(o)
  BY <1>2, <1>4 DEF ApproveByArgument, ByArgument, TypeOK
<1>5. ASSUME NEW o \in Principals, o # p PROVE ByArgument(o)' = ByArgument(o)
  BY <1>2, <1>5 DEF ApproveByArgument, ByArgument, TypeOK
<1>6. ASSUME NEW o \in Principals, o = p
      PROVE  ArgumentUnits(o)' = ArgumentUnits(o) + ApprovalUnits(q)
  <2>1. ArgumentUnits(o)' = Over(units, ByArgument(o) \cup {q}, NumQueries)
    BY <1>3, <1>4, <1>6 DEF ArgumentUnits
  <2>2. ArgumentUnits(o) = Over(units, ByArgument(o), NumQueries)
    BY DEF ArgumentUnits
  <2> HIDE DEF units
  <2> QED BY <1>1, <1>4, <1>6, <2>1, <2>2, OverInsert, NumQueriesAssumption
<1>7. ASSUME NEW o \in Principals, o # p PROVE ArgumentUnits(o)' = ArgumentUnits(o)
  BY <1>3, <1>5, <1>7 DEF ArgumentUnits
<1>8. /\ ledger'[p] = ledger[p] + ApprovalUnits(q)
      /\ \A o \in Principals \ {p} : ledger'[o] = ledger[o]
  BY <1>2 DEF ApproveByArgument, TypeOK
<1>9. ledger'[p] <= ApprovalCap
  <2>1. ledger[p] <= ApprovalCap /\ ledger[p] \in Nat
    BY <1>2 DEF LedgerInv, ApprovalsWithinCap, TypeOK
  <2> QED BY <1>8, <2>1 DEF ApproveByArgument, CapAllows
<1>10. \A i \in Queries : argDay'[i] <= day'
  BY DEF ApproveByArgument, LedgerInv, TypeOK
<1>11. ASSUME NEW o \in Principals
       PROVE  ledger'[o] = ArgumentUnits(o)' /\ ledger'[o] <= ApprovalCap
  <2>1. ledger[o] = ArgumentUnits(o) /\ ledger[o] <= ApprovalCap
    BY DEF LedgerInv, ApprovalsWithinCap
  <2>2. CASE o = p
    BY <1>6, <1>8, <1>9, <2>1, <2>2
  <2>3. CASE o # p
    BY <1>7, <1>8, <2>1, <2>3
  <2> QED BY <2>2, <2>3
<1> QED BY <1>10, <1>11 DEF LedgerInv, ApprovalsWithinCap

\* At midnight every dated approval is yesterday's.
LEMMA LedgerNewDay ==
    ASSUME TypeOK, LedgerInv, NewDay
    PROVE  LedgerInv'
<1>1. ASSUME NEW q \in Queries PROVE argDay'[q] <= day' /\ argDay'[q] # day'
  <2>1. argDay[q] \in Nat /\ day \in Nat /\ argDay[q] <= day
    BY DEF LedgerInv, TypeOK
  <2> QED BY <2>1 DEF NewDay
<1>2. [q \in Queries |-> ApprovalUnits(q)]' = [q \in Queries |-> ApprovalUnits(q)]
  BY DEF NewDay, ApprovalUnits, NeedsApproval
<1>3. \A p \in Principals : ArgumentUnits(p)' = 0
  <2>1. ASSUME NEW p \in Principals PROVE ArgumentUnits(p)' = 0
    <3>1. \A q \in Queries : q \notin ByArgument(p)'
      BY <1>1 DEF ByArgument
    <3> QED BY <1>2, <3>1, UnitsFunctionType, OverNone, NumQueriesAssumption DEF ArgumentUnits
  <2> QED BY <2>1
<1>4. \A p \in Principals : ledger'[p] = 0
  BY DEF NewDay
<1> QED BY <1>1, <1>3, <1>4, LimitsAssumption DEF LedgerInv, ApprovalsWithinCap

LEMMA LedgerStep == TypeOK /\ ApprovalInv /\ LedgerInv /\ [Next]_vars => LedgerInv'
<1> SUFFICES ASSUME TypeOK, ApprovalInv, LedgerInv, [Next]_vars PROVE LedgerInv'
  OBVIOUS
<1> USE DEF xsiamVars, historyVars, gatewayVars
<1>1. ASSUME NEW q \in Queries,
             \/ RefuseLongSlots(q) \/ PassLongSlots(q) \/ UseObservation(q) \/ AskQuota(q)
             \/ QuotaArrives(q) \/ QuotaFails(q) \/ RefuseApproval(q) \/ AcquireSlot(q)
             \/ Submit(q)
      PROVE  UNCHANGED <<req, method, ledger, argDay, day>>
  BY <1>1
  DEF RefuseLongSlots, PassLongSlots, UseObservation, AskQuota, QuotaArrives, QuotaFails,
      RefuseApproval, AcquireSlot, Submit
<1>2. ASSUME NEW q \in Queries,
             \/ ReplyArrives(q) \/ TimeOut(q) \/ AbortSubmitted(q) \/ AbortUnsubmitted(q)
             \/ SlotAges(q) \/ ReadQuota(q) \/ XsiamCompletes(q)
      PROVE  UNCHANGED <<req, method, ledger, argDay, day>>
  BY <1>2
  DEF ReplyArrives, TimeOut, AbortSubmitted, AbortUnsubmitted, SlotAges, ReadQuota,
      XsiamCompletes, Complete
<1>3. ASSUME ObservationAges \/ SpendElsewhere \/ UNCHANGED vars
      PROVE  UNCHANGED <<req, method, ledger, argDay, day>>
  BY <1>3 DEF ObservationAges, SpendElsewhere, vars
<1> QED BY <1>1, <1>2, <1>3, LedgerUnchanged, LedgerPrompt, LedgerArgument, LedgerNewDay
        DEF Next, Idle

\* However the approvals of concurrent queries interleave with midnight, a
\* principal's ledger is the sum of today's approvals and stays within the cap.
THEOREM LedgerCorrect == Spec => []ApprovalsWithinCap
<1>1. Init => LedgerInv
  <2> SUFFICES ASSUME Init PROVE LedgerInv
    OBVIOUS
  <2>1. ASSUME NEW p \in Principals PROVE ArgumentUnits(p) = 0
    <3>1. \A q \in Queries : q \notin ByArgument(p)
      BY DEF Init, ByArgument
    <3> QED BY <3>1, InitType, UnitsFunctionType, OverNone, NumQueriesAssumption
            DEF ArgumentUnits
  <2> QED BY <2>1, LimitsAssumption DEF Init, LedgerInv, ApprovalsWithinCap
<1>2. TypeOK /\ ApprovalInv /\ LedgerInv /\ [Next]_vars => LedgerInv'
  BY LedgerStep
<1>3. LedgerInv => ApprovalsWithinCap
  BY DEF LedgerInv
<1> QED BY <1>1, <1>2, <1>3, TypeCorrect, ApprovalCorrect, PTL DEF Spec

(***************************************************************************)
(* The automation reserve.  The figures the guard decides on are never     *)
(* better than the truth by more than the charges whose answers still      *)
(* travel, and the reservations of those very queries make up for the      *)
(* difference.                                                             *)
(***************************************************************************)

Running == {q \in Queries : phase[q] = "running"}

\* What is in the network and at XSIAM when no query is given up: XSIAM works on
\* running queries only, and each answer says what was charged.
NetworkInv ==
    /\ open \subseteq Running
    /\ xsiam <= Budget
    /\ \A q \in Queries :
         /\ charge[q] <= req[q].high
         /\ msg[q] # NoMsg => Reading(q) \/ q \in Settling
         /\ Reading(q) /\ msg[q] # NoMsg => msg[q].kind = "reading"
         /\ q \in Settling /\ msg[q].kind = "cost" => msg[q].units = charge[q]
         /\ q \in Settling /\ msg[q].kind = "failure" => charge[q] = 0

CalmInv == TypeOK /\ HoldsMatchPhases /\ NetworkInv /\ FiguresBounded

\* The charges made after the answer of q that still travel.
After(q) == {p \in Settling : q \in ahead[p]}

USE NumQueriesAssumption DEF Queries

LEMMA ChargeType ==
    ASSUME TypeOK, NEW S
    PROVE  ChargeOf(S) \in Nat
<1>1. charge \in [1..NumQueries -> Nat]
  BY DEF TypeOK
<1> QED BY <1>1, OverType DEF ChargeOf

LEMMA ChargeMonotone ==
    ASSUME TypeOK, NEW S, NEW T, \A q \in Queries : q \in S => q \in T
    PROVE  ChargeOf(S) <= ChargeOf(T)
<1>1. charge \in [1..NumQueries -> Nat] /\ \A i \in 1..NumQueries : charge[i] <= charge[i]
  BY DEF TypeOK
<1> QED BY <1>1, OverMonotone DEF ChargeOf

LEMMA UnitsType ==
    ASSUME TypeOK
    PROVE  /\ [q \in Queries |-> req[q].high] \in [1..NumQueries -> Nat]
           /\ \A S : UnitsOf(S) \in Nat
<1>1. \A q \in Queries : req[q].high \in Nat
  BY RequestFields DEF TypeOK
<1>2. [q \in Queries |-> req[q].high] \in [1..NumQueries -> Nat]
  BY <1>1
<1> QED BY <1>2, OverType DEF UnitsOf

(***************************************************************************)
(* The figures                                                             *)
(***************************************************************************)

\* A phase change of a query that is neither asking for the quota nor running.
LEMMA PhaseMove ==
    ASSUME CalmInv, NEW q \in Queries, NEW to, GoTo(q, to),
           ~Reading(q), phase[q] # "running", to # "running",
           UNCHANGED <<req, observed, xsiamVars>>
    PROVE  NetworkInv' /\ FiguresBounded'
<1> USE DEF xsiamVars
<1>1. Settling' = Settling /\ Running' = Running
  BY DEF GoTo, CalmInv, TypeOK, Settling, Running
<1>2. q \notin Settling /\ msg[q] = NoMsg
  BY DEF CalmInv, NetworkInv, Settling
<1>3. \A p \in Queries \ {q} : Reading(p)' <=> Reading(p)
  BY DEF Reading, GoTo, CalmInv, TypeOK
<1>4. NetworkInv'
  BY <1>1, <1>2, <1>3 DEF NetworkInv, CalmInv
<1>5. FiguresBounded'
  BY <1>1 DEF FiguresBounded, CalmInv, ChargeOf
<1> QED BY <1>4, <1>5

\* The answer to a query that is not running leaves the network; the observation
\* is kept, or is the reading that just arrived.
LEMMA DropMove ==
    ASSUME CalmInv, NEW q \in Queries, NEW to, GoTo(q, to), Drop(q),
           phase[q] # "running", to # "running",
           UNCHANGED <<req, xsiam, open, charge>>,
           \/ observed' = observed
           \/ msg[q].kind = "reading" /\ observed' = msg[q].units
    PROVE  NetworkInv' /\ FiguresBounded'
<1>1. Settling' = Settling /\ Running' = Running /\ q \notin Settling
  BY DEF GoTo, CalmInv, TypeOK, Settling, Running
<1>2. msg'[q] = NoMsg /\ \A p \in Queries \ {q} : msg'[p] = msg[p]
  BY DEF Drop, CalmInv, TypeOK
<1>3. \A p \in Queries \ {q} : Reading(p)' <=> Reading(p)
  BY DEF Reading, GoTo, CalmInv, TypeOK
<1>4. NetworkInv'
  BY <1>1, <1>2, <1>3 DEF NetworkInv, CalmInv
<1>5. \A p \in Queries \ {q} : After(p)' = After(p)
  BY <1>1 DEF After, Drop, CalmInv, TypeOK, Settling
<1>6. \A S : ChargeOf(S)' = Over(charge, S, NumQueries)
  BY DEF ChargeOf
<1>7. ASSUME NEW p \in Queries, msg'[p].kind = "reading"
      PROVE  msg'[p].units <= xsiam' + ChargeOf(After(p))'
  <2>1. p # q
    BY <1>2, <1>7 DEF NoMsg
  <2>2. msg[p].units <= xsiam + ChargeOf(After(p))
    BY <1>2, <1>7, <2>1 DEF CalmInv, FiguresBounded, After
  <2> QED BY <1>2, <1>5, <2>1, <2>2 DEF ChargeOf
<1>8. ASSUME observed' # Unknown PROVE observed' <= xsiam' + ChargeOf(Settling)'
  <2>1. CASE observed' = observed
    BY <1>1, <1>8, <2>1 DEF CalmInv, FiguresBounded, ChargeOf
  <2>2. CASE msg[q].kind = "reading" /\ observed' = msg[q].units
    <3>1. msg[q].units <= xsiam + ChargeOf(After(q))
      BY <2>2 DEF CalmInv, FiguresBounded, After
    <3>2. ChargeOf(After(q)) <= ChargeOf(Settling)
      BY ChargeMonotone DEF After, CalmInv
    <3>3. /\ msg[q].units \in Nat /\ xsiam \in Nat
          /\ ChargeOf(After(q)) \in Nat /\ ChargeOf(Settling) \in Nat
      BY ChargeType DEF CalmInv, TypeOK, Msgs
    <3>4. msg[q].units <= xsiam + ChargeOf(Settling)
      BY <3>1, <3>2, <3>3
    <3> QED BY <1>1, <2>2, <3>4 DEF ChargeOf
  <2> QED BY <2>1, <2>2
<1>9. FiguresBounded'
  BY <1>7, <1>8 DEF FiguresBounded, After
<1> QED BY <1>4, <1>9

\* The answer to a running query arrives.  Answers arrive in the order they were
\* made, so nothing that still travels was made before it.
LEMMA ReplyMove ==
    ASSUME CalmInv, NEW q \in Queries, ReplyArrives(q), ahead[q] = {}
    PROVE  NetworkInv' /\ FiguresBounded'
<1> USE DEF historyVars
<1>1. q \in Settling /\ q \notin open
  BY DEF ReplyArrives, Deliverable, Reading, Settling, CalmInv, NetworkInv
<1>2. Settling' = Settling \ {q} /\ Running' = Running \ {q}
  BY DEF ReplyArrives, GoTo, Settling, Running, CalmInv, TypeOK
<1>3. msg'[q] = NoMsg /\ \A p \in Queries \ {q} : msg'[p] = msg[p]
  BY DEF ReplyArrives, Drop, CalmInv, TypeOK
<1>4. ~Reading(q)' /\ \A p \in Queries \ {q} : Reading(p)' <=> Reading(p)
  BY DEF ReplyArrives, GoTo, Reading, CalmInv, TypeOK
<1>5. NetworkInv'
  BY <1>1, <1>2, <1>3, <1>4 DEF ReplyArrives, NetworkInv, CalmInv
<1>6. \A p \in Queries \ {q} : After(p)' = After(p)
  BY <1>2 DEF After, ReplyArrives, Drop, CalmInv, TypeOK, Settling
<1>7. ASSUME NEW p \in Queries, msg'[p].kind = "reading"
      PROVE  msg'[p].units <= xsiam' + ChargeOf(After(p))'
  <2>1. p # q
    BY <1>3, <1>7 DEF NoMsg
  <2>2. msg[p].units <= xsiam + ChargeOf(After(p))
    BY <1>3, <1>7, <2>1 DEF CalmInv, FiguresBounded, After
  <2> QED BY <1>3, <1>6, <2>1, <2>2 DEF ChargeOf, ReplyArrives
<1>8. ChargeOf(Settling) = ChargeOf(Settling \ {q}) + charge[q]
  <2>1. charge \in [1..NumQueries -> Nat]
    BY DEF CalmInv, TypeOK
  <2> QED BY <1>1, <2>1, OverMember DEF ChargeOf
<1>9. ChargeOf(Settling)' = ChargeOf(Settling \ {q})
  BY <1>2 DEF ChargeOf, ReplyArrives
<1>10. /\ charge[q] \in Nat /\ msg[q].units \in Nat /\ xsiam \in Nat
       /\ ChargeOf(Settling) \in Nat /\ ChargeOf(Settling \ {q}) \in Nat
       /\ ChargeOf(After(q)) \in Nat
       /\ observed \in Nat \cup {Unknown}
  BY ChargeType DEF CalmInv, TypeOK, Msgs
<1>11. observed # Unknown => observed <= xsiam + ChargeOf(Settling)
  BY DEF CalmInv, FiguresBounded
<1>12. ASSUME observed' # Unknown PROVE observed' <= xsiam + ChargeOf(Settling \ {q})
  <2>1. CASE msg[q].kind = "reading" /\ Observe(q, msg[q].units)
    <3>1. msg[q].units <= xsiam + ChargeOf(After(q))
      BY <2>1 DEF CalmInv, FiguresBounded, After
    <3>2. ChargeOf(After(q)) <= ChargeOf(Settling \ {q})
      BY ChargeMonotone DEF After, CalmInv
    <3>3. observed' = msg[q].units
      BY <2>1 DEF Observe
    <3> QED BY <1>10, <3>1, <3>2, <3>3
  <2>2. CASE msg[q].kind = "cost" /\ Debit(msg[q].units)
    <3>1. msg[q].units = charge[q]
      BY <1>1, <2>2 DEF CalmInv, NetworkInv
    <3>2. observed # Unknown /\ observed' = Minus(observed, charge[q])
      BY <1>12, <2>2, <3>1 DEF Debit
    <3> QED BY <1>8, <1>10, <1>11, <3>2 DEF Minus
  <2>3. CASE msg[q].kind = "failure" /\ observed' = observed
    <3>1. charge[q] = 0
      BY <1>1, <2>3 DEF CalmInv, NetworkInv
    <3> QED BY <1>8, <1>10, <1>11, <1>12, <2>3, <3>1
  <2> QED BY <2>1, <2>2, <2>3 DEF ReplyArrives
<1>13. FiguresBounded'
  BY <1>7, <1>9, <1>12 DEF FiguresBounded, After, ReplyArrives
<1> QED BY <1>5, <1>13

\* XSIAM reads its quota for query q.
LEMMA ReadMove ==
    ASSUME CalmInv, NEW q \in Queries, ReadQuota(q)
    PROVE  NetworkInv' /\ FiguresBounded'
<1> USE DEF historyVars, gatewayVars
<1>1. Settling' = Settling /\ Running' = Running /\ q \notin Settling
  BY DEF ReadQuota, Reading, Settling, Running
<1>2. /\ msg'[q] = [kind |-> "reading", units |-> xsiam]
      /\ \A p \in Queries \ {q} : msg'[p] = msg[p]
  BY DEF ReadQuota, Send, CalmInv, TypeOK
<1>3. \A p \in Queries : Reading(p)' <=> Reading(p)
  BY DEF ReadQuota, Reading
<1>4. NetworkInv'
  BY <1>1, <1>2, <1>3 DEF ReadQuota, NetworkInv, CalmInv
<1>5. \A p \in Queries : After(p)' = After(p)
  BY <1>1 DEF After, ReadQuota, Send, CalmInv, TypeOK, Settling
<1>6. ASSUME NEW p \in Queries, msg'[p].kind = "reading"
      PROVE  msg'[p].units <= xsiam' + ChargeOf(After(p))'
  <2>1. ChargeOf(After(p))' = ChargeOf(After(p))
    BY <1>5 DEF ChargeOf, ReadQuota
  <2>2. CASE p = q
    <3>1. msg'[p].units = xsiam /\ xsiam' = xsiam
      BY <1>2, <2>2 DEF ReadQuota
    <3>2. xsiam \in Nat /\ ChargeOf(After(p)) \in Nat
      BY ChargeType DEF CalmInv, TypeOK
    <3> QED BY <2>1, <3>1, <3>2
  <2>3. CASE p # q
    <3>1. msg[p].units <= xsiam + ChargeOf(After(p))
      BY <1>2, <1>6, <2>3 DEF CalmInv, FiguresBounded, After
    <3> QED BY <1>2, <2>1, <2>3, <3>1 DEF ReadQuota
  <2> QED BY <2>2, <2>3
<1>7. observed' # Unknown => observed' <= xsiam' + ChargeOf(Settling)'
  BY <1>1 DEF ReadQuota, CalmInv, FiguresBounded, ChargeOf
<1>8. FiguresBounded'
  BY <1>6, <1>7 DEF FiguresBounded, After
<1> QED BY <1>4, <1>8

\* XSIAM ends a running query and charges it.
LEMMA CompleteMove ==
    ASSUME CalmInv, Faults = {}, NEW q \in Queries, NEW c \in 0..req[q].high,
           NEW kind \in {"reading", "cost", "failure"}, Complete(q, c, kind)
    PROVE  NetworkInv' /\ FiguresBounded'
<1> USE DEF historyVars, gatewayVars
<1> DEFINE left == Minus(xsiam, c)
           m == [kind |-> kind, units |-> CASE kind = "reading" -> left
                                            [] kind = "cost"    -> c
                                            [] kind = "failure" -> 0]
<1>1. q \in open /\ phase[q] = "running" /\ q \notin Settling /\ msg[q] = NoMsg
  BY DEF Complete, CalmInv, NetworkInv, Running, Settling, Reading
<1>2. Settling' = Settling \cup {q} /\ Running' = Running
  BY <1>1 DEF Complete, Settling, Running
<1>3. req[q].high \in Nat /\ c \in Nat /\ c <= req[q].high
  <2>1. req[q].high \in Nat
    BY RequestFields DEF CalmInv, TypeOK
  <2> QED BY <2>1
<1>4. xsiam \in Nat /\ left \in Nat /\ left <= xsiam /\ xsiam <= left + c
  BY <1>3, MinusBounds DEF CalmInv, TypeOK
<1> HIDE DEF left
<1>5. xsiam' = left /\ observed' = observed
  BY DEF Complete, left
<1>6. Send(q, m)
  BY <1>1 DEF Complete, left
<1>7. msg'[q] = m /\ \A p \in Queries \ {q} : msg'[p] = msg[p]
  BY <1>6 DEF Send, CalmInv, TypeOK
<1>8. charge'[q] = c /\ \A p \in Queries \ {q} : charge'[p] = charge[p]
  BY DEF Complete, CalmInv, TypeOK
<1>9. kind = "failure" => c = 0
  BY DEF Complete
<1>10. \A p \in Queries : Reading(p)' <=> Reading(p)
  BY DEF Complete, Reading
<1>11. NetworkInv'
  <2>1. open' \subseteq Running' /\ xsiam' <= Budget
    BY <1>2, <1>4, <1>5, LimitsAssumption DEF Complete, CalmInv, NetworkInv
  <2>2. ASSUME NEW p \in Queries, p # q
        PROVE  /\ charge'[p] <= req'[p].high
               /\ msg'[p] # NoMsg => Reading(p)' \/ p \in Settling'
               /\ Reading(p)' /\ msg'[p] # NoMsg => msg'[p].kind = "reading"
               /\ p \in Settling' /\ msg'[p].kind = "cost" => msg'[p].units = charge'[p]
               /\ p \in Settling' /\ msg'[p].kind = "failure" => charge'[p] = 0
    BY <1>2, <1>7, <1>8, <1>10, <2>2 DEF Complete, CalmInv, NetworkInv
  <2>3. /\ charge'[q] <= req'[q].high
        /\ q \in Settling' /\ ~Reading(q)'
        /\ msg'[q].kind = "cost" => msg'[q].units = charge'[q]
        /\ msg'[q].kind = "failure" => charge'[q] = 0
    BY <1>1, <1>2, <1>3, <1>7, <1>8, <1>9, <1>10 DEF Complete, Reading
  <2> QED BY <2>1, <2>2, <2>3 DEF NetworkInv
<1>12. /\ charge \in [1..NumQueries -> Nat]
       /\ charge' \in [1..NumQueries -> Nat]
  BY <1>3 DEF CalmInv, TypeOK, Complete
<1>13. ASSUME NEW S \in SUBSET Settling
       PROVE  /\ Over(charge', S \cup {q}, NumQueries) = ChargeOf(S) + c
              /\ ChargeOf(S) \in Nat
  <2>1. q \notin S
    BY <1>1
  <2>2. \A i \in 1..NumQueries : i # q => charge'[i] = charge[i]
    BY <1>8
  <2>3. Over(charge', S \cup {q}, NumQueries) = Over(charge, S, NumQueries) + charge'[q]
    <3> DEFINE v == charge
               w == charge'
    <3>1. /\ v \in [1..NumQueries -> Nat] /\ w \in [1..NumQueries -> Nat]
          /\ \A i \in 1..NumQueries : i # q => w[i] = v[i]
          /\ q \in 1..NumQueries /\ NumQueries \in Nat
      BY <1>12, <2>2
    <3> HIDE DEF v, w
    <3>2. \A T : \A p \in 1..NumQueries :
            p \notin T /\ (\A i \in 1..NumQueries : i # p => w[i] = v[i]) =>
              Over(w, T \cup {p}, NumQueries) = Over(v, T, NumQueries) + w[p]
      BY <3>1, OverCharged
    <3>3. Over(w, S \cup {q}, NumQueries) = Over(v, S, NumQueries) + w[q]
      BY <2>1, <3>1, <3>2
    <3> QED BY <3>3 DEF v, w
  <2> QED BY <1>8, <2>3, ChargeType DEF ChargeOf, CalmInv
<1>14. ASSUME NEW p \in Queries, msg'[p].kind = "reading"
       PROVE  msg'[p].units <= xsiam' + ChargeOf(After(p))'
  <2>1. CASE p = q
    <3>1. msg'[p].units = left
      BY <1>7, <1>14, <2>1
    <3>2. ChargeOf(After(p))' \in Nat
      BY <1>12, OverType DEF ChargeOf
    <3> QED BY <1>4, <1>5, <3>1, <3>2
  <2>2. CASE p # q
    <3>1. msg[p].kind = "reading" /\ msg'[p] = msg[p] /\ p \in Travelling
      BY <1>7, <1>14, <2>2 DEF Travelling, NoMsg
    <3>2. After(p)' = After(p) \cup {q} /\ After(p) \subseteq Settling
      BY <1>2, <1>6, <3>1 DEF After, Send, CalmInv, TypeOK, Settling
    <3>3. ChargeOf(After(p))' = ChargeOf(After(p)) + c /\ ChargeOf(After(p)) \in Nat
      BY <1>13, <3>2 DEF ChargeOf
    <3>4. msg[p].units <= xsiam + ChargeOf(After(p)) /\ msg[p].units \in Nat
      BY <3>1 DEF CalmInv, FiguresBounded, After, TypeOK, Msgs
    <3> QED BY <1>3, <1>4, <1>5, <3>1, <3>3, <3>4
  <2> QED BY <2>1, <2>2
<1>15. ASSUME observed' # Unknown PROVE observed' <= xsiam' + ChargeOf(Settling)'
  <2>1. ChargeOf(Settling)' = ChargeOf(Settling) + c /\ ChargeOf(Settling) \in Nat
    BY <1>2, <1>13 DEF ChargeOf
  <2>2. observed <= xsiam + ChargeOf(Settling) /\ observed \in Nat
    BY <1>5, <1>15 DEF CalmInv, FiguresBounded, TypeOK
  <2> QED BY <1>3, <1>4, <1>5, <2>1, <2>2
<1>16. FiguresBounded'
  BY <1>14, <1>15 DEF FiguresBounded, After
<1> QED BY <1>11, <1>16

LEMMA DecideTarget ==
    ASSUME TypeOK, NEW q \in Queries, NEW r, Decide(q, r)
    PROVE  \E to \in {"refused", "approving", "gate2", "waiting"} : GoTo(q, to)
BY DEF Decide

\* Without faults the figures stay bounded by the truth.
LEMMA CalmStep == Faults = {} /\ CalmInv /\ [Next]_vars => CalmInv'
<1> SUFFICES ASSUME Faults = {}, CalmInv, [Next]_vars PROVE NetworkInv' /\ FiguresBounded'
  BY TypeStep, HoldsStep DEF CalmInv
<1> USE DEF xsiamVars, historyVars, gatewayVars
<1>1. ASSUME NEW q \in Queries,
             \/ RefuseLongSlots(q) \/ PassLongSlots(q) \/ ApproveByPrompt(q)
             \/ RefuseApproval(q) \/ ApproveByArgument(q) \/ AcquireSlot(q)
      PROVE  NetworkInv' /\ FiguresBounded'
  BY <1>1, PhaseMove
  DEF RefuseLongSlots, PassLongSlots, ApproveByPrompt, RefuseApproval, ApproveByArgument,
      AcquireSlot, Reading
<1>2. ASSUME NEW q \in Queries, UseObservation(q) PROVE NetworkInv' /\ FiguresBounded'
  <2>1. PICK to \in {"refused", "approving", "gate2", "waiting"} : GoTo(q, to)
    BY <1>2, DecideTarget DEF UseObservation, CalmInv
  <2> QED BY <1>2, <2>1, PhaseMove DEF UseObservation, Reading
<1>3. ASSUME NEW q \in Queries, AskQuota(q) PROVE NetworkInv' /\ FiguresBounded'
  <2>1. PICK to \in {"reading1", "reading2"} : GoTo(q, to)
    BY <1>3 DEF AskQuota
  <2> QED BY <1>3, <2>1, PhaseMove DEF AskQuota, Reading
<1>4. ASSUME NEW q \in Queries, QuotaArrives(q) PROVE NetworkInv' /\ FiguresBounded'
  <2>1. PICK to \in {"refused", "approving", "gate2", "waiting"} : GoTo(q, to)
    BY <1>4, DecideTarget DEF QuotaArrives, CalmInv
  <2>2. msg[q].kind = "reading" /\ phase[q] # "running"
    BY <1>4 DEF QuotaArrives, Deliverable, Reading, CalmInv, NetworkInv
  <2> QED BY <1>4, <2>1, <2>2, DropMove DEF QuotaArrives, Observe
<1>5. ASSUME NEW q \in Queries, AbortUnsubmitted(q) PROVE NetworkInv' /\ FiguresBounded'
  BY <1>5, DropMove DEF AbortUnsubmitted
<1>6. ASSUME NEW q \in Queries, Submit(q) PROVE NetworkInv' /\ FiguresBounded'
  <2>1. q \notin open
    BY <1>6 DEF Submit, CalmInv, NetworkInv, Running
  <2>2. Settling' = Settling /\ Running' = Running \cup {q}
    BY <1>6, <2>1 DEF Submit, GoTo, CalmInv, TypeOK, Settling, Running
  <2>3. msg[q] = NoMsg
    BY <1>6 DEF Submit, CalmInv, NetworkInv, Settling, Reading
  <2>4. \A p \in Queries : Reading(p)' <=> Reading(p)
    BY <1>6 DEF Reading, Submit, GoTo, CalmInv, TypeOK
  <2>5. NetworkInv'
    BY <1>6, <2>2, <2>3, <2>4 DEF Submit, NetworkInv, CalmInv
  <2>6. FiguresBounded'
    BY <1>6, <2>2 DEF Submit, FiguresBounded, CalmInv, ChargeOf
  <2> QED BY <2>5, <2>6
<1>7. ASSUME NEW q \in Queries, ReplyArrives(q) PROVE NetworkInv' /\ FiguresBounded'
  BY <1>7, ReplyMove DEF ReplyArrives, Deliverable
<1>8. ASSUME NEW q \in Queries, QuotaFails(q) \/ TimeOut(q) \/ AbortSubmitted(q) PROVE FALSE
  BY <1>8 DEF QuotaFails, TimeOut, AbortSubmitted
<1>9. ASSUME NEW q \in Queries, ReadQuota(q) PROVE NetworkInv' /\ FiguresBounded'
  BY <1>9, ReadMove
<1>10. ASSUME NEW q \in Queries, XsiamCompletes(q) PROVE NetworkInv' /\ FiguresBounded'
  BY <1>10, CompleteMove DEF XsiamCompletes
<1>11. CASE NewDay
  <2>1. Settling' = Settling /\ Running' = Running
    BY <1>11 DEF NewDay, Settling, Running
  <2>2. NetworkInv'
    BY <1>11, <2>1, LimitsAssumption DEF NewDay, NetworkInv, CalmInv, Reading
  <2>3. ASSUME NEW p \in Queries, msg[p].kind = "reading"
        PROVE  msg[p].units <= xsiam' + ChargeOf(After(p))
    <3>1. msg[p].units <= xsiam + ChargeOf(After(p))
      BY <2>3 DEF CalmInv, FiguresBounded, After
    <3>2. msg[p].units \in Nat /\ xsiam \in Nat /\ ChargeOf(After(p)) \in Nat
      BY ChargeType DEF CalmInv, TypeOK, Msgs
    <3>3. xsiam <= xsiam' /\ xsiam' \in Nat
      BY <1>11, LimitsAssumption DEF NewDay, CalmInv, NetworkInv
    <3> QED BY <3>1, <3>2, <3>3
  <2>4. \A p \in Queries : ChargeOf(After(p))' = ChargeOf(After(p))
    BY <1>11, <2>1 DEF NewDay, ChargeOf, After
  <2>5. FiguresBounded'
    BY <1>11, <2>3, <2>4 DEF NewDay, FiguresBounded, After
  <2> QED BY <2>2, <2>5
<1>12. ASSUME UNCHANGED <<phase, req, observed, xsiamVars>>
       PROVE  NetworkInv' /\ FiguresBounded'
  <2>1. NetworkInv'
    BY <1>12 DEF CalmInv, NetworkInv, Running, Settling, Reading
  <2>2. FiguresBounded'
    BY <1>12 DEF CalmInv, FiguresBounded, Settling, ChargeOf
  <2> QED BY <2>1, <2>2
<1>13. ASSUME \/ \E q \in Queries : SlotAges(q)
              \/ ObservationAges \/ UNCHANGED vars
       PROVE  UNCHANGED <<phase, req, observed, xsiamVars>>
  BY <1>13 DEF SlotAges, ObservationAges, vars
<1>14. ~SpendElsewhere
  BY DEF SpendElsewhere
<1> QED BY <1>1, <1>2, <1>3, <1>4, <1>5, <1>6, <1>7, <1>8, <1>9, <1>10, <1>11, <1>12,
           <1>13, <1>14 DEF Next, Idle

LEMMA CalmInit == Init => CalmInv
<1> SUFFICES ASSUME Init PROVE CalmInv
  OBVIOUS
<1>1. TypeOK /\ HoldsMatchPhases
  BY InitType, FS_EmptySet, LimitsAssumption DEF Init, HoldsMatchPhases
<1>2. NetworkInv
  <2>1. \A q \in Queries : 0 <= req[q].high
    BY <1>1, RequestFields DEF TypeOK
  <2> QED BY <2>1, LimitsAssumption DEF Init, NetworkInv, Reading, Settling
<1>3. FiguresBounded
  BY DEF Init, FiguresBounded, NoMsg
<1> QED BY <1>1, <1>2, <1>3 DEF CalmInv

LEMMA CalmCorrect ==
    ASSUME Faults = {}
    PROVE  Spec => []CalmInv
<1>1. CalmInv /\ [Next]_vars => CalmInv'
  BY CalmStep
<1> QED BY CalmInit, <1>1, PTL DEF Spec

\* While nothing outside the gateway fails, no figure the guard decides on is
\* better than the truth by more than the charges it is about to hear of.
THEOREM FiguresCorrect ==
    ASSUME Faults = {}
    PROVE  Spec => []FiguresBounded
<1>1. CalmInv => FiguresBounded
  BY DEF CalmInv
<1> QED BY <1>1, CalmCorrect, PTL

(***************************************************************************)
(* What a step does to the true budget                                     *)
(***************************************************************************)

\* Query q is admitted, and the true quota then leaves its reserve.
Admits(q) ==
    /\ q \notin Outstanding /\ Outstanding' = Outstanding \cup {q}
    /\ inflight' = inflight \cup {q}
    /\ xsiam' = xsiam
    /\ Headroom' >= req[q].reserve

\* Query q ends and is charged u units.
Settles(q, u) ==
    /\ q \in Outstanding /\ Outstanding' = Outstanding \ {q}
    /\ inflight' \subseteq inflight
    /\ xsiam' = Minus(xsiam, u)

Renews == Outstanding' = Outstanding /\ inflight' = inflight /\ xsiam' = Budget
Idles  == Outstanding' = Outstanding /\ inflight' \subseteq inflight /\ xsiam' = xsiam

BudgetStep ==
    /\ req' = req
    /\ \/ \E q \in Queries : Admits(q)
       \/ \E q \in Queries : \E u \in 0..req[q].high : Settles(q, u)
       \/ Renews
       \/ Idles

\* The reservations of the queries that are charged but not heard of cover what
\* the guard's figure is too high by.
LEMMA FigureCovered ==
    ASSUME CalmInv, NEW r \in Nat, r <= xsiam + ChargeOf(Settling)
    PROVE  r - Held <= xsiam - UnitsOf(Outstanding)
<1> DEFINE high == [q \in Queries |-> req[q].high]
<1>1. high \in [1..NumQueries -> Nat] /\ charge \in [1..NumQueries -> Nat]
  BY UnitsType DEF CalmInv, TypeOK
<1>2. \A q \in 1..NumQueries : charge[q] <= high[q]
  BY DEF CalmInv, NetworkInv
<1>3. \A q \in 1..NumQueries :
        /\ q \in inflight <=> q \in Outstanding \/ q \in Settling
        /\ ~(q \in Outstanding /\ q \in Settling)
  BY DEF CalmInv, HoldsMatchPhases, NetworkInv, Running, Outstanding, Settling
<1> HIDE DEF high
<1>4. Over(charge, Settling, NumQueries) <= Over(high, Settling, NumQueries)
  BY <1>1, <1>2, OverMonotone
<1>5. Over(high, inflight, NumQueries)
        = Over(high, Outstanding, NumQueries) + Over(high, Settling, NumQueries)
  BY <1>1, <1>3, OverSplit
<1>6. /\ Over(high, inflight, NumQueries) \in Nat
      /\ Over(high, Outstanding, NumQueries) \in Nat
      /\ Over(high, Settling, NumQueries) \in Nat
      /\ Over(charge, Settling, NumQueries) \in Nat
  BY <1>1, OverType
<1>7. /\ Held = Over(high, inflight, NumQueries)
      /\ UnitsOf(Outstanding) = Over(high, Outstanding, NumQueries)
      /\ ChargeOf(Settling) = Over(charge, Settling, NumQueries)
  BY DEF Held, UnitsOf, ChargeOf, high
<1>8. xsiam \in Nat
  BY DEF CalmInv, TypeOK
<1> QED BY <1>4, <1>5, <1>6, <1>7, <1>8

\* A decision on a bounded figure admits q only if the true quota leaves its
\* reserve, and otherwise reserves nothing.
LEMMA DecideBudget ==
    ASSUME CalmInv, NEW q \in Queries, NEW r \in Nat, r <= xsiam + ChargeOf(Settling),
           phase[q] \in {"gate1", "reading1", "gate2", "reading2"},
           Decide(q, r), UNCHANGED <<req, xsiam, open>>
    PROVE  BudgetStep
<1>1. q \notin open /\ q \notin Outstanding
  BY DEF CalmInv, NetworkInv, Running, Outstanding
<1>2. CASE \E to \in {"refused", "approving", "gate2"} : GoTo(q, to) /\ inflight' = inflight
  <2>1. Outstanding' = Outstanding
    BY <1>2 DEF GoTo, Outstanding, CalmInv, TypeOK
  <2> QED BY <1>2, <2>1 DEF BudgetStep, Idles
<1>3. CASE GoTo(q, "waiting") /\ inflight' = inflight \cup {q} /\ ReserveAllows(q, r)
  <2>1. Outstanding' = Outstanding \cup {q}
    BY <1>3 DEF GoTo, Outstanding, CalmInv, TypeOK
  <2>2. r - Held - req[q].high >= req[q].reserve
    BY <1>3, NoFigureAssumption DEF ReserveAllows
  <2>3. r - Held <= xsiam - UnitsOf(Outstanding)
    BY FigureCovered
  <2>4. UnitsOf(Outstanding)' = UnitsOf(Outstanding) + req[q].high
    <3> DEFINE high == [p \in Queries |-> req[p].high]
    <3>1. high \in [1..NumQueries -> Nat] /\ high[q] = req[q].high
      BY UnitsType DEF CalmInv
    <3>2. UnitsOf(Outstanding)' = Over(high, Outstanding \cup {q}, NumQueries)
      BY <2>1 DEF UnitsOf
    <3> HIDE DEF high
    <3>3. Over(high, Outstanding \cup {q}, NumQueries)
            = Over(high, Outstanding, NumQueries) + high[q]
      BY <1>1, <3>1, OverInsert
    <3> QED BY <3>1, <3>2, <3>3 DEF UnitsOf, high
  <2>5. /\ Held \in Nat /\ UnitsOf(Outstanding) \in Nat /\ xsiam \in Nat
        /\ req[q].high \in Nat /\ req[q].reserve \in Nat
    BY UnitsType, RequestFields DEF CalmInv, TypeOK, Held
  <2>6. Headroom' >= req[q].reserve
    BY <2>2, <2>3, <2>4, <2>5 DEF Headroom
  <2>7. Admits(q)
    BY <1>1, <1>3, <2>1, <2>6 DEF Admits
  <2> QED BY <2>7 DEF BudgetStep
<1> QED BY <1>2, <1>3 DEF Decide

LEMMA BudgetSteps == Faults = {} /\ CalmInv /\ [Next]_vars => BudgetStep
<1> SUFFICES ASSUME Faults = {}, CalmInv, [Next]_vars PROVE BudgetStep
  OBVIOUS
<1> USE DEF xsiamVars, historyVars, gatewayVars
<1>1. ASSUME NEW q \in Queries,
             \/ RefuseLongSlots(q) \/ PassLongSlots(q) \/ AskQuota(q) \/ ApproveByPrompt(q)
             \/ RefuseApproval(q) \/ ApproveByArgument(q) \/ AcquireSlot(q)
      PROVE  BudgetStep
  <2>1. Outstanding' = Outstanding
    BY <1>1
    DEF RefuseLongSlots, PassLongSlots, AskQuota, ApproveByPrompt, RefuseApproval,
        ApproveByArgument, AcquireSlot, GoTo, Outstanding, CalmInv, TypeOK
  <2> QED BY <1>1, <2>1
          DEF RefuseLongSlots, PassLongSlots, AskQuota, ApproveByPrompt, RefuseApproval,
              ApproveByArgument, AcquireSlot, BudgetStep, Idles
<1>2. ASSUME NEW q \in Queries, UseObservation(q) PROVE BudgetStep
  <2>1. observed \in Nat /\ observed <= xsiam + ChargeOf(Settling)
    BY <1>2 DEF UseObservation, CalmInv, TypeOK, FiguresBounded
  <2> QED BY <1>2, <2>1, DecideBudget DEF UseObservation
<1>3. ASSUME NEW q \in Queries, QuotaArrives(q) PROVE BudgetStep
  <2>1. msg[q].kind = "reading"
    BY <1>3 DEF QuotaArrives, Deliverable, CalmInv, NetworkInv
  <2>2. msg[q].units <= xsiam + ChargeOf(After(q))
    BY <2>1 DEF CalmInv, FiguresBounded, After
  <2>3. ChargeOf(After(q)) <= ChargeOf(Settling)
    BY ChargeMonotone DEF After, CalmInv
  <2>4. /\ msg[q].units \in Nat /\ xsiam \in Nat
        /\ ChargeOf(After(q)) \in Nat /\ ChargeOf(Settling) \in Nat
    BY ChargeType DEF CalmInv, TypeOK, Msgs
  <2>5. msg[q].units <= xsiam + ChargeOf(Settling)
    BY <2>2, <2>3, <2>4
  <2> QED BY <1>3, <2>4, <2>5, DecideBudget DEF QuotaArrives, Reading
<1>4. ASSUME NEW q \in Queries, Submit(q) PROVE BudgetStep
  <2>1. Outstanding' = Outstanding
    BY <1>4 DEF Submit, GoTo, Outstanding, CalmInv, TypeOK
  <2> QED BY <1>4, <2>1 DEF Submit, BudgetStep, Idles
<1>5. ASSUME NEW q \in Queries, ReplyArrives(q) PROVE BudgetStep
  <2>1. q \notin open
    BY <1>5 DEF ReplyArrives, Deliverable, CalmInv, NetworkInv, Reading, Settling
  <2>2. Outstanding' = Outstanding
    BY <1>5, <2>1 DEF ReplyArrives, GoTo, Outstanding, CalmInv, TypeOK
  <2> QED BY <1>5, <2>2 DEF ReplyArrives, Release, BudgetStep, Idles
<1>6. ASSUME NEW q \in Queries, AbortUnsubmitted(q) PROVE BudgetStep
  <2>1. q \notin open
    BY <1>6 DEF AbortUnsubmitted, CalmInv, NetworkInv, Running
  <2>2. Outstanding' = Outstanding \ {q}
    BY <1>6, <2>1 DEF AbortUnsubmitted, GoTo, Outstanding, CalmInv, TypeOK
  <2>3. xsiam' = Minus(xsiam, 0) /\ xsiam' = xsiam
    BY <1>6 DEF AbortUnsubmitted, Minus, CalmInv, TypeOK
  <2>4. 0 \in 0..req[q].high
    BY RequestFields DEF CalmInv, TypeOK
  <2>5. req' = req /\ inflight' \subseteq inflight
    BY <1>6 DEF AbortUnsubmitted, Release
  <2>6. CASE q \in Outstanding
    BY <2>2, <2>3, <2>4, <2>5, <2>6 DEF BudgetStep, Settles
  <2>7. CASE q \notin Outstanding
    BY <2>2, <2>3, <2>5, <2>7 DEF BudgetStep, Idles
  <2> QED BY <2>6, <2>7
<1>7. ASSUME NEW q \in Queries, XsiamCompletes(q) PROVE BudgetStep
  <2>1. PICK c \in 0..req[q].high, kind \in {"reading", "cost", "failure"} : Complete(q, c, kind)
    BY <1>7 DEF XsiamCompletes
  <2>2. q \in open /\ phase[q] = "running"
    BY <2>1 DEF Complete, CalmInv, NetworkInv, Running
  <2>3. Outstanding' = Outstanding \ {q} /\ q \in Outstanding
    BY <2>1, <2>2 DEF Complete, Outstanding
  <2> QED BY <2>1, <2>3 DEF Complete, BudgetStep, Settles
<1>8. CASE NewDay
  <2>1. Outstanding' = Outstanding
    BY <1>8 DEF NewDay, Outstanding
  <2> QED BY <1>8, <2>1 DEF NewDay, BudgetStep, Renews
<1>9. ASSUME \/ \E q \in Queries : SlotAges(q) \/ ReadQuota(q)
             \/ ObservationAges \/ UNCHANGED vars
      PROVE  BudgetStep
  <2>1. UNCHANGED <<phase, req, inflight, open, xsiam>>
    BY <1>9 DEF SlotAges, ReadQuota, ObservationAges, vars
  <2> QED BY <2>1 DEF BudgetStep, Idles, Outstanding
<1>10. ASSUME NEW q \in Queries, QuotaFails(q) \/ TimeOut(q) \/ AbortSubmitted(q) PROVE FALSE
  BY <1>10 DEF QuotaFails, TimeOut, AbortSubmitted
<1>11. ~SpendElsewhere
  BY DEF SpendElsewhere
<1> QED BY <1>1, <1>2, <1>3, <1>4, <1>5, <1>6, <1>7, <1>8, <1>9, <1>10, <1>11 DEF Next, Idle

(***************************************************************************)
(* The reserve                                                             *)
(***************************************************************************)

\* A query is admitted only if the tenant's true quota, with every admitted query
\* counted at its whole estimate, then leaves the reserve of its own policy.
THEOREM AdmissionCorrect ==
    ASSUME Faults = {}
    PROVE  Spec => AdmissionKeepsReserve
<1>1. CalmInv /\ [Next]_vars =>
        [\A q \in Queries : q \in inflight' \ inflight => Headroom' >= req[q].reserve]_vars
  <2> SUFFICES ASSUME CalmInv, [Next]_vars, NEW q \in Queries, q \in inflight' \ inflight
               PROVE  Headroom' >= req[q].reserve
    OBVIOUS
  <2>1. BudgetStep
    BY BudgetSteps
  <2>2. PICK p \in Queries : Admits(p)
    BY <2>1 DEF BudgetStep, Settles, Renews, Idles
  <2>3. p = q
    BY <2>2 DEF Admits
  <2> QED BY <2>2, <2>3 DEF Admits
<1> QED BY <1>1, CalmCorrect, PTL DEF Spec, AdmissionKeepsReserve

\* Whatever is set aside is summed the same way by the guard and by the promise.
LEMMA SetAsideTotal == Total(SetAside, NumQueries) = UnitsOf(Outstanding)
<1>1. SetAside =
        [i \in 1..NumQueries |->
           IF i \in Outstanding THEN [q \in Queries |-> req[q].high][i] ELSE 0]
  BY DEF SetAside
<1> QED BY <1>1 DEF UnitsOf, Over

\* A query that ends leaves at least the headroom there was.
LEMMA SettlesHeadroom ==
    ASSUME CalmInv, req' = req, NEW q \in Queries,
           NEW u \in Nat, u <= req[q].high, Settles(q, u)
    PROVE  Headroom' >= Headroom
<1> DEFINE high == [p \in Queries |-> req[p].high]
<1>1. high \in [1..NumQueries -> Nat] /\ high[q] = req[q].high
  BY UnitsType DEF CalmInv
<1>2. /\ UnitsOf(Outstanding) = Over(high, Outstanding, NumQueries)
      /\ UnitsOf(Outstanding)' = Over(high, Outstanding \ {q}, NumQueries)
  BY DEF UnitsOf, Settles
<1> HIDE DEF high
<1>3. Over(high, Outstanding, NumQueries)
        = Over(high, Outstanding \ {q}, NumQueries) + high[q]
  BY <1>1, OverMember DEF Settles
<1>4. /\ Over(high, Outstanding, NumQueries) \in Nat
      /\ Over(high, Outstanding \ {q}, NumQueries) \in Nat
  BY <1>1, OverType
<1>5. xsiam \in Nat /\ req[q].high \in Nat
  BY RequestFields DEF CalmInv, TypeOK
<1>6. xsiam' \in Nat /\ xsiam <= xsiam' + u
  BY <1>5, MinusBounds DEF Settles
<1> DEFINE before == Over(high, Outstanding, NumQueries)
           after  == Over(high, Outstanding \ {q}, NumQueries)
<1>7. before \in Nat /\ after \in Nat /\ before = after + req[q].high
  BY <1>1, <1>3, <1>4
<1>8. Headroom = xsiam - before /\ Headroom' = xsiam' - after
  BY <1>2 DEF Headroom
<1> HIDE DEF before, after
<1>9. xsiam' - after >= xsiam - before
  BY <1>5, <1>6, <1>7, ChargeWithin
<1> QED BY <1>8, <1>9

LEMMA ReserveStep == ReserveKept /\ CalmInv /\ CalmInv' /\ BudgetStep => ReserveKept'
<1> SUFFICES ASSUME ReserveKept, CalmInv, CalmInv', BudgetStep PROVE ReserveKept'
  OBVIOUS
<1>1. PICK r \in Requests : Headroom >= r.reserve
  BY DEF ReserveKept
<1>2. Headroom \in Int /\ Headroom' \in Int /\ r.reserve \in Nat /\ req' = req
  <2>1. UnitsOf(Outstanding) \in Nat /\ xsiam \in Nat
    BY UnitsType DEF CalmInv, TypeOK
  <2>2. UnitsOf(Outstanding)' \in Nat /\ xsiam' \in Nat
    <3>1. \A q \in Queries : req'[q].high \in Nat
      BY RequestFields DEF BudgetStep, CalmInv, TypeOK
    <3>2. [q \in Queries |-> req'[q].high] \in [1..NumQueries -> Nat]
      BY <3>1
    <3> QED BY <3>2, OverType DEF UnitsOf, CalmInv, TypeOK
  <2> QED BY <2>1, <2>2, RequestFields DEF Headroom, BudgetStep
<1>3. ASSUME Headroom' >= Headroom PROVE ReserveKept'
  BY <1>1, <1>2, <1>3 DEF ReserveKept
<1>4. ASSUME NEW q \in Queries, Admits(q) PROVE ReserveKept'
  BY <1>4 DEF Admits, ReserveKept, CalmInv, TypeOK
<1>5. ASSUME NEW q \in Queries, NEW u \in 0..req[q].high, Settles(q, u) PROVE ReserveKept'
  <2>1. req[q].high \in Nat
    BY RequestFields DEF CalmInv, TypeOK
  <2>2. u \in Nat /\ u <= req[q].high
    BY <2>1
  <2> QED BY <1>2, <1>3, <1>5, <2>2, SettlesHeadroom
<1>6. ASSUME Renews \/ Idles PROVE ReserveKept'
  <2>1. UnitsOf(Outstanding)' = UnitsOf(Outstanding) /\ UnitsOf(Outstanding) \in Nat
    BY <1>2, <1>6, UnitsType DEF UnitsOf, Renews, Idles, CalmInv
  <2>2. xsiam \in Nat /\ xsiam' >= xsiam /\ xsiam' \in Nat
    BY <1>6, LimitsAssumption DEF Renews, Idles, CalmInv, NetworkInv, TypeOK
  <2> QED BY <1>3, <2>1, <2>2 DEF Headroom
<1> QED BY <1>4, <1>5, <1>6 DEF BudgetStep

\* No query the guard lets through takes the tenant's true quota below the
\* smallest reserve in force, if the day starts with at least that much.
THEOREM ReserveCorrect ==
    ASSUME Faults = {}, \E r \in Requests : Budget >= r.reserve
    PROVE  Spec => []ReserveKept
<1>1. Init => ReserveKept
  <2> SUFFICES ASSUME Init PROVE ReserveKept
    OBVIOUS
  <2>1. UnitsOf(Outstanding) = 0
    <3>1. \A i \in 1..NumQueries : i \notin Outstanding
      BY DEF Init, Outstanding
    <3> QED BY <3>1, InitType, UnitsType, OverNone DEF UnitsOf
  <2> QED BY <2>1, LimitsAssumption DEF Init, Headroom, ReserveKept
<1>2. ReserveKept /\ CalmInv /\ CalmInv' /\ [Next]_vars => ReserveKept'
  BY BudgetSteps, ReserveStep
<1> QED BY <1>1, <1>2, CalmCorrect, PTL DEF Spec

(***************************************************************************)
(* The refinement                                                          *)
(***************************************************************************)

\* The smallest reserve exists.
LEMMA SmallestReserveMin ==
    SmallestReserve \in Nat /\ \A r \in Requests : SmallestReserve <= r.reserve
<1> DEFINE T == {r.reserve : r \in Requests}
<1>1. T \in SUBSET Nat /\ T # {}
  BY RequestFields, RequestsAssumption
<1>2. PICK m \in T : \A k \in T : m <= k
  <2> HIDE DEF T
  <2> QED BY <1>1, LeastNat
<1>3. m \in T /\ \A r \in Requests : m <= r.reserve
  BY <1>2
<1>4. SmallestReserve \in T /\ \A r \in Requests : SmallestReserve <= r.reserve
  BY <1>3 DEF SmallestReserve
<1> QED BY <1>1, <1>4

\* Both modules sum and subtract in the same way.
LEMMA SameArithmetic ==
    /\ \A w, n : Promise!Total(w, n) = Total(w, n)
    /\ \A a, b : Promise!Minus(a, b) = Minus(a, b)
BY DEF Promise!Total, Promise!PartialSums, Promise!Minus, Total, PartialSums, Minus

LEMMA PromiseStep ==
    CalmInv /\ BudgetStep => [Promise!Next]_(Promise!absVars)
<1> SUFFICES ASSUME CalmInv, BudgetStep PROVE [Promise!Next]_(Promise!absVars)
  OBVIOUS
<1>1. req' = req /\ \A q \in Queries : req[q].high \in Nat /\ req[q].high > 0
  BY RequestFields DEF BudgetStep, CalmInv, TypeOK
<1>2. ASSUME NEW q \in Queries, Admits(q) PROVE Promise!Next
  <2>1. SetAside[q] = 0 /\ SetAside' = [SetAside EXCEPT ![q] = req[q].high]
    BY <1>1, <1>2 DEF SetAside, Admits
  <2>2. UnitsOf(Outstanding)' = UnitsOf(Outstanding) + req[q].high
    <3> DEFINE high == [p \in Queries |-> req[p].high]
    <3>1. high \in [1..NumQueries -> Nat] /\ high[q] = req[q].high
      BY UnitsType DEF CalmInv
    <3>2. UnitsOf(Outstanding)' = Over(high, Outstanding \cup {q}, NumQueries)
      BY <1>1, <1>2 DEF UnitsOf, Admits
    <3> HIDE DEF high
    <3>3. Over(high, Outstanding \cup {q}, NumQueries)
            = Over(high, Outstanding, NumQueries) + high[q]
      BY <1>2, <3>1, OverInsert DEF Admits
    <3> QED BY <3>1, <3>2, <3>3 DEF UnitsOf, high
  <2>3. /\ xsiam - (UnitsOf(Outstanding) + req[q].high) >= req[q].reserve
        /\ req[q].reserve >= SmallestReserve /\ req[q].reserve \in Nat
    BY <1>2, <2>2, SmallestReserveMin, RequestFields
    DEF Admits, Headroom, CalmInv, TypeOK
  <2>4. /\ UnitsOf(Outstanding) \in Nat /\ xsiam \in Nat /\ xsiam <= Budget
        /\ SmallestReserve \in Nat /\ Budget \in Nat
    BY UnitsType, SmallestReserveMin, LimitsAssumption DEF CalmInv, TypeOK, NetworkInv
  <2>5. req[q].high \in 1..Budget
    BY <1>1, <2>3, <2>4
  <2>6. xsiam - Total(SetAside, NumQueries) - req[q].high >= SmallestReserve
    BY <1>1, <2>3, <2>4, SetAsideTotal
  <2>7. Promise!Admit(q, req[q].high)
    BY <1>2, <2>1, <2>6, SameArithmetic DEF Promise!Admit, Admits
  <2> QED BY <2>5, <2>7 DEF Promise!Next, Promise!Queries
<1>3. ASSUME NEW q \in Queries, NEW u \in 0..req[q].high, Settles(q, u) PROVE Promise!Next
  <2>1. SetAside[q] = req[q].high /\ SetAside' = [SetAside EXCEPT ![q] = 0]
    BY <1>1, <1>3 DEF SetAside, Settles
  <2>2. Promise!Settle(q, u)
    BY <1>1, <1>3, <2>1, SameArithmetic DEF Promise!Settle, Settles
  <2> QED BY <2>1, <2>2 DEF Promise!Next, Promise!Queries
<1>4. ASSUME Renews PROVE Promise!Next
  BY <1>1, <1>4 DEF Renews, SetAside, Promise!Next, Promise!NewDay
<1>5. ASSUME Idles PROVE UNCHANGED Promise!absVars
  BY <1>1, <1>5 DEF Idles, SetAside, Promise!absVars
<1> QED BY <1>2, <1>3, <1>4, <1>5 DEF BudgetStep

\* The cost guard implements QuotaReserve: with stale and travelling figures it
\* admits no query that a guard looking at the tenant's true budget would refuse.
THEOREM PromiseKept ==
    ASSUME Faults = {}
    PROVE  Spec => KeepsPromise
<1>1. Init => Promise!Init
  <2> SUFFICES ASSUME Init PROVE Promise!Init
    OBVIOUS
  <2>1. \A q \in Queries : q \notin Outstanding
    BY DEF Init, Outstanding
  <2> QED BY <2>1 DEF Init, Promise!Init, Promise!Queries, SetAside
<1>2. CalmInv /\ [Next]_vars => [Promise!Next]_(Promise!absVars)
  BY BudgetSteps, PromiseStep
<1> QED BY <1>1, <1>2, CalmCorrect, PTL DEF Spec, KeepsPromise, Promise!Spec

(***************************************************************************)
(* The result cache of the guard (module ResultCache): it serves own and   *)
(* fresh replies only, for every number of calls, credentials and entries  *)
(* and however the key is rotated.                                         *)
(***************************************************************************)

\* What an entry says of itself is true: it is filed under the credential that
\* fetched it and dated by the moment its reply was made.
EntriesAreHonest ==
    \A i \in DOMAIN cache :
        cache[i].by = cache[i].credential /\ cache[i].made = cache[i].stored

\* A call has its fingerprint once it is asked for, its fetcher from "starting"
\* on, and a running query was recorded with the key of its fetcher.
CallsAreKeyed ==
    \A c \in Calls :
        /\ stage[c] # "new" => keyed[c] \in Credentials
        /\ stage[c] \in {"starting", "running", "replied"} => held[c] \in Credentials
        /\ stage[c] \in {"running", "replied"} => fetched[c] = held[c]

\* A call is served at the end of its life only: its key stays what it was.
HitsEndCalls ==
    /\ served \in [Calls -> SUBSET [entry: Entry, at: Nat]]
    /\ \A c \in Calls : served[c] # {} => stage[c] = "ended"

CacheInv ==
    CacheTypeOK /\ EntriesAreHonest /\ CallsAreKeyed /\ HitsEndCalls /\ HitsAreOwn /\ HitsAreFresh

\* The part of CacheTypeOK that is about the cache, of any sequence s.
SameKey(d, e) == d.scope = e.scope /\ d.text = e.text /\ d.credential = e.credential
Honest(e) == e.by = e.credential /\ e.made = e.stored
Filed(s) ==
    /\ s \in Seq(Entry)
    /\ \A i, j \in DOMAIN s : SameKey(s[i], s[j]) => i = j
    /\ \A i \in DOMAIN s : Honest(s[i])

\* The type of everything else.
CallsTypeOK ==
    /\ stage \in [Calls -> Stages]
    /\ ask \in [Calls -> [scope: Scopes, text: Texts]]
    /\ keyed \in [Calls -> Credentials \cup {NoKey}]
    /\ held \in [Calls -> Credentials \cup {NoKey}]
    /\ fetched \in [Calls -> Credentials \cup {NoKey}]
    /\ key \in Credentials /\ now \in 0..MaxTime

USE CacheAssumption

(***************************************************************************)
(* The cache as a sequence                                                 *)
(***************************************************************************)

LEMMA FiledMeans ==
    CacheTypeOK /\ EntriesAreHonest <=> CallsTypeOK /\ Filed(cache) /\ Len(cache) <= MaxEntries
BY DEF CacheTypeOK, CallsTypeOK, EntriesAreHonest, Filed, Honest, SameKey

\* Without an element, every other one stays, in order.
LEMMA Removed ==
    ASSUME NEW S, NEW s \in Seq(S), NEW i \in DOMAIN s
    PROVE  /\ RemoveAt(s, i) \in Seq(S) /\ Len(RemoveAt(s, i)) = Len(s) - 1
           /\ \A j \in 1..(Len(s) - 1) : RemoveAt(s, i)[j] = IF j < i THEN s[j] ELSE s[j + 1]
<1>1. i \in 1..Len(s) /\ Len(s) \in Nat
  OBVIOUS
<1> DEFINE a == SubSeq(s, 1, i - 1)
           b == SubSeq(s, i + 1, Len(s))
<1>2. a \in Seq(S) /\ Len(a) = i - 1 /\ \A j \in 1..(i - 1) : a[j] = s[j]
  BY <1>1
<1>3. b \in Seq(S) /\ Len(b) = Len(s) - i /\ \A j \in 1..(Len(s) - i) : b[j] = s[i + j]
  BY <1>1
<1> HIDE DEF a, b
<1>4. a \o b \in Seq(S) /\ Len(a \o b) = Len(s) - 1
  BY <1>1, <1>2, <1>3
<1>5. \A j \in 1..(Len(s) - 1) : (a \o b)[j] = IF j < i THEN s[j] ELSE s[j + 1]
  <2> TAKE j \in 1..(Len(s) - 1)
  <2>1. ASSUME j < i PROVE (a \o b)[j] = s[j]
    BY <2>1, <1>1, <1>2, <1>3
  <2>2. ASSUME ~(j < i) PROVE (a \o b)[j] = s[j + 1]
    <3>1. j - (i - 1) \in 1..(Len(s) - i) /\ i + (j - (i - 1)) = j + 1
      BY <2>2, <1>1
    <3>2. (a \o b)[j] = b[j - (i - 1)]
      <4>1. j \in 1..(Len(a) + Len(b)) /\ ~(j <= Len(a))
        BY <2>2, <1>1, <1>2, <1>3
      <4>2. a \in Seq(S) /\ b \in Seq(S)
        BY <1>2, <1>3
      <4>3. \A k \in 1..(Len(a) + Len(b)) :
               (a \o b)[k] = IF k <= Len(a) THEN a[k] ELSE b[k - Len(a)]
        BY <4>2, ConcatProperties, Zenon
      <4>4. (a \o b)[j] = b[j - Len(a)]
        BY <4>1, <4>3, Zenon
      <4> QED BY <4>4, <1>2
    <3> QED BY <3>1, <3>2, <1>3
  <2> QED BY <2>1, <2>2
<1>6. RemoveAt(s, i) = a \o b
  BY DEF RemoveAt, a, b
<1> QED BY <1>4, <1>5, <1>6

\* The rest of the cache is still filed by key, and holds nothing of call c.
LEMMA WithoutIsFiled ==
    ASSUME Filed(cache), NEW c
    PROVE  /\ Filed(Without(c))
           /\ Len(Without(c)) <= Len(cache)
           /\ At(c) # {} => Len(Without(c)) < Len(cache)
           /\ \A i \in DOMAIN Without(c) : ~Names(c, Without(c)[i])
<1>0. cache \in Seq(Entry)
  BY DEF Filed
<1>1. CASE At(c) = {}
  <2>1. Without(c) = cache
    BY <1>1 DEF Without
  <2> QED BY <2>1, <1>1, <1>0 DEF At
<1>2. CASE At(c) # {}
  <2>1. PICK i \in At(c) : Without(c) = RemoveAt(cache, i)
    BY <1>2 DEF Without
  <2>2. i \in DOMAIN cache /\ i \in 1..Len(cache) /\ Names(c, cache[i])
    BY <2>1, <1>0 DEF At
  <2> DEFINE r == RemoveAt(cache, i)
  <2>3. /\ r \in Seq(Entry) /\ Len(r) = Len(cache) - 1
        /\ \A j \in 1..(Len(cache) - 1) : r[j] = IF j < i THEN cache[j] ELSE cache[j + 1]
    BY <1>0, <2>2, Removed
  <2> HIDE DEF r
  <2>4. \A j \in DOMAIN r : \E k \in DOMAIN cache : k # i /\ r[j] = cache[k]
                                                    /\ k = IF j < i THEN j ELSE j + 1
    <3> TAKE j \in DOMAIN r
    <3>1. j \in 1..(Len(cache) - 1)
      BY <2>3
    <3>2. CASE j < i
      BY <3>1, <3>2, <2>2, <2>3, <1>0
    <3>3. CASE ~(j < i)
      BY <3>1, <3>3, <2>2, <2>3, <1>0
    <3> QED BY <3>2, <3>3
  <2>5. ASSUME NEW j \in DOMAIN r, NEW k \in DOMAIN r, SameKey(r[j], r[k])
        PROVE  j = k
    <3>1. PICK m \in DOMAIN cache : r[j] = cache[m] /\ m = IF j < i THEN j ELSE j + 1
      BY <2>4
    <3>2. PICK n \in DOMAIN cache : r[k] = cache[n] /\ n = IF k < i THEN k ELSE k + 1
      BY <2>4
    <3>3. m = n
      BY <3>1, <3>2, <2>5 DEF Filed
    <3>4. j \in Int /\ k \in Int /\ i \in Int
      BY <2>2, <2>3
    <3> QED BY <3>1, <3>2, <3>3, <3>4
  <2>6. \A j \in DOMAIN r : Honest(r[j]) /\ ~Names(c, r[j])
    <3> TAKE j \in DOMAIN r
    <3>1. PICK k \in DOMAIN cache : k # i /\ r[j] = cache[k]
      BY <2>4
    <3>2. ~Names(c, cache[k])
      BY <3>1, <2>2 DEF Filed, Names, SameKey
    <3> QED BY <3>1, <3>2 DEF Filed
  <2>7. Filed(r)
    BY <2>3, <2>5, <2>6 DEF Filed
  <2>8. Len(r) < Len(cache) /\ Len(r) <= Len(cache)
    BY <2>3, <1>0
  <2> QED BY <2>1, <2>6, <2>7, <2>8 DEF r
<1> QED BY <1>1, <1>2

\* An entry of call c put at the end leaves the cache filed.
LEMMA AppendIsFiled ==
    ASSUME Filed(cache), NEW c, NEW e \in Entry, Names(c, e), Honest(e)
    PROVE  /\ Filed(Append(Without(c), e))
           /\ Len(Append(Without(c), e)) = Len(Without(c)) + 1
<1> DEFINE w == Without(c)
<1>1. w \in Seq(Entry) /\ Filed(w) /\ \A i \in DOMAIN w : ~Names(c, w[i])
  BY WithoutIsFiled DEF Filed
<1> HIDE DEF w
<1> DEFINE a == Append(w, e)
<1>2. /\ a \in Seq(Entry) /\ Len(a) = Len(w) + 1 /\ Len(w) \in Nat
      /\ DOMAIN a = 1..(Len(w) + 1) /\ DOMAIN w = 1..Len(w)
      /\ \A i \in 1..Len(w) : a[i] = w[i]
      /\ a[Len(w) + 1] = e
  BY <1>1
<1> HIDE DEF a
<1>3. \A i \in DOMAIN a : (i \in DOMAIN w /\ a[i] = w[i]) \/ (i = Len(w) + 1 /\ a[i] = e)
  BY <1>2
<1>4. \A i \in DOMAIN w : ~SameKey(w[i], e) /\ ~SameKey(e, w[i])
  BY <1>1 DEF Names, SameKey
<1>5. ASSUME NEW i \in DOMAIN a, NEW j \in DOMAIN a, SameKey(a[i], a[j])
      PROVE  i = j
  <2>1. CASE i \in DOMAIN w /\ a[i] = w[i] /\ j \in DOMAIN w /\ a[j] = w[j]
    BY <2>1, <1>1, <1>5 DEF Filed
  <2>2. CASE i \in DOMAIN w /\ a[i] = w[i] /\ j = Len(w) + 1 /\ a[j] = e
    BY <2>2, <1>4, <1>5
  <2>3. CASE i = Len(w) + 1 /\ a[i] = e /\ j \in DOMAIN w /\ a[j] = w[j]
    BY <2>3, <1>4, <1>5
  <2>4. CASE i = Len(w) + 1 /\ j = Len(w) + 1
    BY <2>4
  <2> QED BY <1>3, <2>1, <2>2, <2>3, <2>4
<1>6. \A i \in DOMAIN a : Honest(a[i])
  BY <1>1, <1>3 DEF Filed
<1>7. Filed(a)
  BY <1>2, <1>5, <1>6 DEF Filed
<1> QED BY <1>2, <1>7 DEF a, w

\* So does dropping the least recently used entry, which makes room for one.
LEMMA TrimmedIsFiled ==
    ASSUME NEW s, Filed(s), Len(s) <= MaxEntries + 1
    PROVE  Filed(Trimmed(s)) /\ Len(Trimmed(s)) <= MaxEntries
<1>1. s \in Seq(Entry) /\ Len(s) \in Nat /\ MaxEntries \in Nat
  BY DEF Filed
<1>2. CASE Len(s) > MaxEntries
  <2> DEFINE t == Tail(s)
  <2>1. /\ t \in Seq(Entry) /\ Len(t) = Len(s) - 1
        /\ \A i \in 1..Len(t) : t[i] = s[i + 1] /\ i + 1 \in DOMAIN s
        /\ DOMAIN t = 1..Len(t)
    <3>1. s # <<>>
      BY <1>1, <1>2
    <3> QED BY <3>1, <1>1
  <2> HIDE DEF t
  <2>2. ASSUME NEW i \in DOMAIN t, NEW j \in DOMAIN t, SameKey(t[i], t[j])
        PROVE  i = j
    <3>1. i + 1 = j + 1
      BY <2>1, <2>2 DEF Filed
    <3>2. i \in Int /\ j \in Int
      BY <2>1
    <3> QED BY <3>1, <3>2
  <2>3. \A i \in DOMAIN t : Honest(t[i])
    BY <2>1 DEF Filed
  <2>4. Filed(t)
    BY <2>1, <2>2, <2>3 DEF Filed
  <2>5. Len(t) <= MaxEntries
    BY <2>1, <1>1, <1>2
  <2>6. Trimmed(s) = t
    BY <1>2 DEF Trimmed, t
  <2> QED BY <2>4, <2>5, <2>6
<1>3. CASE ~(Len(s) > MaxEntries)
  BY <1>1, <1>3 DEF Trimmed
<1> QED BY <1>2, <1>3

\* What a lookup finds is an honest entry of the caller's key that is not expired.
LEMMA FoundMeans ==
    ASSUME Filed(cache), NEW c, NEW e \in Found(c)
    PROVE  e \in Entry /\ Names(c, e) /\ ~Expired(e) /\ Honest(e) /\ At(c) # {}
<1>1. PICK i \in At(c) : e = cache[i] /\ ~Expired(cache[i])
  BY DEF Found
<1>2. i \in DOMAIN cache /\ Names(c, cache[i])
  BY <1>1 DEF At
<1>3. cache[i] \in Entry /\ Honest(cache[i])
  BY <1>2 DEF Filed
<1> QED BY <1>1, <1>2, <1>3

(***************************************************************************)
(* The steps                                                               *)
(***************************************************************************)

\* The invariant, cut where the steps cut it.
LEMMA CacheParts ==
    CacheInv <=> /\ CallsTypeOK /\ Filed(cache) /\ Len(cache) <= MaxEntries
             /\ CallsAreKeyed /\ HitsEndCalls /\ HitsAreOwn /\ HitsAreFresh
BY FiledMeans DEF CacheInv

LEMMA CacheRest ==
    ASSUME CallsTypeOK', Filed(cache)', (Len(cache) <= MaxEntries)',
           CallsAreKeyed', HitsEndCalls', HitsAreOwn', HitsAreFresh'
    PROVE  CacheInv'
BY DEF CacheInv, CacheTypeOK, CallsTypeOK, EntriesAreHonest, Filed, Honest, SameKey

\* What is served and what it is compared with.
LEMMA ServedStays ==
    ASSUME HitsAreOwn, HitsAreFresh, UNCHANGED <<ask, served>>,
           \A c \in Calls : served[c] # {} => keyed'[c] = keyed[c]
    PROVE  HitsAreOwn' /\ HitsAreFresh'
BY DEF HitsAreOwn, HitsAreFresh

LEMMA CacheStarts == CacheInit => CacheInv
<1> SUFFICES ASSUME CacheInit PROVE CacheInv
  OBVIOUS
<1>1. Filed(cache) /\ Len(cache) <= MaxEntries
  BY DEF CacheInit, Filed
<1>2. CallsTypeOK
  BY DEF CacheInit, CallsTypeOK, Stages
<1>3. CallsAreKeyed /\ HitsEndCalls /\ HitsAreOwn /\ HitsAreFresh
  BY DEF CacheInit, CallsAreKeyed, HitsEndCalls, HitsAreOwn, HitsAreFresh
<1> QED BY <1>1, <1>2, <1>3, CacheParts

LEMMA FingerprintStep ==
    ASSUME CacheInv, NEW c \in Calls, Fingerprint(c) PROVE CacheInv'
<1>1. /\ CallsTypeOK /\ Filed(cache) /\ Len(cache) <= MaxEntries
      /\ CallsAreKeyed /\ HitsEndCalls /\ HitsAreOwn /\ HitsAreFresh
  BY CacheParts
<1>2. CallsTypeOK'
  BY <1>1 DEF Fingerprint, MoveTo, CallsTypeOK, Stages
<1>3. CallsAreKeyed' /\ HitsEndCalls'
  BY <1>1 DEF Fingerprint, MoveTo, CallsTypeOK, CallsAreKeyed, HitsEndCalls
<1>4. \A d \in Calls : served[d] # {} => keyed'[d] = keyed[d]
  BY <1>1 DEF Fingerprint, CallsTypeOK, HitsEndCalls
<1>5. HitsAreOwn' /\ HitsAreFresh'
  BY <1>1, <1>4, ServedStays DEF Fingerprint
<1>6. Filed(cache)' /\ (Len(cache) <= MaxEntries)'
  BY <1>1 DEF Fingerprint, Filed
<1> QED BY <1>2, <1>3, <1>5, <1>6, CacheRest

LEMMA HitStep ==
    ASSUME CacheInv, NEW c \in Calls, Hit(c) PROVE CacheInv'
<1>1. /\ CallsTypeOK /\ Filed(cache) /\ Len(cache) <= MaxEntries
      /\ CallsAreKeyed /\ HitsEndCalls /\ HitsAreOwn /\ HitsAreFresh
  BY CacheParts
<1>2. PICK e \in Found(c) :
          /\ cache' = Append(Without(c), e)
          /\ served' = [served EXCEPT ![c] = {[entry |-> e, at |-> now]}]
  BY DEF Hit
<1>3. e \in Entry /\ Names(c, e) /\ ~Expired(e) /\ Honest(e) /\ At(c) # {}
  BY <1>1, <1>2, FoundMeans
<1>4. Filed(cache)' /\ (Len(cache) <= MaxEntries)'
  <2>1. Filed(cache') /\ Len(cache') = Len(Without(c)) + 1
    BY <1>1, <1>2, <1>3, AppendIsFiled
  <2>2. Len(Without(c)) < Len(cache) /\ Filed(Without(c))
    BY <1>1, <1>3, WithoutIsFiled
  <2>3. Len(Without(c)) \in Nat /\ Len(cache) \in Nat
    BY <1>1, <2>2 DEF Filed
  <2> QED BY <1>1, <2>1, <2>2, <2>3 DEF Filed
<1>5. CallsTypeOK' /\ CallsAreKeyed'
  BY <1>1 DEF Hit, MoveTo, CallsTypeOK, CallsAreKeyed, Stages
<1>6. now \in Nat
  BY <1>1 DEF CallsTypeOK
<1>7. [entry |-> e, at |-> now] \in [entry: Entry, at: Nat]
  BY <1>3, <1>6
<1>8. HitsEndCalls'
  BY <1>1, <1>2, <1>7 DEF Hit, MoveTo, HitsEndCalls, CallsTypeOK
<1>9. /\ served' \in [Calls -> SUBSET [entry: Entry, at: Nat]]
      /\ served'[c] = {[entry |-> e, at |-> now]}
      /\ \A d \in Calls : d # c => served'[d] = served[d]
  BY <1>1, <1>2, <1>8 DEF HitsEndCalls
<1>10. HitsAreOwn'
  <2>1. e.by = keyed[c] /\ e.scope = ask[c].scope /\ e.text = ask[c].text
    BY <1>3 DEF Names, Honest
  <2> QED BY <1>1, <1>9, <2>1 DEF Hit, HitsAreOwn
<1>11. HitsAreFresh'
  <2>1. e.stored \in Nat /\ now - e.made <= Ttl
    BY <1>3, <1>6 DEF Entry, Expired, Honest
  <2> QED BY <1>1, <1>9, <2>1 DEF Hit, HitsAreFresh
<1> QED BY <1>4, <1>5, <1>8, <1>10, <1>11, CacheRest

LEMMA MissStep ==
    ASSUME CacheInv, NEW c \in Calls, Miss(c) PROVE CacheInv'
<1>1. /\ CallsTypeOK /\ Filed(cache) /\ Len(cache) <= MaxEntries
      /\ CallsAreKeyed /\ HitsEndCalls /\ HitsAreOwn /\ HitsAreFresh
  BY CacheParts
<1>2. Filed(cache)' /\ (Len(cache) <= MaxEntries)'
  <2>1. Filed(cache') /\ Len(cache') <= Len(cache)
    BY <1>1, WithoutIsFiled DEF Miss
  <2>2. Len(cache') \in Nat /\ Len(cache) \in Nat
    BY <1>1, <2>1 DEF Filed
  <2> QED BY <1>1, <2>1, <2>2 DEF Filed
<1>3. CallsTypeOK' /\ CallsAreKeyed' /\ HitsEndCalls'
  BY <1>1 DEF Miss, MoveTo, CallsTypeOK, CallsAreKeyed, HitsEndCalls, Stages
<1>4. HitsAreOwn' /\ HitsAreFresh'
  BY <1>1, ServedStays DEF Miss
<1> QED BY <1>2, <1>3, <1>4, CacheRest

\* The steps of a call that leave the cache alone.
LEMMA CallStep ==
    ASSUME CacheInv, NEW c \in Calls,
           GetFetcher(c) \/ RecordFetchCredential(c) \/ Succeed(c) \/ Fail(c)
    PROVE  CacheInv'
<1>1. /\ CallsTypeOK /\ Filed(cache) /\ Len(cache) <= MaxEntries
      /\ CallsAreKeyed /\ HitsEndCalls /\ HitsAreOwn /\ HitsAreFresh
  BY CacheParts
<1>2. CallsTypeOK' /\ CallsAreKeyed' /\ HitsEndCalls'
  <2>1. CASE GetFetcher(c)
    BY <1>1, <2>1 DEF GetFetcher, MoveTo, CallsTypeOK, CallsAreKeyed, HitsEndCalls, Stages
  <2>2. CASE RecordFetchCredential(c)
    BY <1>1, <2>2 DEF RecordFetchCredential, MoveTo, CallsTypeOK, CallsAreKeyed, HitsEndCalls, Stages
  <2>3. CASE Succeed(c)
    BY <1>1, <2>3 DEF Succeed, MoveTo, CallsTypeOK, CallsAreKeyed, HitsEndCalls, Stages
  <2>4. CASE Fail(c)
    BY <1>1, <2>4 DEF Fail, MoveTo, CallsTypeOK, CallsAreKeyed, HitsEndCalls, Stages
  <2> QED BY <2>1, <2>2, <2>3, <2>4
<1>3. UNCHANGED <<ask, keyed, cache, served>>
  BY DEF GetFetcher, RecordFetchCredential, Succeed, Fail
<1>4. HitsAreOwn' /\ HitsAreFresh'
  BY <1>1, <1>3, ServedStays
<1>5. Filed(cache)' /\ (Len(cache) <= MaxEntries)'
  BY <1>1, <1>3 DEF Filed
<1> QED BY <1>2, <1>4, <1>5, CacheRest

LEMMA StoreStep ==
    ASSUME CacheInv, NEW c \in Calls, Store(c) PROVE CacheInv'
<1>1. /\ CallsTypeOK /\ Filed(cache) /\ Len(cache) <= MaxEntries
      /\ CallsAreKeyed /\ HitsEndCalls /\ HitsAreOwn /\ HitsAreFresh
  BY CacheParts
<1>2. Filed(cache)' /\ (Len(cache) <= MaxEntries)'
  <2>1. ASSUME Cacheable(c) PROVE Filed(cache') /\ Len(cache') <= MaxEntries
    <3> DEFINE e == [scope |-> ask[c].scope, text |-> ask[c].text, credential |-> keyed[c],
                     stored |-> now, by |-> held[c], made |-> now]
    <3>1. keyed[c] \in Credentials /\ held[c] = keyed[c]
      BY <1>1, <2>1 DEF Store, CallsAreKeyed, Cacheable
    <3>2. now \in Nat /\ ask[c].scope \in Scopes /\ ask[c].text \in Texts
      BY <1>1 DEF CallsTypeOK
    <3>3. e \in Entry
      BY <3>1, <3>2 DEF Entry
    <3>4. Names(c, e) /\ Honest(e)
      BY <3>1 DEF Names, Honest
    <3>5. cache' = Trimmed(Append(Without(c), e))
      BY <2>1 DEF Store, Stored
    <3> HIDE DEF e
    <3>6. /\ Filed(Append(Without(c), e))
          /\ Len(Append(Without(c), e)) = Len(Without(c)) + 1
      BY <1>1, <3>3, <3>4, AppendIsFiled
    <3>7. Len(Without(c)) <= Len(cache) /\ Len(Without(c)) \in Nat /\ Len(cache) \in Nat
      BY <1>1, WithoutIsFiled DEF Filed
    <3>8. Len(Append(Without(c), e)) <= MaxEntries + 1
      BY <1>1, <3>6, <3>7
    <3> QED BY <3>5, <3>6, <3>8, TrimmedIsFiled
  <2>2. ASSUME ~Cacheable(c) PROVE Filed(cache') /\ Len(cache') <= MaxEntries
    BY <1>1, <2>2 DEF Store
  <2>3. Filed(cache') /\ Len(cache') <= MaxEntries
    BY <2>1, <2>2
  <2> QED BY <2>3 DEF Filed
<1>3. CallsTypeOK' /\ CallsAreKeyed' /\ HitsEndCalls'
  BY <1>1 DEF Store, MoveTo, CallsTypeOK, CallsAreKeyed, HitsEndCalls, Stages
<1>4. HitsAreOwn' /\ HitsAreFresh'
  BY <1>1, ServedStays DEF Store
<1> QED BY <1>2, <1>3, <1>4, CacheRest

\* The key, the clock and stuttering.
LEMMA WorldStep ==
    ASSUME CacheInv, Rotate \/ Tick \/ UNCHANGED cacheVars PROVE CacheInv'
<1>1. /\ CallsTypeOK /\ Filed(cache) /\ Len(cache) <= MaxEntries
      /\ CallsAreKeyed /\ HitsEndCalls /\ HitsAreOwn /\ HitsAreFresh
  BY CacheParts
<1>2. UNCHANGED <<stage, ask, keyed, held, fetched, cache, served>>
  BY DEF Rotate, Tick, cacheVars
<1>3. key' \in Credentials /\ now' \in 0..MaxTime
  BY <1>1 DEF Rotate, Tick, cacheVars, CallsTypeOK
<1>4. CallsTypeOK' /\ CallsAreKeyed' /\ HitsEndCalls'
  BY <1>1, <1>2, <1>3 DEF CallsTypeOK, CallsAreKeyed, HitsEndCalls
<1>5. HitsAreOwn' /\ HitsAreFresh'
  BY <1>1, <1>2, ServedStays
<1>6. Filed(cache)' /\ (Len(cache) <= MaxEntries)'
  BY <1>1, <1>2 DEF Filed
<1> QED BY <1>4, <1>5, <1>6, CacheRest

(***************************************************************************)
(* Theorems                                                                *)
(***************************************************************************)

\* What the three properties rest on: the cache holds each key once and the replies
\* of a key are what it was fetched with, for every number of calls and entries.
THEOREM CacheInvariant == CacheSpec => []CacheInv
<1>1. CacheInv /\ [CacheNext]_cacheVars => CacheInv'
  BY FingerprintStep, HitStep, MissStep, CallStep, StoreStep, WorldStep DEF CacheNext
<1> QED BY CacheStarts, <1>1, PTL DEF CacheSpec

\* The cache never holds more than its limit, nor two entries for one key.
THEOREM CacheTypes == CacheSpec => []CacheTypeOK
<1>1. CacheInv => CacheTypeOK
  BY DEF CacheInv
<1> QED BY CacheInvariant, <1>1, PTL

\* However the key is rotated, and rotated back, while queries wait and run, a
\* cached reply goes to the identity and question it was stored for, and was
\* fetched with the credential the caller is fingerprinted with.
THEOREM HitsBelong == CacheSpec => []HitsAreOwn
<1>1. CacheInv => HitsAreOwn
  BY DEF CacheInv
<1> QED BY CacheInvariant, <1>1, PTL

\* However often it was served before, no reply is served after its time to live.
THEOREM HitsAreYoung == CacheSpec => []HitsAreFresh
<1>1. CacheInv => HitsAreFresh
  BY DEF CacheInv
<1> QED BY CacheInvariant, <1>1, PTL
================================================================================
