-------------------------- MODULE DatasetPagesProofs ---------------------------
(***************************************************************************)
(* Proofs about DatasetPages for every set of rows and plans, every limit  *)
(* and response budget, and with rows that arrive and identities, modes    *)
(* and policies that change between any two steps.                         *)
(***************************************************************************)
EXTENDS DatasetPages, TLAPS

(***************************************************************************)
(* Pages                                                                   *)
(***************************************************************************)

LEMMA TakeMeans ==
    ASSUME NEW S, NEW s \in Seq(S), NEW n \in Nat
    PROVE  /\ TakeFirst(n, s) \in Seq(S)
           /\ Len(TakeFirst(n, s)) = Smaller(n, Len(s))
           /\ \A i \in 1..Len(TakeFirst(n, s)) : TakeFirst(n, s)[i] = s[i]
<1> DEFINE m == Smaller(n, Len(s))
<1>1. m \in Nat /\ m <= Len(s) /\ Len(s) \in Nat
  BY DEF Smaller
<1>2. TakeFirst(n, s) = SubSeq(s, 1, m)
  BY DEF TakeFirst
<1> HIDE DEF m
<1>3. /\ SubSeq(s, 1, m) \in Seq(S) /\ Len(SubSeq(s, 1, m)) = m
      /\ \A i \in 1..m : SubSeq(s, 1, m)[i] = s[i]
  BY <1>1
<1> QED BY <1>2, <1>3 DEF m

LEMMA LimitsAreNat ==
    ASSUME NEW plan \in Plan
    PROVE  /\ PageLimit(plan) \in Nat
           /\ FetchLimit(plan) = PageLimit(plan) + (IF plan.cont THEN 1 ELSE 0)
<1>1. /\ plan.limit \in Int /\ plan.cont \in BOOLEAN
      /\ MaxRows \in Nat /\ MaxResult \in Nat /\ MaxResult > 0
  BY PagesAssumption DEF Plan
<1> QED BY <1>1 DEF PageLimit, FetchLimit, Smaller, Larger

\* The rows of a reading that a page of a plan is to show.
Found(plan, values, there) ==
    {row \in there : InWindow(plan, row) /\ (values # None => Seeks(plan, values, row))}

\* The text of a page says what its plan and its place say.
LEMMA CompiledMeans ==
    ASSUME NEW plan, NEW values, NEW there
    PROVE  LET xql == Compiled(plan, values)
           IN  /\ Matching(xql, there) = Found(plan, values, there)
               /\ \A r, s : Precedes(xql, r, s) <=> Precedes(plan, r, s)
               /\ xql.fetch = FetchLimit(plan) /\ xql.relative = plan.relative
               /\ xql.values = values
<1> DEFINE xql == Compiled(plan, values)
<1>1. /\ xql.order = plan.order /\ xql.fetch = FetchLimit(plan) /\ xql.relative = plan.relative
      /\ xql.span = plan.span /\ xql.to = plan.to /\ xql.values = values
  BY DEF Compiled
<1> HIDE DEF xql
<1>2. \A row : InWindow(xql, row) <=> InWindow(plan, row)
  BY <1>1 DEF InWindow, WindowEnd
<1>3. \A row : Seeks(xql, values, row) <=> Seeks(plan, values, row)
  BY <1>1 DEF Seeks
<1>4. \A r, s : Precedes(xql, r, s) <=> Precedes(plan, r, s)
  BY <1>1 DEF Precedes
<1>5. Matching(xql, there) = Found(plan, values, there)
  BY <1>1, <1>2, <1>3 DEF Matching, Found
<1> QED BY <1>1, <1>4, <1>5 DEF xql

\* A reply is a sequence of matching rows.
LEMMA RepliesMean ==
    ASSUME NEW plan \in Plan, NEW values, NEW there,
           NEW s \in Replies(Compiled(plan, values), Matching(Compiled(plan, values), there))
    PROVE  LET found == Found(plan, values, there)
           IN  /\ s \in Seq(found) /\ DOMAIN s = 1..Len(s) /\ Len(s) \in Nat
               /\ \A i, j \in 1..Len(s) : i < j => Precedes(plan, s[i], s[j])
               /\ \A i \in 1..Len(s) : \A row \in found \ ToSet(s) : Precedes(plan, s[i], row)
               /\ Len(s) = FetchLimit(plan) \/ ToSet(s) = found
<1> DEFINE found == Found(plan, values, there)
           xql   == Compiled(plan, values)
<1>1. FetchLimit(plan) \in Nat
  BY LimitsAreNat
<1>2. /\ Matching(xql, there) = found /\ xql.fetch = FetchLimit(plan)
      /\ \A r, t : Precedes(xql, r, t) <=> Precedes(plan, r, t)
  BY CompiledMeans
<1> HIDE DEF found, xql
<1>3. s \in Replies(xql, found)
  BY <1>2 DEF xql
<1>4. PICK m \in 0..FetchLimit(plan) : s \in [1..m -> found]
  BY <1>2, <1>3 DEF Replies, SeqOf
<1>5. s \in Seq(found) /\ DOMAIN s = 1..Len(s) /\ Len(s) \in Nat
  BY <1>1, <1>4
<1> QED BY <1>2, <1>3, <1>5 DEF Replies, found

(***************************************************************************)
(* The sort order and the seek clause                                      *)
(***************************************************************************)

LEMMA RowFields ==
    ASSUME NEW row \in Row, NEW f \in Fields
    PROVE  row[f] \in Int \cup {Null}
<1>1. row.id \in Int /\ row.time \in Int /\ row.user \in Int \cup {Null}
  BY DEF Row
<1>2. CASE f = "id"
  BY <1>1, <1>2
<1>3. CASE f = "time"
  BY <1>1, <1>3
<1>4. CASE f = "user"
  BY <1>1, <1>4
<1> QED BY <1>2, <1>3, <1>4 DEF Fields

\* The value row is sorted by at place i of the order.
Value(plan, row, i) == row[plan.order[i].field]
Known(plan, row) == \A i \in DOMAIN plan.order : Value(plan, row, i) # Null

LEMMA Values ==
    ASSUME NEW plan \in Plan, NEW row \in Row
    PROVE  /\ \A i \in DOMAIN plan.order : /\ Value(plan, row, i) \in Int \cup {Null}
                                           /\ plan.order[i].asc \in BOOLEAN
           /\ LastValues(plan, row) = [i \in DOMAIN plan.order |-> Value(plan, row, i)]
           /\ Null \notin ToSet(LastValues(plan, row)) <=> Known(plan, row)
<1>1. plan.order \in Seq([field: Fields, asc: BOOLEAN])
  BY DEF Plan
<1>a. \A S : \A o \in Seq(S) : \A i \in DOMAIN o : o[i] \in S
  OBVIOUS
<1>b. \A i \in DOMAIN plan.order : plan.order[i] \in [field: Fields, asc: BOOLEAN]
  BY <1>1, <1>a
<1>2. \A i \in DOMAIN plan.order : plan.order[i].field \in Fields /\ plan.order[i].asc \in BOOLEAN
  BY <1>b
<1>3. LastValues(plan, row) = [i \in DOMAIN plan.order |-> Value(plan, row, i)]
  BY DEF LastValues, Value
<1>4. Null \notin ToSet(LastValues(plan, row)) <=> Known(plan, row)
  BY <1>3 DEF ToSet, Known
<1> QED BY <1>2, <1>3, <1>4, RowFields DEF Value

\* A row does not lie behind itself.
LEMMA NotBehindItself ==
    ASSUME NEW plan \in Plan, NEW row \in Row
    PROVE  ~Seeks(plan, LastValues(plan, row), row)
BY Values DEF Seeks, Beyond, Value

\* Of two rows one at most lies behind the other.
LEMMA NotBehindBefore ==
    ASSUME NEW plan \in Plan, NEW last \in Row, NEW row \in Row, Known(plan, last),
           Precedes(plan, row, last)
    PROVE  ~Seeks(plan, LastValues(plan, last), row)
<1> SUFFICES ASSUME NEW i \in DOMAIN plan.order,
                    \A j \in 1 .. i - 1 : Value(plan, row, j) = LastValues(plan, last)[j],
                    Beyond(plan.order[i], row, LastValues(plan, last)[i])
             PROVE  FALSE
  BY DEF Seeks, Value
<1>1. DOMAIN plan.order = 1..Len(plan.order) /\ Len(plan.order) \in Nat
  BY DEF Plan
<1>2. \A j \in 1 .. i - 1 : Value(plan, row, j) = Value(plan, last, j)
  BY <1>1, Values
<1>3. /\ Value(plan, row, i) \in Int /\ Value(plan, last, i) \in Int
      /\ IF plan.order[i].asc THEN Value(plan, row, i) > Value(plan, last, i)
                              ELSE Value(plan, row, i) < Value(plan, last, i)
  BY Values DEF Beyond, Known, Value
<1>4. ASSUME NEW k \in DOMAIN plan.order,
             \A j \in 1 .. k - 1 : Value(plan, row, j) = Value(plan, last, j),
             Before(plan.order[k], row, last)
      PROVE  FALSE
  <2>1. Value(plan, row, k) # Value(plan, last, k)
    BY <1>4, Values DEF Before, Value
  <2>2. i <= k
    BY <1>1, <1>2, <2>1
  <2>3. k <= i
    BY <1>1, <1>3, <1>4
  <2>4. k = i
    BY <1>1, <2>2, <2>3
  <2> QED BY <1>3, <1>4, <2>4, PagesAssumption DEF Before, Value
<1>5. ~(\A k \in DOMAIN plan.order : Value(plan, row, k) = Value(plan, last, k))
  BY <1>3
<1> QED BY <1>4, <1>5 DEF Precedes, Value

\* What lies behind a row that lies behind values lies behind the values.
LEMMA BehindBehind ==
    ASSUME NEW plan \in Plan, NEW last \in Row, NEW row \in Row, Known(plan, last),
           NEW values, \A i \in DOMAIN plan.order : values[i] \in Int,
           Seeks(plan, values, last), Seeks(plan, LastValues(plan, last), row)
    PROVE  Seeks(plan, values, row)
<1>1. DOMAIN plan.order = 1..Len(plan.order) /\ Len(plan.order) \in Nat
  BY DEF Plan
<1>2. PICK i \in DOMAIN plan.order :
        /\ \A j \in 1 .. i - 1 : Value(plan, last, j) = values[j]
        /\ Beyond(plan.order[i], last, values[i])
  BY DEF Seeks, Value
<1>3. PICK k \in DOMAIN plan.order :
        /\ \A j \in 1 .. k - 1 : Value(plan, row, j) = LastValues(plan, last)[j]
        /\ Beyond(plan.order[k], row, LastValues(plan, last)[k])
  BY DEF Seeks, Value
<1>4. \A j \in 1 .. k - 1 : Value(plan, row, j) = Value(plan, last, j)
  BY <1>1, <1>3, Values
<1>5. /\ Value(plan, row, k) \in Int /\ Value(plan, last, k) \in Int
      /\ IF plan.order[k].asc THEN Value(plan, row, k) > Value(plan, last, k)
                              ELSE Value(plan, row, k) < Value(plan, last, k)
  BY <1>3, Values DEF Beyond, Known, Value
<1>6. /\ Value(plan, last, i) \in Int /\ values[i] \in Int
      /\ IF plan.order[i].asc THEN Value(plan, last, i) > values[i]
                              ELSE Value(plan, last, i) < values[i]
  BY <1>2, Values DEF Beyond, Known, Value
<1>7. CASE i < k
  <2>1. Value(plan, row, i) = Value(plan, last, i)
    BY <1>1, <1>4, <1>7
  <2>2. Beyond(plan.order[i], row, values[i])
    BY <1>6, <2>1, PagesAssumption DEF Beyond, Value
  <2>3. \A j \in 1 .. i - 1 : Value(plan, row, j) = values[j]
    BY <1>1, <1>2, <1>4, <1>7
  <2> QED BY <2>2, <2>3 DEF Seeks, Value
<1>8. CASE k < i
  <2>1. Value(plan, last, k) = values[k]
    BY <1>1, <1>2, <1>8
  <2>2. Beyond(plan.order[k], row, values[k])
    BY <1>5, <2>1, PagesAssumption DEF Beyond, Value
  <2>3. \A j \in 1 .. k - 1 : Value(plan, row, j) = values[j]
    BY <1>1, <1>2, <1>4, <1>8
  <2> QED BY <2>2, <2>3 DEF Seeks, Value
<1>9. CASE k = i
  <2>2. Beyond(plan.order[i], row, values[i])
    BY <1>5, <1>6, <1>9, PagesAssumption DEF Beyond, Value
  <2>3. \A j \in 1 .. i - 1 : Value(plan, row, j) = values[j]
    BY <1>1, <1>2, <1>4, <1>9
  <2> QED BY <2>2, <2>3 DEF Seeks, Value
<1> QED BY <1>1, <1>7, <1>8, <1>9

\* A row that comes later in the order lies behind, if both have their sort
\* values and these differ somewhere.
LEMMA LaterIsBehind ==
    ASSUME NEW plan \in Plan, NEW last \in Row, NEW row \in Row, Known(plan, last),
           Known(plan, row), Precedes(plan, last, row),
           ~(\A i \in DOMAIN plan.order : Value(plan, last, i) = Value(plan, row, i))
    PROVE  Seeks(plan, LastValues(plan, last), row)
<1>1. PICK i \in DOMAIN plan.order :
        /\ \A j \in 1 .. i - 1 : Value(plan, last, j) = Value(plan, row, j)
        /\ Before(plan.order[i], last, row)
  BY DEF Precedes, Value
<1>2. DOMAIN plan.order = 1..Len(plan.order) /\ Len(plan.order) \in Nat
  BY DEF Plan
<1>3. \A j \in 1 .. i - 1 : Value(plan, row, j) = LastValues(plan, last)[j]
  BY <1>1, <1>2, Values
<1>4. Value(plan, row, i) \in Int /\ Value(plan, last, i) \in Int /\ Value(plan, row, i) # Null
        /\ Value(plan, last, i) # Null
  BY Values DEF Known
<1>5. Beyond(plan.order[i], row, LastValues(plan, last)[i])
  BY <1>1, <1>4, Values DEF Before, Beyond, Value
<1> QED BY <1>3, <1>5 DEF Seeks, Value

(***************************************************************************)
(* Where a query stands between two pages                                  *)
(***************************************************************************)

\* A plan as query_dataset runs it: with continuation its window is fixed and
\* its order is one a caller asked to continue in.
Planned(plan) ==
    /\ plan \in Plan
    /\ plan.cont => ~plan.relative /\ \E q \in Plans : q.cont /\ q.order = plan.order

Covers(plan, row) == row.time <= plan.to /\ row.time >= plan.to - plan.span

\* A cursor, or the call that continues from it: what was shown lies in the
\* window and not behind the place.
Place(x) ==
    /\ Planned(x.plan) /\ x.plan.cont
    /\ x.values \in Seq(Int) /\ \A i \in DOMAIN x.plan.order : x.values[i] \in Int
    /\ x.seen \subseteq rows
    /\ \A row \in x.seen : row.time <= x.plan.to /\ ~Seeks(x.plan, x.values, row)

\* And what was there at first and was not shown does lie behind it.
Left(x) ==
    /\ x.base \subseteq rows
    /\ \A row \in x.base : Known(x.plan, row) =>
         row \in x.seen \/ (Covers(x.plan, row) /\ Seeks(x.plan, x.values, row))

\* A reply that was kept is one to its key on the rows it was read from.
Kept(entry) ==
    /\ entry.read \subseteq rows /\ entry.reply \in Seq(entry.read)
    /\ ~entry.key.xql.relative =>
         entry.reply \in Replies(entry.key.xql, Matching(entry.key.xql, entry.read))

PageInv ==
    /\ rows \subseteq Rows /\ now \in Int
    /\ \A entry \in cache : Kept(entry)
    /\ \A c \in cursors : Place(c)
    /\ call # None =>
         /\ Planned(call.plan)
         /\ call.values = None => call.seen = {}
         /\ call.values # None => Place(call)
    /\ NoRowTwice

LeftInv ==
    /\ \A c \in cursors : Left(c)
    /\ call # None /\ call.values # None => Left(call)
    /\ NothingSkipped

\* "The final field must be a stable tie-breaker for continuation"
\* (builtin_components/datasets.py:127): no two rows have the same sort values.
TieBroken ==
    \A plan \in Plans : plan.cont /\ plan.order # <<>> =>
        \A r, s \in Rows :
            Known(plan, r) /\ (\A i \in DOMAIN plan.order : Value(plan, r, i) = Value(plan, s, i))
                => r = s

LEMMA FrozenWindow ==
    ASSUME NEW plan, Planned(plan), plan.cont, NEW values
    PROVE  \A there : Found(plan, values, there) =
             {row \in there : Covers(plan, row) /\ (values # None => Seeks(plan, values, row))}
BY DEF Planned, Found, InWindow, WindowEnd, Covers

LEMMA ReasonsMean ==
    ASSUME NEW plan \in Plan, NEW sent, NEW more \in BOOLEAN
    PROVE  /\ Reason(plan, sent, more) = "complete" => ~more
           /\ Reason(plan, sent, more) = "available" =>
                /\ plan.cont /\ plan.order # <<>> /\ sent # <<>>
                /\ Null \notin ToSet(LastValues(plan, Last(sent)))
BY DEF Reason

\* What a page shows of a reply: its first rows.
PageCut(plan, S, fetched, budget) ==
    LET cut  == TakeFirst(PageLimit(plan), fetched)
        sent == TakeFirst(budget, cut)
    IN  /\ Len(sent) \in Nat /\ Len(sent) <= Len(cut) /\ Len(cut) <= Len(fetched)
        /\ Len(cut) \in Nat /\ Len(cut) <= PageLimit(plan) /\ DOMAIN sent = 1..Len(sent)
        /\ \A i \in 1..Len(sent) : sent[i] = fetched[i]
        /\ ToSet(sent) \subseteq S
        /\ sent = <<>> <=> Len(sent) = 0

LEMMA SentMeans ==
    ASSUME NEW plan \in Plan, NEW S, NEW fetched \in Seq(S), NEW budget \in Nat
    PROVE  PageCut(plan, S, fetched, budget)
<1> DEFINE cut   == TakeFirst(PageLimit(plan), fetched)
           sent  == TakeFirst(budget, cut)
<1>1. fetched \in Seq(S) /\ Len(fetched) \in Nat /\ PageLimit(plan) \in Nat
  BY LimitsAreNat
<1>3. /\ cut \in Seq(S) /\ Len(cut) = Smaller(PageLimit(plan), Len(fetched))
      /\ \A i \in 1..Len(cut) : cut[i] = fetched[i]
  BY <1>1, TakeMeans
<1> HIDE DEF cut
<1>4. /\ sent \in Seq(S) /\ Len(sent) = Smaller(budget, Len(cut))
      /\ \A i \in 1..Len(sent) : sent[i] = cut[i]
  BY <1>3, TakeMeans
<1> HIDE DEF sent
<1>5. /\ Len(sent) \in Nat /\ Len(sent) <= Len(cut) /\ Len(cut) <= Len(fetched)
      /\ Len(cut) \in Nat /\ Len(cut) <= PageLimit(plan)
  BY <1>1, <1>3, <1>4 DEF Smaller
<1>6. \A i \in 1..Len(sent) : sent[i] = fetched[i]
  BY <1>3, <1>4, <1>5
<1>7. DOMAIN sent = 1..Len(sent) /\ ToSet(sent) \subseteq S
  <2>1. \A T : \A s \in Seq(T) : DOMAIN s = 1..Len(s) /\ \A i \in DOMAIN s : s[i] \in T
    OBVIOUS
  <2> QED BY <1>4, <2>1 DEF ToSet
<1>8. sent = <<>> <=> Len(sent) = 0
  BY <1>4
<1> QED BY <1>5, <1>6, <1>7, <1>8 DEF PageCut, sent, cut

\* What a call is answered with, from the cache or not.
LEMMA ReadingMeans ==
    ASSUME PageInv, call # None, NEW entry \in Readings(CacheKey(call))
    PROVE  /\ Kept(entry) /\ entry.key.xql = Compiled(call.plan, call.values)
           /\ call.plan.cont =>
                entry.reply \in Replies(Compiled(call.plan, call.values),
                                        Matching(Compiled(call.plan, call.values), entry.read))
<1> DEFINE key == CacheKey(call)
           xql == Compiled(call.plan, call.values)
<1>1. key.xql = xql /\ call.plan \in Plan
  BY DEF CacheKey, PageInv, Planned
<1>2. call.plan.cont => ~xql.relative
  <2>1. xql.relative = call.plan.relative
    BY CompiledMeans
  <2> QED BY <2>1 DEF PageInv, Planned
<1>3. CASE entry \in Hits(key)
  <2>1. entry \in cache /\ entry.key = key
    BY <1>3 DEF Hits
  <2> QED BY <1>1, <1>2, <2>1 DEF PageInv, Kept
<1>4. CASE entry \notin Hits(key)
  <2>1. PICK s \in Replies(key.xql, Matching(key.xql, rows)) :
          entry = [key |-> key, reply |-> s, read |-> rows, at |-> now]
    BY <1>4 DEF Readings
  <2>2. entry.key = key /\ entry.reply = s /\ entry.read = rows
    BY <2>1
  <2>3. s \in Seq(Found(call.plan, call.values, rows))
    BY <1>1, <2>1, RepliesMean
  <2>4. Found(call.plan, call.values, rows) \subseteq rows
    BY DEF Found
  <2>5. s \in Seq(rows)
    BY <2>3, <2>4
  <2> QED BY <1>1, <2>1, <2>2, <2>5 DEF Kept
<1> QED BY <1>3, <1>4

\* The answer of a call, and the cursor it may hand out.
LEMMA AnswerPlaces ==
    ASSUME PageInv, call # None, NEW entry \in Readings(CacheKey(call)), NEW budget \in Nat
    PROVE  LET plan == call.plan
               fetched == entry.reply
               cut  == TakeFirst(PageLimit(plan), fetched)
               sent == TakeFirst(budget, cut)
           IN  /\ ToSet(sent) \cap call.seen = {}
               /\ Reason(plan, sent, More(fetched, cut, sent)) = "available" =>
                    \A x : /\ x.plan = plan /\ x.values = LastValues(plan, AfterSent(sent, fetched))
                           /\ x.seen = call.seen \cup ToSet(sent)
                           => Place(x)
<1> DEFINE plan == call.plan
           fetched == entry.reply
           found == Found(plan, call.values, entry.read)
           cut  == TakeFirst(PageLimit(plan), fetched)
           sent == TakeFirst(budget, cut)
           m    == Len(sent)
           last == sent[m]
<1>1. plan \in Plan /\ Planned(plan) /\ rows \subseteq Rows /\ Rows \subseteq Row
  BY PagesAssumption DEF PageInv, Planned
<1>0. /\ entry.read \subseteq rows /\ fetched \in Seq(entry.read)
      /\ plan.cont => /\ fetched \in Seq(found) /\ Len(fetched) \in Nat
                      /\ \A i, j \in 1..Len(fetched) : i < j =>
                           Precedes(plan, fetched[i], fetched[j])
  <2>1. /\ Kept(entry)
        /\ plan.cont => fetched \in Replies(Compiled(plan, call.values),
                                           Matching(Compiled(plan, call.values), entry.read))
    BY ReadingMeans
  <2> HIDE DEF plan, found
  <2>2. plan.cont => /\ fetched \in Seq(found) /\ Len(fetched) \in Nat
                     /\ \A i, j \in 1..Len(fetched) : i < j =>
                           Precedes(plan, fetched[i], fetched[j])
    <3> HIDE DEF fetched
    <3> QED BY <1>1, <2>1, RepliesMean DEF found
  <2> QED BY <2>1, <2>2 DEF Kept
<1> HIDE DEF plan, fetched, found
<1>2. /\ m \in Nat /\ m <= Len(fetched) /\ DOMAIN sent = 1..m
      /\ \A i \in 1..m : sent[i] = fetched[i]
      /\ ToSet(sent) \subseteq rows /\ Len(fetched) \in Nat
      /\ plan.cont => ToSet(sent) \subseteq found
      /\ sent = <<>> <=> m = 0
  <2>1. /\ Len(sent) \in Nat /\ Len(sent) <= Len(cut) /\ Len(cut) <= Len(fetched)
        /\ Len(cut) \in Nat /\ DOMAIN sent = 1..Len(sent)
        /\ \A i \in 1..Len(sent) : sent[i] = fetched[i]
        /\ ToSet(sent) \subseteq entry.read
        /\ sent = <<>> <=> Len(sent) = 0
    <3>1. plan \in Plan /\ fetched \in Seq(entry.read)
      BY <1>0, <1>1
    <3>2. PageCut(plan, entry.read, fetched, budget)
      BY <3>1, SentMeans
    <3> QED BY <3>2 DEF PageCut
  <2>2. Len(fetched) \in Nat
    BY <1>0
  <2>3. plan.cont => ToSet(sent) \subseteq found
    <3>1. plan.cont => PageCut(plan, found, fetched, budget)
      BY <1>0, <1>1, SentMeans
    <3> QED BY <3>1 DEF PageCut
  <2> HIDE DEF sent, cut
  <2> QED BY <1>0, <2>1, <2>2, <2>3
<1>3. /\ Len(fetched) \in Nat
      /\ plan.cont => \A i, j \in 1..Len(fetched) : i < j => Precedes(plan, fetched[i], fetched[j])
  BY <1>0, <1>2
<1>4. More(fetched, cut, sent) \in BOOLEAN
  BY DEF More
<1> HIDE DEF sent, cut
<1>5. ToSet(sent) \cap call.seen = {}
  <2>1. CASE call.values = None
    BY <2>1 DEF PageInv
  <2>2. CASE call.values # None
    <3>0. plan.cont
      BY <2>2 DEF PageInv, Place, plan
    <3>1. \A row \in ToSet(sent) : Seeks(plan, call.values, row)
      BY <1>2, <2>2, <3>0 DEF Found, found
    <3>2. \A row \in call.seen : ~Seeks(plan, call.values, row)
      BY <2>2 DEF PageInv, Place, plan
    <3> QED BY <3>1, <3>2
  <2> QED BY <2>1, <2>2
<1>6. ASSUME Reason(plan, sent, More(fetched, cut, sent)) = "available", NEW x, x.plan = plan,
             x.values = LastValues(plan, AfterSent(sent, fetched)), x.seen = call.seen \cup ToSet(sent)
      PROVE  Place(x)
  <2>1. plan.cont /\ sent # <<>> /\ Null \notin ToSet(LastValues(plan, Last(sent)))
    BY <1>1, <1>4, <1>6, ReasonsMean
  <2>2. m \in 1..m /\ Last(sent) = last /\ AfterSent(sent, fetched) = last
    BY <1>2, <2>1 DEF Last, AfterSent
  <2>3. last \in ToSet(sent) /\ last \in Row /\ last = fetched[m]
    BY <1>1, <1>2, <2>2 DEF ToSet
  <2>a. m \in Nat /\ m <= Len(fetched) /\ Len(fetched) \in Nat /\ m >= 1
    BY <1>2, <1>3, <2>2
  <2>b. \A row \in ToSet(sent) : \E i \in 1..m : row = fetched[i]
    BY <1>2 DEF ToSet
  <2> HIDE DEF last, m
  <2>4. Known(plan, last)
    BY <1>1, <2>1, <2>2, <2>3, Values
  <2>5. \A i \in DOMAIN plan.order : LastValues(plan, last)[i] \in Int
    BY <1>1, <2>3, <2>4, Values DEF Known
  <2>6. LastValues(plan, last) \in Seq(Int)
    <3>1. DOMAIN plan.order = 1..Len(plan.order) /\ Len(plan.order) \in Nat
      BY <1>1 DEF Plan
    <3>2. LastValues(plan, last) = [i \in 1..Len(plan.order) |-> Value(plan, last, i)]
      BY <1>1, <2>3, <3>1, Values
    <3>3. \A i \in 1..Len(plan.order) : Value(plan, last, i) \in Int
      BY <1>1, <2>3, <2>4, <3>1, Values DEF Known
    <3> DEFINE n == Len(plan.order)
    <3>4. n \in Nat
      BY <3>1
    <3> HIDE DEF n
    <3>5. [i \in 1..n |-> Value(plan, last, i)] \in Seq(Int)
      BY <3>3, <3>4 DEF n
    <3> QED BY <3>2, <3>5 DEF n
  <2>7. ASSUME NEW row \in ToSet(sent)
        PROVE  row.time <= plan.to /\ ~Seeks(plan, LastValues(plan, last), row)
    <3>1. row.time <= plan.to
      BY <1>1, <1>2, <2>1, FrozenWindow DEF Covers, found
    <3>2. PICK i \in 1..m : row = fetched[i]
      BY <2>b
    <3>3. row \in Row
      BY <1>1, <1>2
    <3>4. CASE i = m
      <4>1. row = last
        BY <2>3, <3>2, <3>4
      <4> QED BY <1>1, <3>1, <3>3, <4>1, NotBehindItself
    <3>5. CASE i # m
      <4>1. i < m /\ i \in 1..Len(fetched) /\ m \in 1..Len(fetched)
        BY <2>a, <3>2, <3>5
      <4>2. Precedes(plan, row, last)
        BY <1>3, <2>1, <2>3, <3>2, <4>1
      <4> QED BY <1>1, <2>3, <2>4, <3>1, <3>3, <4>2, NotBehindBefore
    <3> QED BY <3>1, <3>4, <3>5
  <2>8. ASSUME NEW row \in call.seen
        PROVE  row \in rows /\ row.time <= plan.to /\ ~Seeks(plan, LastValues(plan, last), row)
    <3>1. call.values # None /\ Place(call)
      BY <2>8 DEF PageInv
    <3>2. /\ row \in rows /\ row.time <= plan.to /\ ~Seeks(plan, call.values, row)
          /\ \A i \in DOMAIN plan.order : call.values[i] \in Int
      BY <2>8, <3>1 DEF Place, plan
    <3>3. Seeks(plan, call.values, last)
      BY <1>2, <2>1, <2>3, <3>1 DEF Found, found
    <3>4. row \in Row
      BY <1>1, <3>2
    <3> QED BY <1>1, <2>3, <2>4, <3>2, <3>3, <3>4, BehindBehind
  <2> QED BY <1>1, <1>2, <1>6, <2>1, <2>2, <2>5, <2>6, <2>7, <2>8 DEF Place
<1> QED BY <1>5, <1>6 DEF plan, fetched, sent, cut

\* Nothing is left out, if the order breaks every tie.
LEMMA AnswerLeaves ==
    ASSUME TieBroken, PageInv, LeftInv, call # None, NEW entry \in Readings(CacheKey(call)),
           NEW budget \in Nat
    PROVE  LET plan   == call.plan
               fetched == entry.reply
               cut    == TakeFirst(PageLimit(plan), fetched)
               sent   == TakeFirst(budget, cut)
               reason == Reason(plan, sent, More(fetched, cut, sent))
               first  == IF call.values = None THEN Matching(entry.key.xql, entry.read)
                         ELSE call.first
               base   == (IF call.values = None THEN first ELSE call.base) \cap entry.read
           IN  /\ plan.cont /\ reason = "complete" =>
                    \A row \in base : Known(plan, row) => row \in call.seen \cup ToSet(sent)
               /\ reason = "available" =>
                    \A x : /\ x.plan = plan /\ x.values = LastValues(plan, AfterSent(sent, fetched))
                           /\ x.seen = call.seen \cup ToSet(sent) /\ x.base = base
                           => Left(x)
<1> DEFINE plan   == call.plan
           fetched == entry.reply
           found  == Found(plan, call.values, entry.read)
           cut    == TakeFirst(PageLimit(plan), fetched)
           sent   == TakeFirst(budget, cut)
           reason == Reason(plan, sent, More(fetched, cut, sent))
           first  == IF call.values = None THEN Matching(entry.key.xql, entry.read)
                     ELSE call.first
           base   == (IF call.values = None THEN first ELSE call.base) \cap entry.read
           m      == Len(sent)
           last   == sent[m]
<1>1. plan \in Plan /\ Planned(plan) /\ rows \subseteq Rows /\ Rows \subseteq Row
  BY PagesAssumption DEF PageInv, Planned
<1>0. /\ entry.read \subseteq rows /\ fetched \in Seq(entry.read)
      /\ entry.key.xql = Compiled(plan, call.values)
      /\ plan.cont => fetched \in Replies(Compiled(plan, call.values),
                                         Matching(Compiled(plan, call.values), entry.read))
  BY ReadingMeans DEF Kept
<1>2. base \subseteq entry.read /\ base \subseteq rows
  BY <1>0
\* What the caller has not been shown is still to be found.
<1>3. ASSUME plan.cont, NEW row \in base, Known(plan, row), row \notin call.seen
      PROVE  row \in found /\ Covers(plan, row)
  <2>1. CASE call.values = None
    <3>1. Matching(entry.key.xql, entry.read) = found
      BY <1>0, CompiledMeans
    <3>2. row \in found
      BY <1>3, <2>1, <3>1
    <3> HIDE DEF plan, base
    <3> QED BY <1>1, <1>3, <2>1, <3>2, FrozenWindow
  <2>2. CASE call.values # None
    <3>1. Covers(plan, row) /\ Seeks(plan, call.values, row)
      BY <1>3, <2>2 DEF LeftInv, Left
    <3>2. row \in entry.read
      BY <1>3
    <3> HIDE DEF plan, base
    <3> QED BY <1>1, <1>3, <3>1, <3>2, FrozenWindow
  <2> QED BY <2>1, <2>2
<1> HIDE DEF plan, base, first, fetched, found
<1>4. /\ m \in Nat /\ m <= Len(cut) /\ Len(cut) <= Len(fetched) /\ Len(cut) <= PageLimit(plan)
      /\ Len(cut) \in Nat /\ DOMAIN sent = 1..m /\ (sent = <<>> <=> m = 0)
      /\ \A i \in 1..m : sent[i] = fetched[i]
      /\ ToSet(sent) \subseteq rows /\ Len(fetched) \in Nat
  <2>1. /\ m \in Nat /\ m <= Len(cut) /\ Len(cut) <= Len(fetched) /\ Len(cut) <= PageLimit(plan)
        /\ Len(cut) \in Nat /\ DOMAIN sent = 1..m /\ (sent = <<>> <=> m = 0)
        /\ \A i \in 1..m : sent[i] = fetched[i]
        /\ ToSet(sent) \subseteq entry.read
    <3>1. plan \in Plan /\ fetched \in Seq(entry.read)
      BY <1>0, <1>1
    <3>2. PageCut(plan, entry.read, fetched, budget)
      BY <3>1, SentMeans
    <3> QED BY <3>2 DEF PageCut
  <2>2. Len(fetched) \in Nat
    BY <1>0
  <2> HIDE DEF sent, cut
  <2> QED BY <1>0, <2>1, <2>2
<1>5. ASSUME plan.cont
      PROVE  /\ Len(fetched) \in Nat /\ DOMAIN fetched = 1..Len(fetched)
             /\ \A i, j \in 1..Len(fetched) : i < j => Precedes(plan, fetched[i], fetched[j])
             /\ \A i \in 1..Len(fetched) : \A row \in found \ ToSet(fetched) :
                  Precedes(plan, fetched[i], row)
             /\ Len(fetched) = FetchLimit(plan) \/ ToSet(fetched) = found
  BY <1>0, <1>1, <1>5, RepliesMean DEF found
<1> HIDE DEF sent, cut
<1>6. /\ reason = "complete" => ~More(fetched, cut, sent)
      /\ reason = "available" => /\ plan.cont /\ plan.order # <<>> /\ sent # <<>>
                                 /\ Null \notin ToSet(LastValues(plan, Last(sent)))
  <2>1. More(fetched, cut, sent) \in BOOLEAN
    BY DEF More
  <2> QED BY <1>1, <2>1, ReasonsMean
<1> HIDE DEF reason, m
<1>7. ASSUME plan.cont, reason = "complete", NEW row \in base, Known(plan, row),
             row \notin call.seen
      PROVE  row \in ToSet(sent)
  <2>1. Len(fetched) <= Len(cut) /\ m >= Len(cut)
    BY <1>4, <1>5, <1>6, <1>7 DEF More, m
  <2>2. FetchLimit(plan) = PageLimit(plan) + 1 /\ PageLimit(plan) \in Nat
    BY <1>1, <1>7, LimitsAreNat
  <2>a. m \in Nat /\ Len(cut) \in Nat /\ Len(fetched) \in Nat /\ m <= Len(cut)
          /\ Len(cut) <= Len(fetched) /\ Len(cut) <= PageLimit(plan)
    BY <1>4, <1>5
  <2>b. m = Len(fetched) /\ Len(fetched) # FetchLimit(plan)
    BY <2>1, <2>2, <2>a
  <2>3. ToSet(fetched) = found /\ m = Len(fetched)
    BY <1>5, <1>7, <2>b
  <2>4. PICK i \in 1..Len(fetched) : row = fetched[i]
    BY <1>3, <1>5, <1>7, <2>3 DEF ToSet
  <2>5. i \in DOMAIN sent /\ sent[i] = row
    BY <1>4, <2>3, <2>4
  <2> QED BY <2>5 DEF ToSet
<1>8. ASSUME reason = "available", NEW row \in base, Known(plan, row),
             row \notin call.seen \cup ToSet(sent)
      PROVE  Covers(plan, row) /\ Seeks(plan, LastValues(plan, AfterSent(sent, fetched)), row)
  <2>1. plan.cont /\ plan.order # <<>> /\ m \in 1..m /\ m \in 1..Len(fetched)
    BY <1>4, <1>6, <1>8
  <2>2. AfterSent(sent, fetched) = last /\ Last(sent) = last /\ last = fetched[m]
    BY <1>4, <2>1 DEF AfterSent, Last, m
  <2>3. last \in ToSet(sent)
    BY <1>4, <2>1 DEF ToSet
  <2>4. last \in Row /\ row \in Row /\ row \in Rows /\ last \in Rows
    BY <1>1, <1>2, <1>4, <2>3
  <2> HIDE DEF last
  <2>5. row \in found /\ Covers(plan, row)
    BY <1>3, <1>8, <2>1
  <2>6. Known(plan, last)
    BY <1>1, <1>6, <1>8, <2>2, <2>4, Values
  <2>7. Precedes(plan, last, row)
    <3>1. CASE row \in ToSet(fetched)
      <4>1. PICK j \in 1..Len(fetched) : row = fetched[j]
        BY <1>5, <3>1 DEF ToSet
      <4>2. ~(j <= m)
        <5> SUFFICES ASSUME j <= m PROVE FALSE
          OBVIOUS
        <5>1. j \in 1..m
          BY <1>4, <1>5
        <5>2. row \in ToSet(sent)
          BY <1>4, <4>1, <5>1 DEF ToSet
        <5> QED BY <1>8, <5>2
      <4>3. m < j
        BY <1>4, <1>5, <4>2
      <4> QED BY <1>5, <2>1, <2>2, <4>1, <4>3
    <3>2. CASE row \notin ToSet(fetched)
      BY <1>5, <2>1, <2>2, <2>5, <3>2
    <3> QED BY <3>1, <3>2
  <2>8. ~(\A i \in DOMAIN plan.order : Value(plan, last, i) = Value(plan, row, i))
    <3>1. PICK q \in Plans : q.cont /\ q.order = plan.order
      BY <1>1, <2>1 DEF Planned
    <3>2. (\A i \in DOMAIN plan.order : Value(plan, last, i) = Value(plan, row, i)) => last = row
      BY <2>1, <2>4, <2>6, <3>1 DEF TieBroken, Known, Value
    <3> QED BY <1>8, <2>3, <3>2
  <2>9. Seeks(plan, LastValues(plan, last), row)
    BY <1>1, <1>8, <2>4, <2>6, <2>7, <2>8, LaterIsBehind
  <2> QED BY <2>2, <2>5, <2>9
<1>9. plan.cont /\ reason = "complete" =>
         \A row \in base : Known(plan, row) => row \in call.seen \cup ToSet(sent)
  BY <1>7
<1>10. ASSUME reason = "available", NEW x, x.plan = plan,
              x.values = LastValues(plan, AfterSent(sent, fetched)),
              x.seen = call.seen \cup ToSet(sent), x.base = base
       PROVE  Left(x)
  BY <1>2, <1>8, <1>10 DEF Left
<1> QED BY <1>9, <1>10 DEF plan, fetched, first, cut, sent, reason, base

(***************************************************************************)
(* The steps                                                               *)
(***************************************************************************)

\* Rows that arrive move no place.
LEMMA PlacesStay ==
    ASSUME rows \subseteq rows', NEW x
    PROVE  /\ (Place(x) => Place(x)') /\ (Left(x) => Left(x)')
           /\ (Kept(x) => Kept(x)')
<1>1. \A xql, there : ~xql.relative => Matching(xql, there)' = Matching(xql, there)
  BY DEF Matching, InWindow, WindowEnd
<1>2. (Kept(x) => Kept(x)')
  BY <1>1 DEF Kept
<1>3. (Place(x) => Place(x)') /\ (Left(x) => Left(x)')
  BY DEF Place, Left
<1> QED BY <1>2, <1>3

LEMMA InitPages == Init => PageInv /\ LeftInv
BY PagesAssumption DEF Init, PageInv, LeftInv, NoRowTwice, NothingSkipped

LEMMA QueryPages ==
    ASSUME PageInv, NEW p \in Principals, NEW plan \in Plans, QueryDataset(p, plan)
    PROVE  PageInv' /\ (LeftInv => LeftInv')
<1>1. /\ call'.plan = Frozen(plan) /\ call'.values = None /\ call'.seen = {} /\ page' = None
      /\ UNCHANGED <<rows, now, cursors, cache>>
  BY DEF QueryDataset
<1>2. Planned(Frozen(plan))
  <2>1. plan \in Plan /\ now \in Int
    BY PagesAssumption DEF PageInv
  <2>2. CASE plan.cont /\ plan.relative
    <3>1. Frozen(plan) = [plan EXCEPT !.relative = FALSE, !.to = now]
      BY <2>2 DEF Frozen
    <3>2. /\ Frozen(plan) \in Plan /\ Frozen(plan).relative = FALSE
          /\ Frozen(plan).order = plan.order
      BY <2>1, <3>1 DEF Plan
    <3> QED BY <2>2, <3>2 DEF Planned
  <2>3. CASE ~(plan.cont /\ plan.relative)
    BY <2>1, <2>3 DEF Planned, Frozen
  <2> QED BY <2>2, <2>3
<1>3. \A c : (Place(c) => Place(c)') /\ (Left(c) => Left(c)') /\ (Kept(c) => Kept(c)')
  BY <1>1, PlacesStay
<1>4. PageInv'
  BY <1>1, <1>2, <1>3 DEF PageInv, NoRowTwice, Planned
<1>5. LeftInv => LeftInv'
  BY <1>1, <1>3 DEF LeftInv, NothingSkipped, Shown
<1> QED BY <1>4, <1>5

LEMMA ContinuePages ==
    ASSUME PageInv, NEW p \in Principals, NEW cursor \in cursors, ContinueDatasetQuery(p, cursor)
    PROVE  PageInv' /\ (LeftInv => LeftInv')
<1>1. /\ call'.plan = cursor.plan /\ call'.values = cursor.values /\ call'.seen = cursor.seen
      /\ call'.base = cursor.base /\ page' = None /\ UNCHANGED <<rows, now, cursors, cache>>
  BY DEF ContinueDatasetQuery
<1>2. Place(cursor) /\ cursor.values # None
  BY PagesAssumption DEF PageInv, Place
<1>3. Place(call)' /\ (Left(cursor) => Left(call)')
  BY <1>1, <1>2 DEF Place, Left
<1>4. \A c : (Place(c) => Place(c)') /\ (Left(c) => Left(c)') /\ (Kept(c) => Kept(c)')
  BY <1>1, PlacesStay
<1>5. PageInv'
  BY <1>1, <1>2, <1>3, <1>4 DEF PageInv, NoRowTwice, Place
<1>6. LeftInv => LeftInv'
  BY <1>1, <1>3, <1>4 DEF LeftInv, NothingSkipped, Shown
<1> QED BY <1>5, <1>6

\* The answer: a page, and a cursor if more is to come.
LEMMA AnswerPages ==
    ASSUME PageInv, NEW budget \in RowsInBudget, AnswerPage(budget)
    PROVE  PageInv' /\ (TieBroken /\ LeftInv => LeftInv')
<1>0. budget \in Nat /\ call # None /\ call' = None /\ UNCHANGED <<rows, now>>
  BY PagesAssumption DEF AnswerPage
<1> PICK entry \in Readings(CacheKey(call)) :
      LET fetched == entry.reply
          cut     == TakeFirst(PageLimit(call.plan), fetched)
          sent    == TakeFirst(budget, cut)
          reason  == Reason(call.plan, sent, More(fetched, cut, sent))
          first   == IF call.values = None THEN Matching(entry.key.xql, entry.read)
                     ELSE call.first
          base    == (IF call.values = None THEN first ELSE call.base) \cap entry.read
      IN /\ page' = [call |-> call, sent |-> sent, reason |-> reason, base |-> base,
                     first |-> first]
         /\ cursors' = IF reason # "available" THEN cursors
                       ELSE cursors \cup
                            {[plan |-> call.plan, binding |-> Binding(call.context),
                              values |-> LastValues(call.plan, AfterSent(sent, fetched)),
                              issued |-> now, base |-> base, first |-> first,
                              seen |-> call.seen \cup ToSet(sent)]}
         /\ cache' = Stored(entry)
  BY DEF AnswerPage
<1> DEFINE fetched == entry.reply
           cut    == TakeFirst(PageLimit(call.plan), fetched)
           sent   == TakeFirst(budget, cut)
           reason == Reason(call.plan, sent, More(fetched, cut, sent))
           first  == IF call.values = None THEN Matching(entry.key.xql, entry.read)
                     ELSE call.first
           base   == (IF call.values = None THEN first ELSE call.base) \cap entry.read
           values == LastValues(call.plan, AfterSent(sent, fetched))
           cursor == [plan |-> call.plan, binding |-> Binding(call.context), values |-> values,
                      issued |-> now, base |-> base, first |-> first,
                      seen |-> call.seen \cup ToSet(sent)]
<1>1. /\ page' = [call |-> call, sent |-> sent, reason |-> reason, base |-> base,
                  first |-> first]
      /\ cursors' = IF reason # "available" THEN cursors ELSE cursors \cup {cursor}
      /\ cache' = Stored(entry)
  OBVIOUS
<1>2. /\ ToSet(sent) \cap call.seen = {}
      /\ reason = "available" =>
           \A x : x.plan = call.plan /\ x.values = values /\ x.seen = call.seen \cup ToSet(sent)
                    => Place(x)
  BY <1>0, AnswerPlaces
<1>3. TieBroken /\ LeftInv =>
        /\ call.plan.cont /\ reason = "complete" =>
             \A row \in base : Known(call.plan, row) => row \in call.seen \cup ToSet(sent)
        /\ reason = "available" =>
             \A x : /\ x.plan = call.plan /\ x.values = values
                    /\ x.seen = call.seen \cup ToSet(sent) /\ x.base = base
                    => Left(x)
  BY <1>0, AnswerLeaves
<1> HIDE DEF fetched, first, cut, sent, reason, base, values
<1>4. /\ cursor.plan = call.plan /\ cursor.values = values
      /\ cursor.seen = call.seen \cup ToSet(sent) /\ cursor.base = base
  OBVIOUS
<1>5. /\ page'.call = call /\ page'.sent = sent /\ page'.reason = reason /\ page'.base = base
  BY <1>1
<1> HIDE DEF cursor
<1>6. \A c : (Place(c) => Place(c)') /\ (Left(c) => Left(c)') /\ (Kept(c) => Kept(c)')
  BY <1>0, PlacesStay
<1>7. \A c \in cursors' : c \in cursors \/ (c = cursor /\ reason = "available")
  BY <1>1
<1>8. PageInv'
  <2>1. ASSUME NEW c \in cursors' PROVE Place(c)'
    <3>1. Place(c)
      BY <1>2, <1>4, <1>7 DEF PageInv
    <3> QED BY <1>6, <3>1
  <2>2. NoRowTwice'
    BY <1>2, <1>5 DEF NoRowTwice
  <2>3. ASSUME NEW e \in cache' PROVE Kept(e)'
    <3>1. Kept(entry)
      BY <1>0, ReadingMeans
    <3>2. e \in cache \/ e = entry
      BY <1>1 DEF Stored
    <3> QED BY <1>6, <3>1, <3>2 DEF PageInv
  <2> QED BY <1>0, <2>1, <2>2, <2>3 DEF PageInv
<1>9. ASSUME TieBroken, LeftInv PROVE LeftInv'
  <2>1. ASSUME NEW c \in cursors' PROVE Left(c)'
    <3>1. Left(c)
      BY <1>3, <1>4, <1>7, <1>9 DEF LeftInv
    <3> QED BY <1>6, <3>1
  <2>2. NothingSkipped'
    BY <1>3, <1>5, <1>9 DEF NothingSkipped, SortValuesKnown, Known, Value, Shown
  <2> QED BY <1>0, <2>1, <2>2 DEF LeftInv
<1> QED BY <1>8, <1>9

LEMMA NextPages == PageInv /\ [Next]_vars => PageInv' /\ (TieBroken /\ LeftInv => LeftInv')
<1> SUFFICES ASSUME PageInv, [Next]_vars PROVE PageInv' /\ (TieBroken /\ LeftInv => LeftInv')
  OBVIOUS
<1>1. ASSUME NEW p \in Principals, NEW plan \in Plans, QueryDataset(p, plan)
      PROVE  PageInv' /\ (TieBroken /\ LeftInv => LeftInv')
  BY <1>1, QueryPages
<1>2. ASSUME NEW p \in Principals, NEW cursor \in cursors, ContinueDatasetQuery(p, cursor)
      PROVE  PageInv' /\ (TieBroken /\ LeftInv => LeftInv')
  BY <1>2, ContinuePages
<1>3. ASSUME NEW budget \in RowsInBudget, AnswerPage(budget)
      PROVE  PageInv' /\ (TieBroken /\ LeftInv => LeftInv')
  BY <1>3, AnswerPages
\* Every other step ends the call at most, and adds rows at most.
<1>4. ASSUME rows' \subseteq Rows, rows \subseteq rows', now' \in Int,
             UNCHANGED <<cursors, page>>, cache' \subseteq cache, call' \in {call, None}
      PROVE  PageInv' /\ (TieBroken /\ LeftInv => LeftInv')
  <2>1. \A x : (Place(x) => Place(x)') /\ (Left(x) => Left(x)') /\ (Kept(x) => Kept(x)')
    BY <1>4, PlacesStay
  <2>2. CASE call' = None
    <3>1. PageInv'
      BY <1>4, <2>1, <2>2 DEF PageInv, NoRowTwice
    <3>2. LeftInv => LeftInv'
      BY <1>4, <2>1, <2>2 DEF LeftInv, NothingSkipped, Shown
    <3> QED BY <3>1, <3>2
  <2>3. CASE call' = call
    <3>1. (Place(call) => Place(call)') /\ (Left(call) => Left(call)')
      BY <1>4, <2>3 DEF Place, Left
    <3>2. PageInv'
      BY <1>4, <2>1, <2>3, <3>1 DEF PageInv, NoRowTwice, Planned
    <3>3. LeftInv => LeftInv'
      BY <1>4, <2>1, <2>3, <3>1 DEF LeftInv, NothingSkipped, Shown
    <3> QED BY <3>2, <3>3
  <2> QED BY <1>4, <2>2, <2>3
<1>5. CASE FailQuery
  BY <1>4, <1>5 DEF FailQuery, PageInv
<1>6. ASSUME NEW row \in Rows, Ingest(row) PROVE PageInv' /\ (TieBroken /\ LeftInv => LeftInv')
  BY <1>4, <1>6 DEF Ingest, PageInv
<1>7. CASE Tick
  BY <1>4, <1>7 DEF Tick, PageInv
<1>8. CASE Change
  BY <1>4, <1>8 DEF Change, PageInv
<1>9. CASE Evict
  BY <1>4, <1>9 DEF Evict, PageInv
<1>10. CASE UNCHANGED vars
  BY <1>4, <1>10 DEF vars, PageInv
<1> QED BY <1>1, <1>2, <1>3, <1>5, <1>6, <1>7, <1>8, <1>9, <1>10 DEF Next

(***************************************************************************)
(* The theorems                                                            *)
(***************************************************************************)

LEMMA AlwaysPages == Spec => []PageInv
<1>1. PageInv /\ [Next]_vars => PageInv'
  BY NextPages
<1> QED BY <1>1, InitPages, PTL DEF Spec

\* However a cursor is used, retried or overtaken by new rows, and whatever
\* limit and response budget cut the pages, no page repeats a row that an
\* earlier page of the same query has shown (_build_seek_clause).
THEOREM RowsOnce == Spec => []NoRowTwice
<1>1. PageInv => NoRowTwice
  BY DEF PageInv
<1> QED BY <1>1, AlwaysPages, PTL

\* All pages of a query show the window its first page was asked for
\* (_freeze_timeframe).
THEOREM WindowFixed == Spec => []WindowStays
<1>1. PageInv => WindowStays
  BY DEF PageInv, Place, WindowStays
<1> QED BY <1>1, AlwaysPages, PTL

\* When a query that asked for continuation ends as complete, every row that was
\* there at the reading of each of its pages, from the cache or not, and that has
\* its sort values, was sent, if the order breaks ties, as the tool asks of its
\* callers (_execute_plan, _continuation, _cache_lookup).
THEOREM NoneSkipped ==
    ASSUME TieBroken
    PROVE  Spec => []NothingSkipped
<1>1. Init => PageInv /\ LeftInv
  BY InitPages
<1>2. PageInv /\ LeftInv /\ [Next]_vars => (PageInv /\ LeftInv)'
  BY NextPages
<1>3. LeftInv => NothingSkipped
  BY DEF LeftInv
<1> QED BY <1>1, <1>2, <1>3, PTL DEF Spec

(***************************************************************************)
(* The types                                                               *)
(***************************************************************************)

\* A page sends no more than the limit, and its cursor has the sort values of a row.
LEMMA AnswerTypes ==
    ASSUME PageInv, TypeOK, NEW budget \in RowsInBudget, AnswerPage(budget)
    PROVE  TypeOK'
<1>0. budget \in Nat /\ call # None /\ call' = None /\ rows' = rows
  BY PagesAssumption DEF AnswerPage
<1>1. call.plan \in Plan /\ Planned(call.plan) /\ rows \subseteq Rows
  BY <1>0 DEF PageInv, Planned
<1> PICK entry \in Readings(CacheKey(call)) :
      LET fetched == entry.reply
          cut     == TakeFirst(PageLimit(call.plan), fetched)
          sent    == TakeFirst(budget, cut)
          reason  == Reason(call.plan, sent, More(fetched, cut, sent))
          first   == IF call.values = None THEN Matching(entry.key.xql, entry.read)
                     ELSE call.first
          base    == (IF call.values = None THEN first ELSE call.base) \cap entry.read
      IN /\ page' = [call |-> call, sent |-> sent, reason |-> reason, base |-> base,
                     first |-> first]
         /\ cursors' = IF reason # "available" THEN cursors
                       ELSE cursors \cup
                            {[plan |-> call.plan, binding |-> Binding(call.context),
                              values |-> LastValues(call.plan, AfterSent(sent, fetched)),
                              issued |-> now, base |-> base, first |-> first,
                              seen |-> call.seen \cup ToSet(sent)]}
         /\ cache' = Stored(entry)
  BY DEF AnswerPage
<1>a. entry.reply \in Seq(entry.read)
  BY <1>0, ReadingMeans DEF Kept
<1> DEFINE fetched == entry.reply
           cut    == TakeFirst(PageLimit(call.plan), fetched)
           sent   == TakeFirst(budget, cut)
           more   == More(fetched, cut, sent)
           reason == Reason(call.plan, sent, more)
           values == LastValues(call.plan, AfterSent(sent, fetched))
<1>2. /\ page'.sent = sent /\ page'.reason = reason
      /\ \A c \in cursors' : c \in cursors \/ (reason = "available" /\ c.plan = call.plan /\ c.values = values)
  OBVIOUS
<1>3. reason \in Reasons
  BY DEF Reason, Reasons
<1>4. Len(sent) <= MaxRows
  <2>1. Len(sent) \in Nat /\ Len(cut) \in Nat /\ Len(sent) <= Len(cut) /\ Len(cut) <= PageLimit(call.plan)
    BY <1>0, <1>1, <1>a, SentMeans DEF PageCut
  <2>2. /\ call.plan.limit \in Int /\ MaxRows \in Nat /\ MaxResult \in Nat
        /\ PageLimit(call.plan) \in Nat
    BY <1>1, LimitsAreNat, PagesAssumption DEF Plan
  <2>3. PageLimit(call.plan) <= MaxRows
    BY <2>2 DEF PageLimit, Smaller, Larger
  <2> HIDE DEF sent, cut
  <2> QED BY <2>1, <2>2, <2>3
<1>5. reason = "available" =>
        /\ call.plan.cont /\ ~call.plan.relative
        /\ Len(values) = Len(call.plan.order) /\ Null \notin ToSet(values)
  <2> SUFFICES ASSUME reason = "available"
               PROVE  /\ call.plan.cont /\ ~call.plan.relative
                      /\ Len(values) = Len(call.plan.order) /\ Null \notin ToSet(values)
    OBVIOUS
  <2>1. more \in BOOLEAN
    BY DEF More
  <2>2. call.plan.cont /\ Null \notin ToSet(LastValues(call.plan, Last(sent)))
    <3> HIDE DEF sent, more
    <3> QED BY <1>1, <2>1, ReasonsMean
  <2>3. DOMAIN call.plan.order = 1..Len(call.plan.order) /\ Len(call.plan.order) \in Nat
    BY <1>1 DEF Plan
  <2>4. AfterSent(sent, fetched) = Last(sent)
    BY DEF AfterSent
  <2>5. \A row : Len(LastValues(call.plan, row)) = Len(call.plan.order)
    BY <2>3 DEF LastValues
  <2> QED BY <1>1, <2>2, <2>4, <2>5 DEF Planned
<1> HIDE DEF sent, reason, values
<1> QED BY <1>0, <1>2, <1>3, <1>4, <1>5 DEF TypeOK

LEMMA NextTypes == PageInv /\ TypeOK /\ [Next]_vars => TypeOK'
<1> SUFFICES ASSUME PageInv, TypeOK, [Next]_vars PROVE TypeOK'
  OBVIOUS
<1>1. ASSUME NEW p \in Principals, NEW plan \in Plans, QueryDataset(p, plan) PROVE TypeOK'
  BY <1>1 DEF QueryDataset, Context, TypeOK
<1>2. ASSUME NEW p \in Principals, NEW cursor \in cursors, ContinueDatasetQuery(p, cursor)
      PROVE  TypeOK'
  BY <1>2 DEF ContinueDatasetQuery, Context, TypeOK
<1>3. ASSUME NEW budget \in RowsInBudget, AnswerPage(budget) PROVE TypeOK'
  BY <1>3, AnswerTypes
<1>4. ASSUME rows' \subseteq Rows, UNCHANGED <<cursors, page>>, call' \in {call, None}
      PROVE  TypeOK'
  BY <1>4 DEF TypeOK
<1>5. CASE FailQuery
  BY <1>4, <1>5 DEF FailQuery, PageInv
<1>6. ASSUME NEW row \in Rows, Ingest(row) PROVE TypeOK'
  BY <1>4, <1>6 DEF Ingest, PageInv
<1>7. CASE Tick
  BY <1>4, <1>7 DEF Tick, PageInv
<1>8. CASE Change
  BY <1>4, <1>8 DEF Change, PageInv
<1>9. CASE Evict
  BY <1>4, <1>9 DEF Evict, PageInv
<1>10. CASE UNCHANGED vars
  BY <1>4, <1>10 DEF vars, PageInv
<1> QED BY <1>1, <1>2, <1>3, <1>5, <1>6, <1>7, <1>8, <1>9, <1>10 DEF Next

\* Every cursor handed out continues a plan with a fixed window, with one known sort
\* value for each field of its order; a page has a reason and at most
\* DATASET_QUERY_MAX_ROWS rows (_execute_plan, _continuation).
THEOREM PagesTypes == Spec => []TypeOK
<1>1. Init => TypeOK
  BY DEF Init, TypeOK
<1>2. PageInv /\ TypeOK /\ [Next]_vars => TypeOK'
  BY NextTypes
<1> QED BY <1>1, <1>2, AlwaysPages, PTL DEF Spec
===============================================================================
