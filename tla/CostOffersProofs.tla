---------------------------- MODULE CostOffersProofs ----------------------------
(***************************************************************************)
(* What learned costs may do to a rating, that a narrower window is rated  *)
(* as what it becomes, and that no rewrite leads back, for every query,    *)
(* table of tiers and of learned costs, and all unit bands                 *)
(* (src/usecase/cost_guard.py).                                            *)
(***************************************************************************)
EXTENDS CostOffers, FiniteSetTheorems, SequenceTheorems, WellFoundedInduction,
        NaturalsInduction, TLAPS

(***************************************************************************)
(* Finite sets of numbers                                                  *)
(***************************************************************************)

LEMMA LeastNumber ==
    ASSUME NEW T, T \subseteq Nat, T # {}
    PROVE  \E m \in T : \A n \in T : m <= n
<1>1. IsWellFoundedOn(OpToRel(<, Nat), Nat)
  BY NatLessThanWellFounded
<1>2. PICK m \in T : \A n \in T : ~(<<n, m>> \in OpToRel(<, Nat))
  BY <1>1, WFMin, Zenon
<1>3. \A n \in T : ~(n < m)
  BY <1>2 DEF OpToRel
<1> QED BY <1>3

HasGreatest(S) == \E m \in S : \A n \in S : n <= m

LEMMA FiniteGreatest ==
    ASSUME NEW S, IsFiniteSet(S), S \subseteq Nat, S # {}
    PROVE  HasGreatest(S)
<1> SUFFICES ASSUME ~HasGreatest(S) PROVE FALSE
  OBVIOUS
<1> DEFINE Bad == {U \in SUBSET S : U # {} /\ ~HasGreatest(U)}
           D   == {Cardinality(U) : U \in Bad}
<1>1. \A U \in SUBSET S : IsFiniteSet(U) /\ Cardinality(U) \in Nat
  BY FS_Subset, FS_CardinalityType
<1>2. D \subseteq Nat /\ D # {}
  BY <1>1
<1>3. PICK m \in D : \A n \in D : m <= n
  BY <1>2, LeastNumber
<1>4. PICK U \in Bad : Cardinality(U) = m
  BY <1>3
<1>5. PICK x \in U : TRUE
  BY <1>4
<1>6. U \ {x} \in SUBSET S /\ Cardinality(U \ {x}) = m - 1
  BY <1>1, <1>4, <1>5, FS_RemoveElement
<1>7. x \in Nat /\ U \subseteq Nat /\ m \in Nat
  BY <1>2, <1>4, <1>5
<1>8. U \ {x} \notin Bad
  <2> SUFFICES ASSUME U \ {x} \in Bad PROVE FALSE
    OBVIOUS
  <2>1. m - 1 \in D
    BY <1>6
  <2> QED BY <1>3, <1>7, <2>1
<1>9. CASE U \ {x} = {}
  <2>1. \A n \in U : n <= x
    BY <1>7, <1>9
  <2> QED BY <1>4, <1>5, <2>1 DEF HasGreatest
<1>10. CASE U \ {x} # {}
  <2>1. PICK y \in U \ {x} : \A n \in U \ {x} : n <= y
    BY <1>6, <1>8, <1>10 DEF HasGreatest
  <2>2. CASE y <= x
    <3>1. \A n \in U : n <= x
      BY <1>7, <2>1, <2>2
    <3> QED BY <1>4, <1>5, <3>1 DEF HasGreatest
  <2>3. CASE ~(y <= x)
    <3>1. \A n \in U : n <= y
      BY <1>7, <2>1, <2>3
    <3> QED BY <1>4, <2>1, <3>1 DEF HasGreatest
  <2> QED BY <2>2, <2>3
<1> QED BY <1>9, <1>10

LEMMA ImageFinite ==
    ASSUME NEW S, IsFiniteSet(S), NEW T, NEW f \in [S -> T]
    PROVE  IsFiniteSet({f[x] : x \in S})
<1> DEFINE R == {f[x] : x \in S}
<1>1. f \in Surjection(S, R)
  BY DEF Surjection
<1> QED BY <1>1, FS_Surjection

LEMMA GreatestImage ==
    ASSUME NEW S, IsFiniteSet(S), S # {}, NEW f \in [S -> Nat]
    PROVE  \E x \in S : \A y \in S : f[y] <= f[x]
<1> DEFINE R == {f[x] : x \in S}
<1>1. IsFiniteSet(R)
  BY ImageFinite
<1>2. R \subseteq Nat /\ R # {}
  OBVIOUS
<1>3. PICK m \in R : \A n \in R : n <= m
  <2> HIDE DEF R
  <2> QED BY <1>1, <1>2, FiniteGreatest DEF HasGreatest
<1> QED BY <1>3

LEMMA ElementsFinite ==
    ASSUME NEW S, NEW s \in Seq(S)
    PROVE  IsFiniteSet(ToSet(s)) /\ ToSet(s) \subseteq S
<1>1. s \in [1..Len(s) -> S] /\ Len(s) \in Nat
  OBVIOUS
<1>2. IsFiniteSet(1..Len(s))
  BY <1>1, FS_Interval
<1>3. IsFiniteSet({s[i] : i \in 1..Len(s)})
  BY <1>1, <1>2, ImageFinite
<1> QED BY <1>1, <1>3 DEF ToSet

(***************************************************************************)
(* The window of a query                                                   *)
(***************************************************************************)

LEMMA StageParts ==
    ASSUME NEW s \in AnyStage
    PROVE  /\ s.hours \in Nat /\ s.sub \in Seq(SubStage)
           /\ Shaping(s) => s.sub = <<>>
           /\ s = [kw |-> s.kw, ds |-> s.ds, eq |-> s.eq, hours |-> s.hours, key |-> s.key,
                   scan |-> s.scan, sub |-> s.sub]
  BY DEF AnyStage

LEMMA SubStageParts ==
    ASSUME NEW s \in SubStage
    PROVE  s.hours \in Nat /\ s \in AnyStage
<1>1. <<>> \in Seq(SubStage)
  OBVIOUS
<1> QED BY <1>1 DEF SubStage, AnyStage

LEMMA AllStagesFinite ==
    ASSUME NEW q \in Seq(AnyStage)
    PROVE  IsFiniteSet(AllStages(q)) /\ AllStages(q) \subseteq AnyStage
<1>1. IsFiniteSet(ToSet(q)) /\ ToSet(q) \subseteq AnyStage
  BY ElementsFinite
<1>2. \A s \in ToSet(q) : IsFiniteSet(ToSet(s.sub)) /\ ToSet(s.sub) \subseteq AnyStage
  BY <1>1, StageParts, SubStageParts, ElementsFinite
<1> DEFINE f == [s \in ToSet(q) |-> ToSet(s.sub)]
           F == {f[s] : s \in ToSet(q)}
<1>3. IsFiniteSet(F)
  <2>1. f \in [ToSet(q) -> SUBSET AnyStage]
    BY <1>2
  <2> QED BY <1>1, <2>1, ImageFinite
<1>4. IsFiniteSet(UNION F)
  BY <1>2, <1>3, FS_UNION
<1>5. AllStages(q) = ToSet(q) \cup UNION F
  BY DEF AllStages
<1>6. UNION F \subseteq AnyStage
  BY <1>2
<1> HIDE DEF F
<1>7. IsFiniteSet(ToSet(q) \cup UNION F)
  BY <1>1, <1>4, FS_Union
<1> QED BY <1>1, <1>5, <1>6, <1>7

\* Where a stage and a piece are found.
LEMMA StageIs ==
    ASSUME NEW q \in Seq(AnyStage)
    PROVE  \A s : s \in AllStages(q) <=>
                  \E i \in 1..Len(q) : \/ s = q[i]
                                       \/ \E j \in 1..Len(q[i].sub) : s = q[i].sub[j]
<1>1. \A s : s \in ToSet(q) <=> \E i \in 1..Len(q) : s = q[i]
  BY DEF ToSet
<1>2. \A t \in ToSet(q) : \A s : s \in ToSet(t.sub) <=> \E j \in 1..Len(t.sub) : s = t.sub[j]
  <2> SUFFICES ASSUME NEW t \in ToSet(q)
               PROVE  \A s : s \in ToSet(t.sub) <=> \E j \in 1..Len(t.sub) : s = t.sub[j]
    OBVIOUS
  <2>1. t.sub \in Seq(SubStage)
    BY <1>1, StageParts
  <2> QED BY <2>1 DEF ToSet
<1>3. \A s : s \in AllStages(q) <=>
             s \in ToSet(q) \/ \E t \in ToSet(q) : \E j \in 1..Len(t.sub) : s = t.sub[j]
  <2>1. \A s : s \in AllStages(q) <=>
               s \in ToSet(q) \/ \E t \in ToSet(q) : s \in ToSet(t.sub)
    BY DEF AllStages
  <2>2. \A s : (\E t \in ToSet(q) : s \in ToSet(t.sub)) <=>
               \E t \in ToSet(q) : \E j \in 1..Len(t.sub) : s = t.sub[j]
    <3> TAKE s
    <3>1. ASSUME NEW t \in ToSet(q)
          PROVE  s \in ToSet(t.sub) <=> \E j \in 1..Len(t.sub) : s = t.sub[j]
      BY <1>2
    <3> QED BY <3>1
  <2> QED BY <2>1, <2>2
<1> QED BY <1>1, <1>3

LEMMA PieceIs ==
    ASSUME NEW q \in Seq(AnyStage)
    PROVE  \A s : s \in Pieces(q) <=>
                  \E i \in 1..Len(q) : \/ s = q[i]
                                       \/ \E j \in 2..Len(q[i].sub) : s = q[i].sub[j]
<1>1. \A s : s \in ToSet(q) <=> \E i \in 1..Len(q) : s = q[i]
  BY DEF ToSet
<1>2. \A s : s \in Pieces(q) <=>
             s \in ToSet(q) \/ \E t \in ToSet(q) : \E j \in 2..Len(t.sub) : s = t.sub[j]
  BY DEF Pieces
<1> QED BY <1>1, <1>2

LEMMA Longest ==
    ASSUME NEW H, IsFiniteSet(H), H \subseteq Nat
    PROVE  /\ LongestOf(H) \in Nat
           /\ \A g \in H : g <= LongestOf(H)
           /\ H # {} => LongestOf(H) \in H
<1>1. H # {} => \E m \in H : \A n \in H : n <= m
  BY FiniteGreatest DEF HasGreatest
<1> QED BY <1>1 DEF LongestOf

LEMMA ConfigHoursFinite ==
    ASSUME NEW q \in Seq(AnyStage)
    PROVE  IsFiniteSet(ConfigHours(q)) /\ ConfigHours(q) \subseteq Nat \ {0}
<1> DEFINE C == {t \in AllStages(q) : t.kw = "config"}
           f == [s \in C |-> s.hours]
<1>1. IsFiniteSet(C) /\ C \subseteq AnyStage
  BY AllStagesFinite, FS_Subset
<1>2. f \in [C -> Nat]
  BY <1>1, StageParts
<1>3. {f[s] : s \in C} = {s.hours : s \in C} /\ {s.hours : s \in C} \subseteq Nat
  BY <1>2
<1>4. IsFiniteSet({f[s] : s \in C})
  <2> HIDE DEF C, f
  <2> QED BY <1>1, <1>2, ImageFinite
<1>5. ConfigHours(q) = {s.hours : s \in C} \ {0}
  BY DEF ConfigHours
<1> QED BY <1>3, <1>4, <1>5, FS_Subset

LEMMA WindowOfConfig ==
    ASSUME NEW q \in Seq(AnyStage)
    PROVE  /\ ConfigWindow(q) \in Nat
           /\ \A g \in ConfigHours(q) : g <= ConfigWindow(q)
           /\ ConfigHours(q) # {} => ConfigWindow(q) \in ConfigHours(q)
           /\ ConfigHours(q) = {} => ConfigWindow(q) = 0
  BY ConfigHoursFinite, Longest DEF ConfigWindow, LongestOf

(***************************************************************************)
(* A query whose config windows are cut                                    *)
(***************************************************************************)

\* What the estimator reads of a stage stays, but for the window of a config.
Mirrors(s, c, h) ==
    /\ c.kw = s.kw /\ c.ds = s.ds /\ c.eq = s.eq /\ c.key = s.key /\ c.scan = s.scan
    /\ c.hours = IF s.kw = "config" /\ s.hours > h THEN h ELSE s.hours

LEMMA CutMirrors ==
    ASSUME NEW s \in AnyStage, NEW h \in Nat
    PROVE  /\ CutStage(s, h) \in AnyStage
           /\ CutStage(s, h).sub = s.sub
           /\ Mirrors(s, CutStage(s, h), h)
  BY DEF CutStage, Mirrors, AnyStage, Shaping, ShapingStages

LEMMA CutSubStage ==
    ASSUME NEW s \in SubStage, NEW h \in Nat
    PROVE  CutStage(s, h) \in SubStage
  BY DEF CutStage, SubStage

LEMMA RewrittenStage ==
    ASSUME NEW q \in Seq(AnyStage), NEW h \in Nat, NEW i \in 1..Len(q)
    PROVE  LET s == q[i]
               c == RewriteConfig(q, h)[i]
           IN  /\ c \in AnyStage /\ Mirrors(s, c, h)
               /\ Len(c.sub) = Len(s.sub)
               /\ \A j \in 1..Len(s.sub) : c.sub[j] = CutStage(s.sub[j], h)
<1> DEFINE s == q[i]
           top == CutStage(s, h)
           sub == [j \in DOMAIN s.sub |-> CutStage(s.sub[j], h)]
           c == [top EXCEPT !.sub = sub]
<1>1. s \in AnyStage /\ s.sub \in Seq(SubStage) /\ (Shaping(s) => s.sub = <<>>)
  BY StageParts
<1>2. top \in AnyStage /\ Mirrors(s, top, h)
  BY <1>1, CutMirrors
<1>3. RewriteConfig(q, h)[i] = c
  BY DEF RewriteConfig
<1>4. \A j \in 1..Len(s.sub) : CutStage(s.sub[j], h) \in SubStage
  BY <1>1, CutSubStage
<1>5. sub \in Seq(SubStage) /\ Len(sub) = Len(s.sub)
  <2> HIDE DEF s
  <2> QED BY <1>1, <1>4
<1>6. \A j \in 1..Len(s.sub) : sub[j] = CutStage(s.sub[j], h)
  <2> HIDE DEF s
  <2> QED BY <1>1
<1>7. Shaping(s) => sub = <<>>
  <2> HIDE DEF s
  <2> QED BY <1>1
<1> HIDE DEF s, sub, top
<1>8. Shaping(top) <=> Shaping(s)
  BY <1>2 DEF Mirrors, Shaping
<1>9. c \in AnyStage /\ c.sub = sub /\ Mirrors(s, c, h)
  BY <1>2, <1>5, <1>7, <1>8 DEF AnyStage, Mirrors, Shaping
<1> QED BY <1>3, <1>5, <1>6, <1>9 DEF s

LEMMA RewriteMirrors ==
    ASSUME NEW q \in Seq(AnyStage), NEW h \in Nat
    PROVE  LET R == RewriteConfig(q, h)
           IN  /\ R \in Seq(AnyStage) /\ Len(R) = Len(q)
               /\ \A s \in Pieces(q) : \E c \in Pieces(R) : Mirrors(s, c, h)
               /\ \A c \in Pieces(R) : \E s \in Pieces(q) : Mirrors(s, c, h)
               /\ \A s \in AllStages(q) : \E c \in AllStages(R) : Mirrors(s, c, h)
               /\ \A c \in AllStages(R) : \E s \in AllStages(q) : Mirrors(s, c, h)
<1> DEFINE R == RewriteConfig(q, h)
<1>1. DOMAIN R = 1..Len(q) /\ Len(q) \in Nat
  BY DEF RewriteConfig
<1>2. \A i \in 1..Len(q) : R[i] \in AnyStage /\ Mirrors(q[i], R[i], h)
  BY RewrittenStage
<1>3. R \in Seq(AnyStage) /\ Len(R) = Len(q)
  <2>1. R = [i \in 1..Len(q) |-> R[i]]
    BY DEF RewriteConfig
  <2> HIDE DEF R
  <2> QED BY <1>1, <1>2, <2>1
<1>4. \A i \in 1..Len(q) : Len(R[i].sub) = Len(q[i].sub) /\ Len(q[i].sub) \in Nat
                           /\ q[i].sub \in Seq(SubStage) /\ R[i].sub \in Seq(SubStage)
  BY <1>2, RewrittenStage, StageParts
<1>5. \A i \in 1..Len(q) : \A j \in 1..Len(q[i].sub) :
         Mirrors(q[i].sub[j], R[i].sub[j], h)
  <2> SUFFICES ASSUME NEW i \in 1..Len(q), NEW j \in 1..Len(q[i].sub)
               PROVE  Mirrors(q[i].sub[j], R[i].sub[j], h)
    OBVIOUS
  <2>1. q[i].sub[j] \in SubStage
    BY <1>4
  <2>2. R[i].sub[j] = CutStage(q[i].sub[j], h)
    BY RewrittenStage
  <2> QED BY <2>1, <2>2, SubStageParts, CutMirrors
<1> HIDE DEF R
<1>10. \A i \in 1..Len(q) : \A j \in 2..Len(q[i].sub) : j \in 1..Len(q[i].sub)
  BY <1>4
<1>11. \A s \in Pieces(q) : \E c \in Pieces(R) : Mirrors(s, c, h)
  <2> SUFFICES ASSUME NEW s \in Pieces(q)
               PROVE  \E c \in Pieces(R) : Mirrors(s, c, h)
    OBVIOUS
  <2>1. PICK i \in 1..Len(q) : \/ s = q[i]
                               \/ \E j \in 2..Len(q[i].sub) : s = q[i].sub[j]
    BY <1>3, <1>4, PieceIs
  <2>2. CASE s = q[i]
    <3>1. R[i] \in Pieces(R)
      BY <1>3, PieceIs
    <3> QED BY <1>2, <2>2, <3>1
  <2>3. ASSUME NEW j \in 2..Len(q[i].sub), s = q[i].sub[j]
        PROVE  \E c \in Pieces(R) : Mirrors(s, c, h)
    <3>1. R[i].sub[j] \in Pieces(R)
      BY <1>3, <1>4, PieceIs
    <3> QED BY <1>5, <1>10, <2>3, <3>1
  <2> QED BY <2>1, <2>2, <2>3
<1>12. \A c \in Pieces(R) : \E s \in Pieces(q) : Mirrors(s, c, h)
  <2> SUFFICES ASSUME NEW c \in Pieces(R)
               PROVE  \E s \in Pieces(q) : Mirrors(s, c, h)
    OBVIOUS
  <2>1. PICK i \in 1..Len(q) : \/ c = R[i]
                               \/ \E j \in 2..Len(q[i].sub) : c = R[i].sub[j]
    BY <1>3, <1>4, PieceIs
  <2>2. CASE c = R[i]
    <3>1. q[i] \in Pieces(q)
      BY <1>3, PieceIs
    <3> QED BY <1>2, <2>2, <3>1
  <2>3. ASSUME NEW j \in 2..Len(q[i].sub), c = R[i].sub[j]
        PROVE  \E s \in Pieces(q) : Mirrors(s, c, h)
    <3>1. q[i].sub[j] \in Pieces(q)
      BY <1>3, <1>4, PieceIs
    <3> QED BY <1>5, <1>10, <2>3, <3>1
  <2> QED BY <2>1, <2>2, <2>3
<1>13. \A s \in AllStages(q) : \E c \in AllStages(R) : Mirrors(s, c, h)
  <2> SUFFICES ASSUME NEW s \in AllStages(q)
               PROVE  \E c \in AllStages(R) : Mirrors(s, c, h)
    OBVIOUS
  <2>1. PICK i \in 1..Len(q) : \/ s = q[i]
                               \/ \E j \in 1..Len(q[i].sub) : s = q[i].sub[j]
    BY <1>3, <1>4, StageIs
  <2>2. CASE s = q[i]
    <3>1. R[i] \in AllStages(R)
      BY <1>3, StageIs
    <3> QED BY <1>2, <2>2, <3>1
  <2>3. ASSUME NEW j \in 1..Len(q[i].sub), s = q[i].sub[j]
        PROVE  \E c \in AllStages(R) : Mirrors(s, c, h)
    <3>1. R[i].sub[j] \in AllStages(R)
      BY <1>3, <1>4, StageIs
    <3> QED BY <1>5, <1>10, <2>3, <3>1
  <2> QED BY <2>1, <2>2, <2>3
<1>14. \A c \in AllStages(R) : \E s \in AllStages(q) : Mirrors(s, c, h)
  <2> SUFFICES ASSUME NEW c \in AllStages(R)
               PROVE  \E s \in AllStages(q) : Mirrors(s, c, h)
    OBVIOUS
  <2>1. PICK i \in 1..Len(q) : \/ c = R[i]
                               \/ \E j \in 1..Len(q[i].sub) : c = R[i].sub[j]
    BY <1>3, <1>4, StageIs
  <2>2. CASE c = R[i]
    <3>1. q[i] \in AllStages(q)
      BY <1>3, StageIs
    <3> QED BY <1>2, <2>2, <3>1
  <2>3. ASSUME NEW j \in 1..Len(q[i].sub), c = R[i].sub[j]
        PROVE  \E s \in AllStages(q) : Mirrors(s, c, h)
    <3>1. q[i].sub[j] \in AllStages(q)
      BY <1>3, <1>4, StageIs
    <3> QED BY <1>5, <1>10, <2>3, <3>1
  <2> QED BY <2>1, <2>2, <2>3
<1> QED BY <1>3, <1>11, <1>12, <1>13, <1>14 DEF R

\* The rewritten query reads as the same one with another config window.
LEMMA RewriteReads ==
    ASSUME NEW q \in Seq(AnyStage), NEW h \in Nat
    PROVE  ParseQuery(RewriteConfig(q, h))
           = [ParseQuery(q) EXCEPT !.config = ConfigWindow(RewriteConfig(q, h))]
<1> DEFINE R == RewriteConfig(q, h)
<1>0. /\ \A s \in Pieces(q) : \E c \in Pieces(R) : Mirrors(s, c, h)
      /\ \A c \in Pieces(R) : \E s \in Pieces(q) : Mirrors(s, c, h)
      /\ \A s \in AllStages(q) : \E c \in AllStages(R) : Mirrors(s, c, h)
      /\ \A c \in AllStages(R) : \E s \in AllStages(q) : Mirrors(s, c, h)
  BY RewriteMirrors
<1> HIDE DEF R
<1>1. {s.kw : s \in Pieces(R)} = {s.kw : s \in Pieces(q)}
  BY <1>0 DEF Mirrors
<1>2. {s.scan : s \in AllStages(R)} = {s.scan : s \in AllStages(q)}
  BY <1>0 DEF Mirrors
<1>3. UNION {s.ds : s \in AllStages(R)} = UNION {s.ds : s \in AllStages(q)}
  <2>1. {s.ds : s \in AllStages(R)} = {s.ds : s \in AllStages(q)}
    BY <1>0 DEF Mirrors
  <2> QED BY <2>1
<1>4. (\E s \in Pieces(R) : s.kw = "filter" /\ HasSelectiveKey(s))
      = (\E s \in Pieces(q) : s.kw = "filter" /\ HasSelectiveKey(s))
  BY <1>0 DEF Mirrors, HasSelectiveKey
<1>5. ParseQuery(R) = [ParseQuery(q) EXCEPT !.config = ConfigWindow(R)]
  <2> DEFINE ds(p)    == UNION {s.ds : s \in AllStages(p)}
             kws(p)   == {s.kw : s \in Pieces(p)}
             scans(p) == {s.scan : s \in AllStages(p)}
             host(p)  == \E s \in Pieces(p) : s.kw = "filter" /\ HasSelectiveKey(s)
             Read(d, k, c, n, g) ==
                 [datasets  |-> d, stages |-> k,
                  scan      |-> IF "raw_text" \in c THEN "raw_text"
                                ELSE IF "pattern" \in c THEN "pattern" ELSE None,
                  host      |-> n,
                  aggregate |-> "comp" \in k,
                  sample    |-> k \subseteq SampleStages,
                  config    |-> g]
  <2>1. /\ ParseQuery(R) = Read(ds(R), kws(R), scans(R), host(R), ConfigWindow(R))
        /\ ParseQuery(q) = Read(ds(q), kws(q), scans(q), host(q), ConfigWindow(q))
    BY DEF ParseQuery
  <2>2. ds(R) = ds(q) /\ kws(R) = kws(q) /\ scans(R) = scans(q) /\ host(R) = host(q)
    BY <1>1, <1>2, <1>3, <1>4
  <2> HIDE DEF ds, kws, scans, host
  <2> QED BY <2>1, <2>2
<1> QED BY <1>5 DEF R

LEMMA ConfigHoursAre ==
    ASSUME NEW q, NEW g
    PROVE  g \in ConfigHours(q) <=>
           g # 0 /\ \E s \in AllStages(q) : s.kw = "config" /\ g = s.hours
  BY DEF ConfigHours

LEMMA RewriteWindow ==
    ASSUME NEW q \in Seq(AnyStage), NEW h \in Nat \ {0}, ConfigWindow(q) > h
    PROVE  ConfigWindow(RewriteConfig(q, h)) = h
<1> DEFINE R == RewriteConfig(q, h)
<1>0. /\ R \in Seq(AnyStage)
      /\ \A s \in AllStages(q) : \E c \in AllStages(R) : Mirrors(s, c, h)
      /\ \A c \in AllStages(R) : \E s \in AllStages(q) : Mirrors(s, c, h)
  BY RewriteMirrors
<1> HIDE DEF R
<1>1. PICK s \in AllStages(q) : s.kw = "config" /\ s.hours = ConfigWindow(q)
  BY WindowOfConfig, ConfigHoursAre
<1>2. ConfigWindow(q) \in Nat
  BY WindowOfConfig
<1>3. h \in ConfigHours(R)
  BY <1>0, <1>1, <1>2, ConfigHoursAre DEF Mirrors
<1>4. \A g \in ConfigHours(R) : g <= h
  <2> SUFFICES ASSUME NEW g \in ConfigHours(R)
               PROVE  g <= h
    OBVIOUS
  <2>1. PICK c \in AllStages(R) : c.kw = "config" /\ g = c.hours
    BY ConfigHoursAre
  <2>2. PICK t \in AllStages(q) : Mirrors(t, c, h)
    BY <1>0
  <2>3. t.hours \in Nat
    BY AllStagesFinite, StageParts
  <2> QED BY <2>1, <2>2, <2>3 DEF Mirrors
<1>5. ConfigWindow(R) \in ConfigHours(R) /\ \A g \in ConfigHours(R) : g <= ConfigWindow(R)
  BY <1>0, <1>3, WindowOfConfig
<1>6. ConfigWindow(R) \in Nat
  BY <1>0, WindowOfConfig
<1> QED BY <1>3, <1>4, <1>5, <1>6 DEF R

\* What a query reads as when its config window is cut to h.
CutShape(q, h) == [ParseQuery(q) EXCEPT !.config = IF @ > h THEN h ELSE @]

\* The query of a narrower offer.
LEMMA NarrowedReads ==
    ASSUME NEW q \in Seq(AnyStage), NEW t, NEW h \in Nat \ {0}
    PROVE  LET offer == NarrowerOffer(q, t, h)
           IN  /\ offer.query \in Seq(AnyStage)
               /\ ParseQuery(offer.query) = CutShape(q, h)
               /\ offer.timeframe = Narrow(t, h)
               /\ offer.estimate = EstimateQuery(ParseQuery(offer.query), Window(offer.timeframe))
<1> DEFINE offer == NarrowerOffer(q, t, h)
           shape == ParseQuery(q)
           cut == [shape EXCEPT !.config = IF shape.config > h THEN h ELSE shape.config]
<1>1. shape.config = ConfigWindow(q)
  BY DEF ParseQuery
<1>2. /\ offer.query = IF shape.config > h THEN RewriteConfig(q, h) ELSE q
      /\ offer.timeframe = Narrow(t, h)
      /\ offer.estimate = EstimateQuery(cut, Window(Narrow(t, h)))
  BY DEF NarrowerOffer, Offer
<1>3. /\ offer.query \in Seq(AnyStage)
      /\ ParseQuery(offer.query) = cut
  <2>1. CASE shape.config > h
    <3>1. RewriteConfig(q, h) \in Seq(AnyStage)
      BY RewriteMirrors
    <3>2. ParseQuery(RewriteConfig(q, h)) = [shape EXCEPT !.config = h]
      BY <1>1, <2>1, RewriteReads, RewriteWindow
    <3>3. cut = [shape EXCEPT !.config = h]
      BY <2>1
    <3> HIDE DEF offer, shape, cut
    <3> QED BY <1>2, <2>1, <3>1, <3>2, <3>3
  <2>2. CASE ~(shape.config > h)
    <3>1. cut = shape
      BY <2>2 DEF ParseQuery
    <3>2. offer.query = q
      <4> HIDE DEF offer, shape
      <4> QED BY <1>2, <2>2
    <3> HIDE DEF offer, cut
    <3> QED BY <3>1, <3>2
  <2> QED BY <2>1, <2>2
<1>4. CutShape(q, h) = cut
  BY DEF CutShape
<1> HIDE DEF cut, offer
<1>5. offer.estimate = EstimateQuery(ParseQuery(offer.query), Window(offer.timeframe))
  BY <1>2, <1>3
<1> QED BY <1>2, <1>3, <1>4, <1>5 DEF offer

(***************************************************************************)
(* Timeframes                                                              *)
(***************************************************************************)

LEMMA NarrowShrinks ==
    ASSUME NEW t \in Timeframe, t.relative = 0 => t.from < t.to, NEW h \in Nat \ {0}
    PROVE  /\ Narrow(t, h) \in Timeframe
           /\ Narrow(t, h).relative = 0 => Narrow(t, h).from < Narrow(t, h).to
           /\ Window(t) \in Nat /\ Window(Narrow(t, h)) \in Nat
           /\ Window(Narrow(t, h)) <= h /\ Window(Narrow(t, h)) <= Window(t)
           /\ Window(t) <= h => Window(Narrow(t, h)) = Window(t)
  BY DEF Timeframe, Narrow, Lookback, Between, Window

(***************************************************************************)
(* Ratings of one query over two windows                                   *)
(***************************************************************************)

LEMMA TierEntries ==
    /\ IsFiniteSet(DOMAIN TierMap)
    /\ \A i \in DOMAIN TierMap : /\ i \in Nat
                                 /\ TierMap[i].length \in Nat
                                 /\ TierMap[i].glob \in BOOLEAN
                                 /\ TierMap[i].tier \in Tiers
<1> DEFINE E == [names: SUBSET Datasets, glob: BOOLEAN, length: Nat, tier: Tiers]
<1>1. \A e \in E : e.length \in Nat /\ e.glob \in BOOLEAN /\ e.tier \in Tiers
  <2>1. \A e \in E : e.length \in Nat /\ e.tier \in Tiers
    OBVIOUS
  <2>2. \A e \in E : e.glob \in BOOLEAN
    OBVIOUS
  <2> QED BY <2>1, <2>2
<1>2. TierMap \in Seq(E)
  BY TiersAssumption
<1> HIDE DEF E
<1>3. /\ DOMAIN TierMap = 1..Len(TierMap) /\ Len(TierMap) \in Nat
      /\ \A i \in 1..Len(TierMap) : TierMap[i] \in E
  BY <1>2
<1>4. IsFiniteSet(DOMAIN TierMap)
  BY <1>3, FS_Interval
<1>5. \A i \in DOMAIN TierMap : i \in Nat /\ TierMap[i].length \in Nat /\ TierMap[i].tier \in Tiers
  BY <1>1, <1>3
<1>6. \A i \in DOMAIN TierMap : TierMap[i].glob \in BOOLEAN
  BY <1>1, <1>3, Zenon
<1> QED BY <1>4, <1>5, <1>6, Zenon

\* The tier map has a best entry for every dataset it names.
LEMMA BestEntry ==
    ASSUME NEW hits, hits \subseteq DOMAIN TierMap, hits # {}
    PROVE  \E i \in hits : \A j \in hits : Precedes(i, j)
<1> DEFINE exact == {i \in hits : ~TierMap[i].glob}
           first == IF exact # {} THEN exact ELSE hits
           f == [i \in first |-> TierMap[i].length]
<1>1. \A i \in hits : TierMap[i].length \in Nat /\ TierMap[i].glob \in BOOLEAN /\ i \in Nat
  BY TierEntries
<1>2. first # {} /\ first \subseteq hits
  OBVIOUS
<1>3. IsFiniteSet(first)
  <2> HIDE DEF first
  <2> QED BY <1>2, TierEntries, FS_Subset
<1>4. PICK k \in first : \A n \in first : TierMap[n].length <= TierMap[k].length
  <2>1. f \in [first -> Nat]
    BY <1>1, <1>2
  <2>2. PICK k \in first : \A n \in first : f[n] <= f[k]
    <3> HIDE DEF first, f
    <3> QED BY <1>2, <1>3, <2>1, GreatestImage
  <2> QED BY <2>2
<1> DEFINE long == {i \in first : TierMap[i].length = TierMap[k].length}
<1>5. long # {} /\ long \subseteq Nat
  <2>1. k \in long
    BY <1>4
  <2> QED BY <1>1, <1>2, <2>1
<1>6. PICK m \in long : \A n \in long : m <= n
  <2> HIDE DEF long
  <2> QED BY <1>5, LeastNumber
<1>7. \A j \in hits : Precedes(m, j)
  <2> SUFFICES ASSUME NEW j \in hits
               PROVE  Precedes(m, j)
    OBVIOUS
  <2>1. m \in first /\ m \in hits /\ TierMap[m].length = TierMap[k].length
    BY <1>2, <1>6
  <2>2. CASE j \notin first
    BY <1>1, <2>1, <2>2 DEF Precedes
  <2>3. CASE j \in first
    <3>1. TierMap[j].length <= TierMap[m].length
      BY <1>4, <2>1, <2>3
    <3>2. TierMap[m].glob = TierMap[j].glob
      BY <1>1, <2>1, <2>3
    <3>3. TierMap[j].length = TierMap[m].length => m <= j
      BY <1>6, <2>1, <2>3
    <3> HIDE DEF first, long, exact
    <3> QED BY <1>1, <2>1, <3>1, <3>2, <3>3 DEF Precedes
  <2> QED BY <2>2, <2>3
<1> QED BY <1>2, <1>6, <1>7

LEMMA DatasetHasTier ==
    ASSUME NEW d
    PROVE  DatasetTier(d) \in Tiers
<1> DEFINE hits == {i \in DOMAIN TierMap : d \in TierMap[i].names}
           best == CHOOSE i \in hits : \A j \in hits : Precedes(i, j)
<1>1. DefaultTier \in Tiers /\ \A i \in hits : TierMap[i].tier \in Tiers
  BY TiersAssumption, TierEntries
<1>2. Volume[d] \in DOMAIN VolumeTiers => VolumeTiers[Volume[d]] \in Tiers
  BY DEF VolumeTiers, Tiers
<1>3. hits # {} => best \in hits
  BY BestEntry
<1>4. DatasetTier(d) = IF Volume[d] \in DOMAIN VolumeTiers THEN VolumeTiers[Volume[d]]
                       ELSE IF hits = {} THEN DefaultTier ELSE TierMap[best].tier
  BY DEF DatasetTier
<1> HIDE DEF hits, best
<1> QED BY <1>1, <1>2, <1>3, <1>4

LEMMA ShapeHasTier ==
    ASSUME NEW shape
    PROVE  ShapeTier(shape) \in Tiers
<1> DEFINE tiers == {DatasetTier(d) : d \in shape.datasets}
<1>1. tiers \subseteq Tiers
  BY DatasetHasTier
<1>2. tiers # {} => \E t \in tiers : \A u \in tiers : TierPoints[u] <= TierPoints[t]
  <2> HIDE DEF tiers
  <2>1. CASE "heavy" \in tiers
    BY <1>1, <2>1 DEF Tiers, TierPoints
  <2>2. CASE "heavy" \notin tiers /\ "medium" \in tiers
    BY <1>1, <2>2 DEF Tiers, TierPoints
  <2>3. CASE tiers \subseteq {"light"}
    <3>1. TierPoints["light"] = 0
      BY DEF TierPoints
    <3>2. \A u \in tiers : u = "light"
      BY <2>3
    <3>3. \A u \in tiers : TierPoints[u] <= TierPoints["light"]
      BY <3>1, <3>2
    <3> QED BY <3>2, <3>3
  <2> QED BY <1>1, <2>1, <2>2, <2>3 DEF Tiers
<1>3. ShapeTier(shape) = IF tiers = {} THEN "heavy"
                         ELSE CHOOSE t \in tiers : \A u \in tiers : TierPoints[u] <= TierPoints[t]
  BY DEF ShapeTier
<1> HIDE DEF tiers
<1> QED BY <1>1, <1>2, <1>3 DEF Tiers

\* A dearer class has no smaller high bound: true of the default bands, and
\* asked of none that are configured.
BandsAscend ==
    /\ UnitBands["light"].high <= UnitBands["medium"].high
    /\ UnitBands["medium"].high <= UnitBands["heavy"].high
    /\ UnitBands["heavy"].high <= UnitBands["extreme"].high

LEMMA ScoreGrows ==
    ASSUME NEW shape, shape.config \in Nat, NEW g \in Nat, g <= shape.config,
           shape = [shape EXCEPT !.config = @],
           NEW a \in Nat, NEW b \in Nat, a <= b
    PROVE  /\ Score(shape, b) \in Int
           /\ Score([shape EXCEPT !.config = g], a) \in Int
           /\ Score([shape EXCEPT !.config = g], a) <= Score(shape, b)
<1> DEFINE less == [shape EXCEPT !.config = g]
           tier == ShapeTier(shape)
           wide   == IF b > shape.config THEN b ELSE shape.config
           narrow == IF a > g THEN a ELSE g
           host == IF tier = "heavy" /\ ~shape.host THEN 1 ELSE 0
           rest == ScanPoints(shape.scan)
           stages == StageScore(shape.stages)
<1>1. /\ less.config = g /\ less.datasets = shape.datasets /\ less.sample = shape.sample
      /\ less.host = shape.host /\ less.scan = shape.scan /\ less.stages = shape.stages
  OBVIOUS
<1>2. ShapeTier(less) = tier
  BY <1>1 DEF ShapeTier
<1>3. tier \in Tiers /\ TierPoints[tier] \in Nat
  BY ShapeHasTier DEF Tiers, TierPoints
<1>4. wide \in Nat /\ narrow \in Nat /\ narrow <= wide
  OBVIOUS
<1>5. /\ WindowPoints(wide) \in Nat /\ WindowPoints(narrow) \in Nat
      /\ WindowPoints(narrow) <= WindowPoints(wide)
  <2> HIDE DEF wide, narrow
  <2> QED BY <1>4 DEF WindowPoints, Day
<1>6. host \in Nat /\ rest \in Nat
  BY DEF ScanPoints
<1>7. stages \in Nat
  BY DEF StageScore, PointsOf, StagePoints
<1>8. /\ Score(shape, b) = IF shape.sample THEN TierPoints[tier] - 1
                           ELSE TierPoints[tier] + WindowPoints(wide) + host + rest + stages
      /\ Score(less, a) = IF shape.sample THEN TierPoints[tier] - 1
                          ELSE TierPoints[tier] + WindowPoints(narrow) + host + rest + stages
  BY <1>1, <1>2 DEF Score
<1> HIDE DEF less, tier, wide, narrow, host, rest, stages
<1>9. /\ Score(shape, b) \in Int /\ Score(less, a) \in Int
      /\ Score(less, a) <= Score(shape, b)
  BY <1>3, <1>5, <1>6, <1>7, <1>8
<1> QED BY <1>9 DEF less

LEMMA ClassGrows ==
    ASSUME BandsAscend, NEW a \in Int, NEW b \in Int, a <= b
    PROVE  UnitBands[CostClass(a)].high <= UnitBands[CostClass(b)].high
<1>1. \A c \in Classes : UnitBands[c].high \in Nat
  BY BandsAssumption
<1> QED BY <1>1 DEF BandsAscend, CostClass, Classes

(***************************************************************************)
(* What an offer carries                                                   *)
(***************************************************************************)

\* A timeframe a call may have: the part of ValidTimeframe the offers rest on.
Spans(t) == t \in Timeframe /\ (t.relative = 0 => t.from < t.to)

LEMMA HoursWanted ==
    ASSUME NEW h \in NarrowerWindows
    PROVE  h \in Nat \ {0} /\ (h = 24 \/ h = 168)
  BY DEF NarrowerWindows, Day

\* A narrower offer is rated as its query is, and no dearer than the refused one.
LEMMA NarrowerRated ==
    ASSUME BandsAscend, NEW q \in Seq(AnyStage), NEW t, Spans(t), NEW h \in NarrowerWindows
    PROVE  LET offer == NarrowerOffer(q, t, h)
           IN  /\ offer.estimate = EstimateQuery(ParseQuery(offer.query), Window(offer.timeframe))
               /\ offer.estimate.high <= EstimateQuery(ParseQuery(q), Window(t)).high
<1> DEFINE offer == NarrowerOffer(q, t, h)
           shape == ParseQuery(q)
           g == IF shape.config > h THEN h ELSE shape.config
           cut == [shape EXCEPT !.config = g]
           a == Window(Narrow(t, h))
           b == Window(t)
<1>1. h \in Nat \ {0}
  BY HoursWanted
<1>2. shape.config \in Nat /\ shape = [shape EXCEPT !.config = @]
  BY WindowOfConfig DEF ParseQuery
<1>3. /\ offer.estimate = EstimateQuery(ParseQuery(offer.query), Window(offer.timeframe))
      /\ ParseQuery(offer.query) = cut /\ offer.timeframe = Narrow(t, h)
  <2>1. CutShape(q, h) = cut
    BY DEF CutShape
  <2> HIDE DEF cut
  <2> QED BY <1>1, <2>1, NarrowedReads
<1>4. a \in Nat /\ b \in Nat /\ a <= b
  BY <1>1, NarrowShrinks DEF Spans
<1>5. g \in Nat /\ g <= shape.config
  BY <1>1, <1>2
<1> HIDE DEF offer, shape, g, a, b
<1>6. Score(shape, b) \in Int /\ Score(cut, a) \in Int /\ Score(cut, a) <= Score(shape, b)
  BY <1>2, <1>4, <1>5, ScoreGrows
<1>7. UnitBands[CostClass(Score(cut, a))].high <= UnitBands[CostClass(Score(shape, b))].high
  BY <1>6, ClassGrows
<1>8. EstimateQuery(cut, a).high <= EstimateQuery(shape, b).high
  BY <1>7 DEF EstimateQuery
<1>9. offer.estimate = EstimateQuery(cut, a)
  BY <1>3 DEF a
<1> QED BY <1>3, <1>8, <1>9 DEF offer, shape, b

\* Queries whose config stages have the same windows.
LEMMA SameWindow ==
    ASSUME NEW q, NEW r,
           \A s \in AllStages(q) : s.kw = "config" =>
               \E c \in AllStages(r) : c.kw = "config" /\ c.hours = s.hours,
           \A c \in AllStages(r) : c.kw = "config" =>
               \E s \in AllStages(q) : s.kw = "config" /\ s.hours = c.hours
    PROVE  ConfigWindow(r) = ConfigWindow(q)
<1>1. ConfigHours(r) = ConfigHours(q)
  BY ConfigHoursAre
<1> QED BY <1>1 DEF ConfigWindow

\* The rank of a query, from what it reads as.
LEMMA RankOf ==
    ASSUME NEW q \in Seq(AnyStage), NEW t, Spans(t)
    PROVE  LET hours == Larger(Window(t), ConfigWindow(q))
               width == IF hours > 168 THEN 2 ELSE IF hours > 24 THEN 1 ELSE 0
           IN  /\ hours \in Nat /\ Window(t) \in Nat /\ ConfigWindow(q) \in Nat
               /\ Rank(q, t) = width + (IF ParseQuery(q).host THEN 0 ELSE 1)
                                     + (IF ParseQuery(q).aggregate THEN 0 ELSE 1)
<1>1. Window(t) \in Nat
  BY DEF Spans, Timeframe, Window
<1>2. ConfigWindow(q) \in Nat
  BY WindowOfConfig
<1>3. ParseQuery(q).config = ConfigWindow(q)
  BY DEF ParseQuery
<1>4. Larger(Window(t), ConfigWindow(q)) \in Nat
  BY <1>1, <1>2 DEF Larger
<1> QED BY <1>1, <1>2, <1>3, <1>4 DEF Rank, Day

\* Neither the windows written in an offered query nor its timeframe have grown.
NoWider(offer, q, t) ==
    ConfigWindow(offer.query) <= ConfigWindow(q) /\ Window(offer.timeframe) <= Window(t)

\* A rewrite is nearer to having none left, or is the host filter the rating ignores.
LowersRank(offer, q, t) ==
    LET left == Rank(offer.query, offer.timeframe)
    IN left < Rank(q, t) \/ (FilterUncounted(offer, q) /\ left = Rank(q, t))

LEMMA NarrowerProgress ==
    ASSUME NEW q \in Seq(AnyStage), NEW t, Spans(t), NEW h \in NarrowerWindows,
           Larger(Window(t), ConfigWindow(q)) > h
    PROVE  LET offer == NarrowerOffer(q, t, h)
           IN  /\ offer.query \in Seq(AnyStage) /\ Spans(offer.timeframe)
               /\ Rank(offer.query, offer.timeframe) < Rank(q, t)
               /\ NoWider(offer, q, t)
<1> DEFINE offer == NarrowerOffer(q, t, h)
           r == offer.query
           n == offer.timeframe
<1>1. h \in Nat \ {0} /\ (h = 24 \/ h = 168)
  BY HoursWanted
<1>2. /\ r \in Seq(AnyStage)
      /\ ParseQuery(r) = CutShape(q, h)
      /\ n = Narrow(t, h)
  <2>1. h \in Nat \ {0}
    BY <1>1
  <2> QED BY <2>1, NarrowedReads
<1>3. Spans(n) /\ Window(n) <= h /\ Window(n) <= Window(t)
  <2>1. Spans(Narrow(t, h)) /\ Window(Narrow(t, h)) <= h /\ Window(Narrow(t, h)) <= Window(t)
    BY <1>1, NarrowShrinks DEF Spans
  <2> HIDE DEF r, n
  <2> QED BY <1>2, <2>1
<1> HIDE DEF offer, r, n
<1>4. /\ ConfigWindow(r) = IF ConfigWindow(q) > h THEN h ELSE ConfigWindow(q)
      /\ ParseQuery(r).host = ParseQuery(q).host
      /\ ParseQuery(r).aggregate = ParseQuery(q).aggregate
  <2>1. ParseQuery(r).config = ConfigWindow(r) /\ ParseQuery(q).config = ConfigWindow(q)
    BY DEF ParseQuery
  <2>2. /\ CutShape(q, h).config = IF ParseQuery(q).config > h THEN h ELSE ParseQuery(q).config
        /\ CutShape(q, h).host = ParseQuery(q).host
        /\ CutShape(q, h).aggregate = ParseQuery(q).aggregate
    BY DEF CutShape, ParseQuery
  <2> QED BY <1>2, <2>1, <2>2
<1>5. Larger(Window(n), ConfigWindow(r)) <= h
  BY <1>1, <1>2, <1>3, <1>4, RankOf DEF Larger
<1>6. Rank(r, n) < Rank(q, t)
  <2> DEFINE width(k) == IF k > 168 THEN 2 ELSE IF k > 24 THEN 1 ELSE 0
             rest == (IF ParseQuery(q).host THEN 0 ELSE 1)
                     + (IF ParseQuery(q).aggregate THEN 0 ELSE 1)
             wide   == Larger(Window(t), ConfigWindow(q))
             narrow == Larger(Window(n), ConfigWindow(r))
  <2>1. wide \in Nat /\ Rank(q, t) = width(wide) + rest
    BY RankOf
  <2>2. narrow \in Nat /\ Rank(r, n) = width(narrow) + rest
    <3>1. /\ narrow \in Nat
          /\ Rank(r, n) = width(narrow) + ((IF ParseQuery(r).host THEN 0 ELSE 1)
                                           + (IF ParseQuery(r).aggregate THEN 0 ELSE 1))
      <4>1. r \in Seq(AnyStage) /\ Spans(n)
        BY <1>2, <1>3
      <4> QED BY <4>1, RankOf
    <3> HIDE DEF narrow, width
    <3> QED BY <1>4, <3>1
  <2>3. rest \in Nat
    OBVIOUS
  <2>4. wide > h /\ narrow <= h
    BY <1>5
  <2> HIDE DEF rest, wide, narrow
  <2>5. width(narrow) \in Nat /\ width(wide) \in Nat /\ width(narrow) < width(wide)
    BY <1>1, <2>1, <2>2, <2>4
  <2> HIDE DEF width
  <2> QED BY <2>1, <2>2, <2>3, <2>5
<1>7. ConfigWindow(r) <= ConfigWindow(q)
  BY <1>1, <1>4, WindowOfConfig
<1> QED BY <1>2, <1>3, <1>6, <1>7 DEF offer, r, n, NoWider

(***************************************************************************)
(* Queries that take stages over from another                              *)
(***************************************************************************)

Alike(s, c) == c.kw = s.kw /\ c.key = s.key /\ c.hours = s.hours

\* Stage c has what stage s has, but for stages in X; the first stage of a
\* subquery, which is no piece of its own, may only become one.
Carries(s, c, X) ==
    /\ Alike(s, c)
    /\ \A j \in 1..Len(s.sub) :
          \/ s.sub[j] \in X
          \/ \E l \in 1..Len(c.sub) : c.sub[l] = s.sub[j] /\ (j >= 2 => l >= 2)

LEMMA Carried ==
    ASSUME NEW q \in Seq(AnyStage), NEW r \in Seq(AnyStage), NEW X, \A x \in X : x.sub = <<>>,
           \A i \in 1..Len(q) : q[i] \in X \/ \E k \in 1..Len(r) : Carries(q[i], r[k], X)
    PROVE  /\ \A s \in AllStages(q) : s \in X \/ \E c \in AllStages(r) : Alike(s, c)
           /\ \A s \in Pieces(q) : s \in X \/ \E c \in Pieces(r) : Alike(s, c)
<1>0. \A i \in 1..Len(q) : Len(q[i].sub) \in Nat
  BY StageParts
<1>1. \A k \in 1..Len(r) : Len(r[k].sub) \in Nat
  BY StageParts
<1>2. ASSUME NEW s \in AllStages(q), s \notin X
      PROVE  \E c \in AllStages(r) : Alike(s, c)
  <2>1. PICK i \in 1..Len(q) : s = q[i] \/ \E j \in 1..Len(q[i].sub) : s = q[i].sub[j]
    BY StageIs
  <2>2. q[i] \notin X
    <3>1. q[i] \in X => Len(q[i].sub) = 0
      BY <1>0
    <3> QED BY <1>2, <2>1, <3>1
  <2>3. PICK k \in 1..Len(r) : Carries(q[i], r[k], X)
    BY <2>2
  <2>4. CASE s = q[i]
    <3>1. r[k] \in AllStages(r)
      BY StageIs
    <3> QED BY <2>3, <2>4, <3>1 DEF Carries
  <2>5. ASSUME NEW j \in 1..Len(q[i].sub), s = q[i].sub[j]
        PROVE  \E c \in AllStages(r) : Alike(s, c)
    <3>1. PICK l \in 1..Len(r[k].sub) : r[k].sub[l] = s
      BY <1>2, <2>3, <2>5 DEF Carries
    <3>2. s \in AllStages(r)
      BY <3>1, StageIs
    <3> QED BY <3>2 DEF Alike
  <2> QED BY <2>1, <2>4, <2>5
<1>3. ASSUME NEW s \in Pieces(q), s \notin X
      PROVE  \E c \in Pieces(r) : Alike(s, c)
  <2>1. PICK i \in 1..Len(q) : s = q[i] \/ \E j \in 2..Len(q[i].sub) : s = q[i].sub[j]
    <3>1. \A x : x \in Pieces(q) =>
                \E i \in 1..Len(q) : x = q[i] \/ \E j \in 2..Len(q[i].sub) : x = q[i].sub[j]
      BY PieceIs
    <3> QED BY <3>1
  <2>2. q[i] \notin X
    <3>1. q[i] \in X => Len(q[i].sub) = 0
      BY <1>0
    <3> QED BY <1>3, <2>1, <3>1
  <2>3. PICK k \in 1..Len(r) : Carries(q[i], r[k], X)
    BY <2>2
  <2>4. CASE s = q[i]
    <3>1. r[k] \in Pieces(r)
      BY PieceIs
    <3> QED BY <2>3, <2>4, <3>1 DEF Carries
  <2>5. ASSUME NEW j \in 2..Len(q[i].sub), s = q[i].sub[j]
        PROVE  \E c \in Pieces(r) : Alike(s, c)
    <3>1. j \in 1..Len(q[i].sub) /\ j >= 2
      BY <1>0
    <3>2. PICK l \in 1..Len(r[k].sub) : r[k].sub[l] = s /\ l >= 2
      BY <1>3, <2>3, <2>5, <3>1 DEF Carries
    <3>3. l \in 2..Len(r[k].sub)
      BY <1>1, <3>2
    <3>4. s \in Pieces(r)
      BY <3>2, <3>3, PieceIs
    <3> QED BY <3>4 DEF Alike
  <2> QED BY <2>1, <2>4, <2>5
<1> QED BY <1>2, <1>3

LEMMA Inserted ==
    ASSUME NEW S, NEW s \in Seq(S), NEW e \in S, NEW k \in 1..Len(s) + 1
    PROVE  LET r == InsertAt(s, k, e)
           IN  /\ r \in Seq(S) /\ Len(r) = Len(s) + 1 /\ r[k] = e
               /\ \A j \in 1..Len(s) : r[IF j < k THEN j ELSE j + 1] = s[j]
               /\ \A j \in 1..Len(r) : j # k => r[j] = s[IF j < k THEN j ELSE j - 1]
<1> DEFINE a == SubSeq(s, 1, k - 1)
           b == SubSeq(s, k, Len(s))
           u == a \o <<e>>
           r == u \o b
<1>1. /\ a \in Seq(S) /\ Len(a) = k - 1 /\ \A j \in 1..k - 1 : a[j] = s[j]
  OBVIOUS
<1>2. /\ b \in Seq(S) /\ Len(b) = Len(s) - k + 1
      /\ \A j \in 1..Len(s) - k + 1 : b[j] = s[k + j - 1]
  OBVIOUS
<1> HIDE DEF a, b
<1>3. /\ u \in Seq(S) /\ Len(u) = k
      /\ \A j \in 1..k : u[j] = IF j < k THEN s[j] ELSE e
  BY <1>1
<1> HIDE DEF u
<1>4. /\ r \in Seq(S) /\ Len(r) = Len(s) + 1
      /\ \A j \in 1..Len(u) + Len(b) : r[j] = IF j <= Len(u) THEN u[j] ELSE b[j - Len(u)]
  BY <1>2, <1>3, ConcatProperties
<1> HIDE DEF r
<1>5. \A j \in 1..Len(s) + 1 : r[j] = IF j < k THEN s[j] ELSE IF j = k THEN e ELSE s[j - 1]
  <2> SUFFICES ASSUME NEW j \in 1..Len(s) + 1
               PROVE  r[j] = IF j < k THEN s[j] ELSE IF j = k THEN e ELSE s[j - 1]
    OBVIOUS
  <2>1. r[j] = IF j <= k THEN u[j] ELSE b[j - k]
    BY <1>2, <1>3, <1>4
  <2>2. CASE j <= k
    BY <1>3, <2>1, <2>2
  <2>3. CASE j > k
    <3>1. j - k \in 1..Len(s) - k + 1
      BY <2>3
    <3>2. b[j - k] = s[j - 1]
      BY <1>2, <3>1
    <3> QED BY <2>1, <2>3, <3>2
  <2> QED BY <2>2, <2>3
<1>6. InsertAt(s, k, e) = r
  BY DEF InsertAt, a, b, r, u
<1>7. ASSUME NEW j \in 1..Len(s)
      PROVE  r[IF j < k THEN j ELSE j + 1] = s[j]
  <2>1. CASE j < k
    <3>1. j \in 1..Len(s) + 1
      OBVIOUS
    <3> QED BY <1>5, <2>1, <3>1
  <2>2. CASE ~(j < k)
    <3>1. j + 1 \in 1..Len(s) + 1 /\ ~(j + 1 < k) /\ j + 1 # k /\ (j + 1) - 1 = j
      BY <2>2
    <3>2. r[j + 1] = s[(j + 1) - 1]
      BY <1>5, <3>1
    <3> QED BY <2>2, <3>1, <3>2
  <2> QED BY <2>1, <2>2
<1>8. r[k] = e /\ \A j \in 1..Len(r) : j # k => r[j] = s[IF j < k THEN j ELSE j - 1]
  BY <1>4, <1>5
<1> QED BY <1>4, <1>6, <1>7, <1>8

LEMMA FirstPlace ==
    ASSUME NEW q \in Seq(AnyStage), FirstDataset(q) # None
    PROVE  LET p == FirstDataset(q)
           IN  /\ p[1] \in 1..Len(q)
               /\ p[2] = 0 \/ p[2] \in 1..Len(q[p[1]].sub)
<1> DEFINE Opens(s) == s.kw = "dataset" /\ s.eq
           Top == {<<i, 0>> : i \in {k \in DOMAIN q : Opens(q[k])}}
           Sub == UNION {{<<i, j>> : j \in {l \in DOMAIN q[i].sub : Opens(q[i].sub[l])}} :
                           i \in DOMAIN q}
           Places == Top \cup Sub
           Least(p) == \A o \in Places : p[1] < o[1] \/ (p[1] = o[1] /\ p[2] <= o[2])
<1>1. \A i \in 1..Len(q) : DOMAIN q[i].sub = 1..Len(q[i].sub) /\ Len(q[i].sub) \in Nat
  BY StageParts
<1>2. \A p \in Places : /\ p[1] \in 1..Len(q) /\ p[2] \in Nat
                        /\ p[2] = 0 \/ p[2] \in 1..Len(q[p[1]].sub)
  <2>1. \A p \in Top : p[1] \in 1..Len(q) /\ p[2] = 0
    OBVIOUS
  <2>2. \A p \in Sub : p[1] \in 1..Len(q) /\ p[2] \in 1..Len(q[p[1]].sub)
    <3> SUFFICES ASSUME NEW i \in 1..Len(q), NEW j \in DOMAIN q[i].sub
                 PROVE  j \in 1..Len(q[i].sub)
      OBVIOUS
    <3> QED BY <1>1
  <2> HIDE DEF Top, Sub
  <2> QED BY <1>1, <2>1, <2>2
<1>3. FirstDataset(q) = IF Places = {} THEN None ELSE CHOOSE p \in Places : Least(p)
  BY DEF FirstDataset
<1> HIDE DEF Top, Sub, Places
<1>4. Places # {}
  BY <1>3
<1>5. \E p \in Places : Least(p)
  <2> DEFINE F == {p[1] : p \in Places}
  <2>1. F \subseteq Nat /\ F # {}
    BY <1>2, <1>4
  <2>2. PICK m \in F : \A n \in F : m <= n
    <3> HIDE DEF F
    <3> QED BY <2>1, LeastNumber
  <2> DEFINE G == {p[2] : p \in {o \in Places : o[1] = m}}
  <2>3. G \subseteq Nat /\ G # {}
    BY <1>2, <2>2
  <2>4. PICK l \in G : \A n \in G : l <= n
    <3> HIDE DEF G
    <3> QED BY <2>3, LeastNumber
  <2>5. PICK p \in Places : p[1] = m /\ p[2] = l
    BY <2>4
  <2>6. \A o \in Places : m <= o[1] /\ (o[1] = m => l <= o[2])
    BY <2>2, <2>4
  <2>7. Least(p)
    BY <1>2, <2>5, <2>6
  <2> QED BY <2>5, <2>7
<1>6. FirstDataset(q) \in Places
  <2> HIDE DEF Least
  <2> QED BY <1>3, <1>4, <1>5
<1> QED BY <1>2, <1>6

LEMMA CarriesItself ==
    ASSUME NEW s, NEW X
    PROVE  Carries(s, s, X)
  BY DEF Carries, Alike

(***************************************************************************)
(* The host filter                                                         *)
(***************************************************************************)

LEMMA HostFilterIs ==
    ASSUME NEW ds
    PROVE  LET f == HostFilter(ds)
           IN  /\ f \in SubStage /\ f \in AnyStage /\ f.kw = "filter" /\ f.sub = <<>>
               /\ ds \subseteq SelectiveHosts => f.key = "equals"
<1> DEFINE key == IF ds \subseteq SelectiveHosts THEN "equals" ELSE "other"
           f   == HostFilter(ds)
<1>1. NoStage \in SubStage
  BY DEF NoStage, SubStage, Word
<1>2. key \in Word /\ (ds \subseteq SelectiveHosts => key = "equals")
  BY DEF Word
<1>3. f = [NoStage EXCEPT !.kw = "filter", !.key = key, !.scan = None]
  BY DEF HostFilter, Filter
<1> HIDE DEF key, f
<1>4. \A s \in SubStage : [s EXCEPT !.kw = "filter", !.key = key, !.scan = None] \in SubStage
  BY <1>2 DEF SubStage, Word
<1>5. f \in SubStage
  BY <1>1, <1>3, <1>4
<1>6. f.kw = "filter" /\ f.key = key /\ f.sub = <<>>
  BY <1>3 DEF NoStage
<1> QED BY <1>2, <1>5, <1>6, SubStageParts DEF f

LEMMA StageInserted ==
    ASSUME NEW q \in Seq(AnyStage), NEW f, f \in SubStage, f \in AnyStage, NEW p, p[1] \in 1..Len(q),
           p[2] = 0 \/ p[2] \in 1..Len(q[p[1]].sub)
    PROVE  LET r == InsertAfter(q, p, f)
           IN  /\ r \in Seq(AnyStage) /\ f \in Pieces(r)
               /\ \A i \in 1..Len(q) : \E k \in 1..Len(r) : Carries(q[i], r[k], {})
               /\ \A k \in 1..Len(r) :
                     \/ r[k] \in {f}
                     \/ \E i \in 1..Len(q) : Carries(r[k], q[i], {f})
<1> DEFINE n == p[1]
           m == p[2]
           r == InsertAfter(q, p, f)
<1>1. CASE m = 0
  <2> DEFINE k0 == n + 1
  <2>0. r = InsertAt(q, k0, f) /\ k0 \in 1..Len(q) + 1
    BY <1>1 DEF InsertAfter
  <2>1. /\ r \in Seq(AnyStage) /\ Len(r) = Len(q) + 1 /\ r[k0] = f
        /\ \A j \in 1..Len(q) : r[IF j < k0 THEN j ELSE j + 1] = q[j]
        /\ \A j \in 1..Len(r) : j # k0 => r[j] = q[IF j < k0 THEN j ELSE j - 1]
    BY <2>0, Inserted
  <2> HIDE DEF r, k0
  <2>2. f \in Pieces(r)
    BY <2>0, <2>1, PieceIs
  <2>3. ASSUME NEW i \in 1..Len(q)
        PROVE  \E k \in 1..Len(r) : Carries(q[i], r[k], {})
    <3>1. (IF i < k0 THEN i ELSE i + 1) \in 1..Len(r)
      BY <2>0, <2>1
    <3> QED BY <2>1, <3>1, CarriesItself
  <2>4. ASSUME NEW k \in 1..Len(r), r[k] # f
        PROVE  \E i \in 1..Len(q) : Carries(r[k], q[i], {f})
    <3>1. k # k0
      BY <2>1, <2>4
    <3>2. (IF k < k0 THEN k ELSE k - 1) \in 1..Len(q)
      BY <2>0, <2>1, <3>1
    <3> QED BY <2>1, <3>1, <3>2, CarriesItself
  <2>5. \A k \in 1..Len(r) : r[k] \in {f} \/
                             \E i \in 1..Len(q) : Carries(r[k], q[i], {f})
    BY <2>4
  <2> QED BY <2>1, <2>2, <2>3, <2>5 DEF r
<1>2. CASE m # 0
  <2> DEFINE s == q[n]
             l0 == m + 1
             sub == InsertAt(s.sub, l0, f)
             c == [s EXCEPT !.sub = sub]
  <2>0. /\ s \in AnyStage /\ s.sub \in Seq(SubStage) /\ m \in 1..Len(s.sub) /\ ~Shaping(s)
        /\ l0 \in 1..Len(s.sub) + 1
    <3>1. s \in AnyStage /\ m \in 1..Len(s.sub)
      BY <1>2
    <3>2. s.sub \in Seq(SubStage) /\ (Shaping(s) => s.sub = <<>>)
      BY <3>1, StageParts
    <3> HIDE DEF s, m
    <3>3. Len(s.sub) \in Nat /\ Len(s.sub) # 0
      BY <3>1, <3>2
    <3>4. m + 1 \in 1..Len(s.sub) + 1
      BY <3>1, <3>3
    <3> QED BY <3>1, <3>2, <3>3, <3>4
  <2>1. r = [q EXCEPT ![n] = c]
    BY <1>2 DEF InsertAfter
  <2>2. /\ sub \in Seq(SubStage) /\ Len(sub) = Len(s.sub) + 1 /\ sub[l0] = f
        /\ \A j \in 1..Len(s.sub) : sub[IF j < l0 THEN j ELSE j + 1] = s.sub[j]
        /\ \A j \in 1..Len(sub) : j # l0 => sub[j] = s.sub[IF j < l0 THEN j ELSE j - 1]
    <3>1. s.sub \in Seq(SubStage) /\ l0 \in 1..Len(s.sub) + 1 /\ f \in SubStage
      BY <2>0
    <3> HIDE DEF s, l0
    <3> QED BY <3>1, Inserted
  <2> HIDE DEF sub
  <2>3. c \in AnyStage /\ c.sub = sub /\ Alike(s, c) /\ Alike(c, s)
    <3> HIDE DEF s
    <3> QED BY <2>0, <2>2 DEF AnyStage, Alike, Shaping
  <2> HIDE DEF c, r
  <2>4. r \in Seq(AnyStage) /\ Len(r) = Len(q) /\ r[n] = c
        /\ \A i \in 1..Len(q) : i # n => r[i] = q[i]
    BY <2>1, <2>3
  <2>5. f \in Pieces(r)
    <3>1. l0 \in 2..Len(r[n].sub) /\ r[n].sub[l0] = f
      BY <2>0, <2>2, <2>3, <2>4
    <3> QED BY <2>4, <3>1, PieceIs
  <2>6. Carries(s, c, {})
    <3>1. ASSUME NEW j \in 1..Len(s.sub)
          PROVE  \E l \in 1..Len(c.sub) : c.sub[l] = s.sub[j] /\ (j >= 2 => l >= 2)
      <4> DEFINE l == IF j < l0 THEN j ELSE j + 1
      <4>1. l \in 1..Len(sub) /\ (j >= 2 => l >= 2)
        <5>1. Len(s.sub) \in Nat /\ l0 \in 2..Len(s.sub) + 1
          BY <2>0
        <5>2. Len(sub) = Len(s.sub) + 1
          BY <2>2
        <5> HIDE DEF s, l0
        <5> QED BY <5>1, <5>2
      <4>2. sub[l] = s.sub[j]
        BY <2>2
      <4> QED BY <2>3, <4>1, <4>2
    <3> QED BY <2>3, <3>1 DEF Carries
  <2>7. Carries(c, s, {f})
    <3>1. ASSUME NEW l \in 1..Len(c.sub), c.sub[l] # f
          PROVE  \E j \in 1..Len(s.sub) : s.sub[j] = c.sub[l] /\ (l >= 2 => j >= 2)
      <4> DEFINE j == IF l < l0 THEN l ELSE l - 1
      <4>1. l # l0 /\ l \in 1..Len(sub)
        BY <2>2, <2>3, <3>1
      <4>2. j \in 1..Len(s.sub) /\ (l >= 2 => j >= 2)
        <5>1. Len(s.sub) \in Nat /\ l0 \in 2..Len(s.sub) + 1
          BY <2>0
        <5>2. l \in 1..Len(s.sub) + 1 /\ l # l0
          <6> HIDE DEF s, l0
          <6> QED BY <2>2, <4>1
        <5> HIDE DEF s, l0
        <5> QED BY <5>1, <5>2
      <4>3. sub[l] = s.sub[j]
        BY <2>2, <4>1
      <4> QED BY <2>3, <4>2, <4>3
    <3> QED BY <2>3, <3>1 DEF Carries
  <2>8. ASSUME NEW i \in 1..Len(q)
        PROVE  \E k \in 1..Len(r) : Carries(q[i], r[k], {})
    BY <2>4, <2>6, CarriesItself
  <2>9. ASSUME NEW k \in 1..Len(r)
        PROVE  \E i \in 1..Len(q) : Carries(r[k], q[i], {f})
    BY <2>4, <2>7, CarriesItself
  <2> QED BY <2>4, <2>5, <2>8, <2>9 DEF r
<1> QED BY <1>1, <1>2

LEMMA HostProgress ==
    ASSUME NEW q \in Seq(AnyStage), NEW t, Spans(t), NEW lists,
           NEW offer \in HostOffers(q, t, lists)
    PROVE  /\ offer.query \in Seq(AnyStage) /\ Spans(offer.timeframe)
           /\ LowersRank(offer, q, t)
           /\ NoWider(offer, q, t)
<1> DEFINE p == HostFilterTarget(q)
           f == HostFilter(StageAt(q, p).ds)
           r == InsertAfter(q, p, f)
           ds == HeavyDatasets(ParseQuery(q))
<1>1. p # None /\ ~ParseQuery(q).host /\ offer.query = r /\ offer.timeframe = t
      /\ offer.kind = "host_filter"
  BY DEF HostOffers, Offer, InsertHostFilter
<1>2. FirstDataset(q) # None /\ p = FirstDataset(q) /\ StageAt(q, p).ds = ds
  BY <1>1 DEF HostFilterTarget
<1>3. p[1] \in 1..Len(q) /\ (p[2] = 0 \/ p[2] \in 1..Len(q[p[1]].sub))
  <2> HIDE DEF p
  <2> QED BY <1>2, FirstPlace
<1>0. /\ f \in SubStage /\ f \in AnyStage /\ f.kw = "filter" /\ f.sub = <<>>
      /\ ds \subseteq SelectiveHosts => f.key = "equals"
  BY <1>2, HostFilterIs
<1> HIDE DEF p, f, ds
<1>4. /\ r \in Seq(AnyStage) /\ f \in Pieces(r)
      /\ \A i \in 1..Len(q) : \E k \in 1..Len(r) : Carries(q[i], r[k], {})
      /\ \A k \in 1..Len(r) : \/ r[k] \in {f}
                              \/ \E i \in 1..Len(q) : Carries(r[k], q[i], {f})
  BY <1>0, <1>3, StageInserted
<1> HIDE DEF r
<1>5. /\ \A s \in AllStages(q) : \E c \in AllStages(r) : Alike(s, c)
      /\ \A s \in Pieces(q) : \E c \in Pieces(r) : Alike(s, c)
  <2> DEFINE X == {}
  <2>1. \A x \in X : x.sub = <<>>
    OBVIOUS
  <2>2. \A i \in 1..Len(q) : q[i] \in X \/ \E k \in 1..Len(r) : Carries(q[i], r[k], X)
    BY <1>4
  <2>3. /\ \A s \in AllStages(q) : s \in X \/ \E c \in AllStages(r) : Alike(s, c)
        /\ \A s \in Pieces(q) : s \in X \/ \E c \in Pieces(r) : Alike(s, c)
    <3> HIDE DEF X
    <3> QED BY <1>4, <2>1, <2>2, Carried
  <2> QED BY <2>3
<1>6. /\ \A c \in AllStages(r) : c \in {f} \/ \E s \in AllStages(q) : Alike(c, s)
      /\ \A c \in Pieces(r) : c \in {f} \/ \E s \in Pieces(q) : Alike(c, s)
  BY <1>0, <1>4, Carried
<1>7. ConfigWindow(r) = ConfigWindow(q)
  BY <1>5, <1>6, <1>0, SameWindow DEF Alike
<1>8. ds \subseteq SelectiveHosts => ParseQuery(r).host
  BY <1>0, <1>4 DEF ParseQuery, HasSelectiveKey
<1>9. ParseQuery(r).aggregate <=> ParseQuery(q).aggregate
  <2>1. (\E c \in Pieces(r) : c.kw = "comp") <=> \E s \in Pieces(q) : s.kw = "comp"
    BY <1>0, <1>5, <1>6 DEF Alike
  <2> QED BY <2>1 DEF ParseQuery
<1>10. Rank(r, t) <= Rank(q, t) /\ (ParseQuery(r).host => Rank(r, t) < Rank(q, t))
       /\ Rank(r, t) \in Int /\ Rank(q, t) \in Int
  BY <1>1, <1>4, <1>7, <1>9, RankOf
<1>11. LowersRank(offer, q, t)
  <2>1. CASE ds \subseteq SelectiveHosts
    BY <1>1, <1>8, <1>10, <2>1 DEF LowersRank
  <2>2. CASE ~(ds \subseteq SelectiveHosts)
    BY <1>1, <1>10, <2>2 DEF LowersRank, FilterUncounted, ds
  <2> QED BY <2>1, <2>2
<1>12. ConfigWindow(q) \in Nat /\ Window(t) \in Nat
  BY RankOf
<1> QED BY <1>1, <1>4, <1>7, <1>11, <1>12 DEF NoWider

(***************************************************************************)
(* The aggregation                                                         *)
(***************************************************************************)

\* The kept stages: every one that does not shape the rows, and no other.
LEMMA KeptAre ==
    ASSUME NEW q \in Seq(AnyStage)
    PROVE  /\ KeptStages(q) \in Seq(AnyStage)
           /\ \A i \in Kept(q) : \E n \in 1..Len(KeptStages(q)) : KeptStages(q)[n] = q[i]
           /\ \A n \in 1..Len(KeptStages(q)) : \E i \in Kept(q) : KeptStages(q)[n] = q[i]
<1> DEFINE K == Kept(q)
           U(i) == {j \in K : j <= i}
           c == Cardinality(K)
           rank == [i \in K |-> Cardinality(U(i))]
<1>1. K \subseteq 1..Len(q) /\ K \subseteq Nat
  BY DEF Kept
<1>2. IsFiniteSet(K) /\ c \in Nat
  <2>1. IsFiniteSet(1..Len(q))
    BY FS_Interval
  <2> QED BY <1>1, <2>1, FS_Subset, FS_CardinalityType
<1> HIDE DEF K
<1>3. \A i \in K : /\ IsFiniteSet(U(i)) /\ Cardinality(U(i)) \in 1..c
  <2> SUFFICES ASSUME NEW i \in K
               PROVE  IsFiniteSet(U(i)) /\ Cardinality(U(i)) \in 1..c
    OBVIOUS
  <2>1. IsFiniteSet(U(i)) /\ Cardinality(U(i)) <= c
    <3>1. U(i) \in SUBSET K
      OBVIOUS
    <3> QED BY <1>2, <3>1, FS_Subset
  <2>2. Cardinality(U(i)) \in Nat /\ Cardinality(U(i)) # 0
    <3>1. i \in U(i)
      BY <1>1
    <3> QED BY <2>1, <3>1, FS_CardinalityType, FS_EmptySet
  <2> QED BY <1>2, <2>1, <2>2
<1>4. \A i, j \in K : i < j => Cardinality(U(i)) # Cardinality(U(j))
  <2> SUFFICES ASSUME NEW i \in K, NEW j \in K, i < j, Cardinality(U(i)) = Cardinality(U(j))
               PROVE  FALSE
    OBVIOUS
  <2>1. U(i) \in SUBSET U(j)
    <3>1. \A k \in K : k <= i => k <= j
      BY <1>1
    <3> QED BY <3>1
  <2>2. U(i) = U(j)
    BY <1>3, <2>1, FS_Subset
  <2>3. j \in U(j) /\ j \notin U(i)
    BY <1>1
  <2> QED BY <2>2, <2>3
<1>5. \A i, j \in K : Cardinality(U(i)) = Cardinality(U(j)) => i = j
  <2> SUFFICES ASSUME NEW i \in K, NEW j \in K, Cardinality(U(i)) = Cardinality(U(j))
               PROVE  i = j
    OBVIOUS
  <2>1. ~(i < j) /\ ~(j < i)
    BY <1>4
  <2> QED BY <1>1, <2>1
<1>6. rank \in Injection(K, 1..c)
  BY <1>3, <1>5 DEF Injection, IsInjective
<1>7. rank \in Surjection(K, 1..c)
  <2>1. IsFiniteSet(1..c) /\ Cardinality(1..c) = c
    BY <1>2, FS_Interval
  <2> HIDE DEF rank
  <2> QED BY <1>6, <2>1, FS_Injection
<1>8. \A n \in 1..c : \E i \in K : Cardinality(U(i)) = n
  BY <1>7 DEF Surjection
<1> DEFINE at(n) == CHOOSE i \in K : Cardinality(U(i)) = n
<1>9. \A n \in 1..c : at(n) \in K /\ Cardinality(U(at(n))) = n
  BY <1>8
<1>10. \A i \in K : at(Cardinality(U(i))) = i
  <2> SUFFICES ASSUME NEW i \in K
               PROVE  at(Cardinality(U(i))) = i
    OBVIOUS
  <2>1. \E j \in K : Cardinality(U(j)) = Cardinality(U(i))
    OBVIOUS
  <2>2. at(Cardinality(U(i))) \in K /\ Cardinality(U(at(Cardinality(U(i))))) = Cardinality(U(i))
    BY <2>1
  <2> HIDE DEF at, U
  <2> QED BY <1>5, <2>2
<1>11. KeptStages(q) = [n \in 1..c |-> q[at(n)]]
  BY DEF KeptStages, KeptUpTo, K
<1> HIDE DEF at, U, rank, c
<1>12. /\ KeptStages(q) \in Seq(AnyStage) /\ Len(KeptStages(q)) = c
       /\ \A n \in 1..c : KeptStages(q)[n] = q[at(n)]
  <2>1. ASSUME NEW n \in 1..c
        PROVE  q[at(n)] \in AnyStage
    <3>1. at(n) \in 1..Len(q)
      BY <1>1, <1>9
    <3> QED BY <3>1
  <2> QED BY <1>2, <1>11, <2>1
<1> QED BY <1>3, <1>9, <1>10, <1>12 DEF K

Added == {Stage("comp"), Stage("sort"), Stage("limit")}

LEMMA AddedAre ==
    /\ Added \subseteq AnyStage
    /\ \A x \in Added : x.kw \in {"comp", "sort", "limit"} /\ x.sub = <<>>
    /\ \E x \in Added : x.kw = "comp"
<1>1. NoStage \in SubStage
  BY DEF NoStage, SubStage, Word
<1>2. \A kw \in {"comp", "sort", "limit"} : \A s \in SubStage : [s EXCEPT !.kw = kw] \in SubStage
  BY DEF SubStage, Word
<1>3. \A kw \in {"comp", "sort", "limit"} : Stage(kw) \in SubStage
  BY <1>1, <1>2 DEF Stage
<1>4. Added \subseteq AnyStage
  BY <1>3, SubStageParts DEF Added
<1>5. \A kw \in {"comp", "sort", "limit"} : Stage(kw).kw = kw /\ Stage(kw).sub = <<>>
  BY DEF Stage, NoStage
<1> QED BY <1>4, <1>5 DEF Added

LEMMA AggregateAre ==
    ASSUME NEW q \in Seq(AnyStage)
    PROVE  LET r == AggregateRewrite(q)
           IN  /\ r \in Seq(AnyStage)
               /\ \A i \in Kept(q) : \E k \in 1..Len(r) : r[k] = q[i]
               /\ \A k \in 1..Len(r) : r[k] \in Added \/ \E i \in Kept(q) : r[k] = q[i]
               /\ \A x \in Added : \E k \in 1..Len(r) : r[k] = x
<1> DEFINE a == KeptStages(q)
           b == <<Stage("comp"), Stage("sort"), Stage("limit")>>
           r == a \o b
<1>1. /\ a \in Seq(AnyStage)
      /\ \A i \in Kept(q) : \E n \in 1..Len(a) : a[n] = q[i]
      /\ \A n \in 1..Len(a) : \E i \in Kept(q) : a[n] = q[i]
  BY KeptAre
<1>2. /\ b \in Seq(AnyStage) /\ Len(b) = 3
      /\ \A n \in 1..3 : b[n] \in Added
      /\ \A x \in Added : \E n \in 1..3 : b[n] = x
  <2>1. /\ Stage("comp") \in AnyStage /\ Stage("sort") \in AnyStage /\ Stage("limit") \in AnyStage
    BY AddedAre DEF Added
  <2>2. b \in Seq(AnyStage) /\ Len(b) = 3
    BY <2>1
  <2>3. b[1] = Stage("comp") /\ b[2] = Stage("sort") /\ b[3] = Stage("limit")
    OBVIOUS
  <2> HIDE DEF b
  <2> QED BY <2>2, <2>3 DEF Added
<1> HIDE DEF a, b
<1>3. /\ r \in Seq(AnyStage) /\ Len(r) = Len(a) + 3 /\ Len(a) \in Nat
      /\ \A k \in 1..Len(a) + 3 : r[k] = IF k <= Len(a) THEN a[k] ELSE b[k - Len(a)]
  <2>1. /\ r \in Seq(AnyStage) /\ Len(r) = Len(a) + Len(b)
        /\ \A k \in 1..Len(a) + Len(b) : r[k] = IF k <= Len(a) THEN a[k] ELSE b[k - Len(a)]
    <3>1. a \in Seq(AnyStage) /\ b \in Seq(AnyStage)
      BY <1>1, <1>2
    <3> QED BY <3>1, ConcatProperties
  <2>2. Len(b) = 3 /\ Len(a) \in Nat
    BY <1>1, <1>2
  <2> HIDE DEF r
  <2> QED BY <2>1, <2>2
<1> HIDE DEF r
<1>4. \A n \in 1..Len(a) : n \in 1..Len(r) /\ r[n] = a[n]
  BY <1>3
<1>5. \A n \in 1..3 : Len(a) + n \in 1..Len(r) /\ r[Len(a) + n] = b[n]
  BY <1>3
<1>6. \A k \in 1..Len(r) : k \in 1..Len(a) \/ k - Len(a) \in 1..3
  BY <1>3
<1>7. \A i \in Kept(q) : \E k \in 1..Len(r) : r[k] = q[i]
  BY <1>1, <1>4
<1>8. \A x \in Added : \E k \in 1..Len(r) : r[k] = x
  BY <1>2, <1>5
<1>9. ASSUME NEW k \in 1..Len(r)
      PROVE  r[k] \in Added \/ \E i \in Kept(q) : r[k] = q[i]
  <2>1. CASE k \in 1..Len(a)
    BY <1>1, <1>4, <2>1
  <2>2. CASE k - Len(a) \in 1..3
    <3>1. r[k] = b[k - Len(a)]
      BY <1>3, <2>2
    <3> QED BY <1>2, <2>2, <3>1
  <2> QED BY <1>6, <2>1, <2>2
<1> QED BY <1>3, <1>7, <1>8, <1>9 DEF AggregateRewrite, a, b, r

LEMMA AggregateProgress ==
    ASSUME NEW q \in Seq(AnyStage), NEW t, Spans(t), NEW offer \in AggregateOffers(q, t)
    PROVE  /\ offer.query \in Seq(AnyStage) /\ Spans(offer.timeframe)
           /\ Rank(offer.query, offer.timeframe) < Rank(q, t)
           /\ NoWider(offer, q, t)
<1> DEFINE r == AggregateRewrite(q)
           X == {s \in AnyStage : Shaping(s)}
<1>1. ~ParseQuery(q).aggregate /\ offer.query = r /\ offer.timeframe = t
  BY DEF AggregateOffers, Offer
<1>2. /\ r \in Seq(AnyStage)
      /\ \A i \in Kept(q) : \E k \in 1..Len(r) : r[k] = q[i]
      /\ \A k \in 1..Len(r) : r[k] \in Added \/ \E i \in Kept(q) : r[k] = q[i]
      /\ \A x \in Added : \E k \in 1..Len(r) : r[k] = x
  BY AggregateAre
<1> HIDE DEF r
<1>3. \A x \in X : x.sub = <<>> /\ x.kw \in {"fields", "sort", "limit", "dedup"}
  BY StageParts DEF Shaping, ShapingStages
<1>4. \A i \in 1..Len(q) : q[i] \in X \/ i \in Kept(q)
  BY DEF Kept
<1>5. Kept(q) \subseteq 1..Len(q)
  BY DEF Kept
<1> HIDE DEF X
<1>6. /\ \A s \in AllStages(q) : s \in X \/ \E c \in AllStages(r) : Alike(s, c)
      /\ \A s \in Pieces(q) : s \in X \/ \E c \in Pieces(r) : Alike(s, c)
  <2>1. \A i \in 1..Len(q) : q[i] \in X \/ \E k \in 1..Len(r) : Carries(q[i], r[k], X)
    BY <1>2, <1>4, CarriesItself
  <2> QED BY <1>2, <1>3, <2>1, Carried
<1>7. /\ \A c \in AllStages(r) : c \in Added \/ \E s \in AllStages(q) : Alike(c, s)
      /\ \A c \in Pieces(r) : c \in Added \/ \E s \in Pieces(q) : Alike(c, s)
  <2>1. \A k \in 1..Len(r) : r[k] \in Added \/ \E i \in 1..Len(q) : Carries(r[k], q[i], Added)
    BY <1>2, <1>5, CarriesItself
  <2> QED BY <1>2, <2>1, AddedAre, Carried
<1>8. ConfigWindow(r) = ConfigWindow(q)
  <2>1. \A s \in AllStages(q) : s.kw = "config" =>
            \E c \in AllStages(r) : c.kw = "config" /\ c.hours = s.hours
    BY <1>3, <1>6 DEF Alike
  <2>2. \A c \in AllStages(r) : c.kw = "config" =>
            \E s \in AllStages(q) : s.kw = "config" /\ s.hours = c.hours
    BY <1>7, AddedAre DEF Alike
  <2> QED BY <2>1, <2>2, SameWindow
<1>9. ParseQuery(r).host <=> ParseQuery(q).host
  <2>1. \A s \in Pieces(q) : s.kw = "filter" /\ HasSelectiveKey(s) =>
            \E c \in Pieces(r) : c.kw = "filter" /\ HasSelectiveKey(c)
    BY <1>3, <1>6 DEF Alike, HasSelectiveKey
  <2>2. \A c \in Pieces(r) : c.kw = "filter" /\ HasSelectiveKey(c) =>
            \E s \in Pieces(q) : s.kw = "filter" /\ HasSelectiveKey(s)
    BY <1>7, AddedAre DEF Alike, HasSelectiveKey
  <2> QED BY <2>1, <2>2 DEF ParseQuery
<1>10. ParseQuery(r).aggregate
  <2>1. \E c \in Pieces(r) : c.kw = "comp"
    BY <1>2, AddedAre, PieceIs
  <2> QED BY <2>1 DEF ParseQuery
<1>11. Rank(r, t) < Rank(q, t)
  BY <1>1, <1>2, <1>8, <1>9, <1>10, RankOf
<1>12. ConfigWindow(q) \in Nat /\ Window(t) \in Nat
  BY RankOf
<1> QED BY <1>1, <1>2, <1>8, <1>11, <1>12 DEF NoWider

LEMMA SeedIsBand ==
    ASSUME NEW shape, NEW hours
    PROVE  /\ EstimateQuery(shape, hours).low \in Nat
           /\ EstimateQuery(shape, hours).high \in Nat
           /\ EstimateQuery(shape, hours).low <= EstimateQuery(shape, hours).high
<1> DEFINE class == CostClass(Score(shape, hours))
<1>1. class \in Classes
  BY DEF CostClass, Classes
<1> HIDE DEF class
<1>2. UnitBands[class] \in [low : Nat, high : Nat] /\ UnitBands[class].low <= UnitBands[class].high
  BY <1>1, BandsAssumption
<1>3. EstimateQuery(shape, hours) = [class |-> class, low |-> UnitBands[class].low,
                                     high |-> UnitBands[class].high]
  BY DEF EstimateQuery, class
<1> QED BY <1>2, <1>3

\* An entry moves the units between the floor of its seed and its own maximum.
LEMMA LearnedAboveFloor ==
    ASSUME NEW seed, seed.low \in Nat, seed.high \in Nat, NEW entry \in LearnedCosts,
           seed = [class |-> seed.class, low |-> seed.low, high |-> seed.high]
    PROVE  LET rated == WithLearned(seed, entry)
           IN  /\ rated.class = seed.class
               /\ seed.low <= rated.low /\ rated.low <= rated.high
<1>1. entry.median \in Nat /\ entry.high \in Nat
  BY LearnedAssumption
<1> DEFINE high == Larger(entry.high, seed.low)
           low  == Smaller(Larger(entry.median, seed.low), high)
<1>2. high \in Nat /\ low \in Nat /\ seed.low <= low /\ low <= high
  BY <1>1 DEF Larger, Smaller
<1>3. WithLearned(seed, entry) = [seed EXCEPT !.low = low, !.high = high]
  BY DEF WithLearned
<1> HIDE DEF high, low
<1>4. /\ WithLearned(seed, entry).class = seed.class
      /\ WithLearned(seed, entry).low = low /\ WithLearned(seed, entry).high = high
  BY <1>3
<1> QED BY <1>2, <1>4

LEMMA RatedAboveFloor ==
    ASSUME NEW q, NEW shape, NEW hours
    PROVE  LET seed  == EstimateQuery(shape, hours)
               rated == ApplyLearnedCost(seed, q, shape, hours)
           IN  rated.class = seed.class /\ seed.low <= rated.low /\ rated.low <= rated.high
<1> DEFINE seed == EstimateQuery(shape, hours)
           rows == LookupCost(q, Larger(hours, shape.config))
<1>1. seed.low \in Nat /\ seed.high \in Nat /\ seed.low <= seed.high
  BY SeedIsBand
<1>2. seed = [class |-> seed.class, low |-> seed.low, high |-> seed.high]
  BY DEF EstimateQuery
<1>3. rows \subseteq LearnedCosts
  BY DEF LookupCost
<1>4. ApplyLearnedCost(seed, q, shape, hours) = seed
      \/ /\ rows # {}
         /\ ApplyLearnedCost(seed, q, shape, hours) = WithLearned(seed, CHOOSE row \in rows : TRUE)
  BY DEF ApplyLearnedCost
<1> HIDE DEF seed, rows
<1>5. CASE ApplyLearnedCost(seed, q, shape, hours) = seed
  BY <1>1, <1>5 DEF seed
<1>6. CASE /\ rows # {}
           /\ ApplyLearnedCost(seed, q, shape, hours) = WithLearned(seed, CHOOSE row \in rows : TRUE)
  <2>1. (CHOOSE row \in rows : TRUE) \in LearnedCosts
    BY <1>3, <1>6
  <2> QED BY <1>1, <1>2, <1>6, <2>1, LearnedAboveFloor DEF seed
<1> QED BY <1>4, <1>5, <1>6

(***************************************************************************)
(* Every offer a refusal may make                                          *)
(***************************************************************************)

LEMMA OffersStep ==
    ASSUME NEW q \in Seq(AnyStage), NEW t, Spans(t), NEW lists,
           NEW offer \in BuildAlternatives(q, t, lists), offer.query # <<>>
    PROVE  /\ offer.query \in Seq(AnyStage) /\ Spans(offer.timeframe)
           /\ LowersRank(offer, q, t)
           /\ NoWider(offer, q, t)
<1>1. CASE offer \in NarrowerOffers(q, t)
  <2>1. PICK h \in NarrowerWindows : /\ Larger(Window(t), ConfigWindow(q)) > h
                                     /\ offer = NarrowerOffer(q, t, h)
    BY <1>1 DEF NarrowerOffers
  <2> QED BY <2>1, NarrowerProgress DEF LowersRank
<1>2. CASE offer \in HostOffers(q, t, lists)
  BY <1>2, HostProgress
<1>3. CASE offer \in AggregateOffers(q, t)
  BY <1>3, AggregateProgress DEF LowersRank
<1>4. CASE offer \in CheaperOffers(q, t)
  <2>1. \E e : offer = Offer("cheaper_dataset", <<>>, t, e)
    BY <1>4 DEF CheaperOffers
  <2>2. offer.query = <<>>
    BY <2>1 DEF Offer
  <2> QED BY <2>2
<1> QED BY <1>1, <1>2, <1>3, <1>4 DEF BuildAlternatives, Rewrites

LEMMA OffersRated ==
    ASSUME NEW q, NEW t, NEW lists, NEW offer \in BuildAlternatives(q, t, lists)
    PROVE  offer.estimate.class \in Classes
<1>1. \A shape, hours : EstimateQuery(shape, hours).class \in Classes
  BY DEF EstimateQuery, CostClass, Classes
<1>2. \E kind, text, window, shape, hours :
         offer = Offer(kind, text, window, EstimateQuery(shape, hours))
  <2>1. CASE offer \in NarrowerOffers(q, t)
    BY <2>1 DEF NarrowerOffers, NarrowerOffer
  <2>2. CASE offer \in HostOffers(q, t, lists)
    BY <2>2 DEF HostOffers
  <2>3. CASE offer \in AggregateOffers(q, t)
    BY <2>3 DEF AggregateOffers
  <2>4. CASE offer \in CheaperOffers(q, t)
    BY <2>4 DEF CheaperOffers
  <2> QED BY <2>1, <2>2, <2>3, <2>4 DEF BuildAlternatives, Rewrites
<1> QED BY <1>1, <1>2 DEF Offer

\* The inductive invariant: the text and the timeframe stay ones the estimator
\* reads, whichever offers led to them, and the offers are those of the text.
QueryInv ==
    /\ query \in Seq(AnyStage) /\ Spans(timeframe)
    /\ offers \subseteq BuildAlternatives(query, timeframe, servers)

LEMMA InitQuery == Init => QueryInv
<1> SUFFICES ASSUME Init
             PROVE  QueryInv
  OBVIOUS
<1>1. query \in Seq(AnyStage) /\ timeframe \in Timeframe /\ offers = {}
  BY OffersAssumption DEF Init
<1>2. timeframe.relative = 0 => timeframe.from < timeframe.to
  BY DEF Init, ValidTimeframe
<1> QED BY <1>1, <1>2 DEF QueryInv, Spans

LEMMA NextQuery == QueryInv /\ [Next]_vars => QueryInv'
<1> SUFFICES ASSUME QueryInv, [Next]_vars
             PROVE  QueryInv'
  OBVIOUS
<1>1. CASE Run
  <2>1. UNCHANGED <<query, timeframe, servers, offers>>
    BY <1>1 DEF Run
  <2> QED BY <2>1 DEF QueryInv
<1>2. CASE Refuse
  <2>1. UNCHANGED <<query, timeframe, servers>>
        /\ offers' = BuildAlternatives(query, timeframe, servers)
    BY <1>2 DEF Refuse
  <2> QED BY <2>1 DEF QueryInv
<1>3. CASE Take
  <2>1. PICK offer \in offers : /\ offer.query # <<>>
                                /\ query' = offer.query /\ timeframe' = offer.timeframe
    BY <1>3 DEF Take
  <2>2. offers' = {}
    BY <1>3 DEF Take
  <2>3. query' \in Seq(AnyStage) /\ Spans(timeframe')
    BY <2>1, OffersStep DEF QueryInv
  <2> QED BY <2>2, <2>3 DEF QueryInv
<1>4. CASE UNCHANGED vars
  BY <1>4 DEF vars, QueryInv
<1> QED BY <1>1, <1>2, <1>3, <1>4 DEF Next

LEMMA QueryInvariant == Spec => []QueryInv
  BY InitQuery, NextQuery, PTL DEF Spec

\* For every query an analyst may write and every chain of offers taken from it,
\* a narrower window offered with a refusal carries the rating its rewritten text
\* and timeframe get, config windows of subqueries included; and where dearer
\* classes have no smaller bands, never a dearer one than the refused query's.
THEOREM NarrowerPriced ==
    ASSUME BandsAscend
    PROVE  Spec => []NarrowerIsPriced
<1>1. QueryInv => NarrowerIsPriced
  <2> SUFFICES ASSUME QueryInv, NEW offer \in NarrowerOffers(query, timeframe)
               PROVE  /\ offer.estimate = EstimateQuery(ParseQuery(offer.query),
                                                        Window(offer.timeframe))
                      /\ offer.estimate.high
                         <= EstimateQuery(ParseQuery(query), Window(timeframe)).high
    BY DEF NarrowerIsPriced
  <2>1. PICK h \in NarrowerWindows : offer = NarrowerOffer(query, timeframe, h)
    BY DEF NarrowerOffers
  <2> QED BY <2>1, NarrowerRated DEF QueryInv
<1> QED BY <1>1, QueryInvariant, PTL

\* No offer leads back, whatever the settings are: each one is narrower, newly
\* scoped or newly aggregated, or it is a host filter on a field the rating does
\* not count as selective, the one offer that may come again; and that one too
\* leaves the query no further from its last rewrite than it was.
THEOREM OffersEnd == Spec => []OffersProgress
<1>1. QueryInv => OffersProgress
  BY OffersStep DEF QueryInv, OffersProgress, LowersRank
<1> QED BY <1>1, QueryInvariant, PTL

\* Whatever is offered is accepted: a rewrite taken from a refusal parses within
\* the configured maximum and its timeframe is valid, as the refused one's were.
THEOREM OffersAreValid == Spec => []TypeOK
<1>1. Init => TypeOK
  BY OffersAssumption DEF Init, TypeOK, Timeframe
<1>2. QueryInv /\ TypeOK /\ [Next]_vars => TypeOK'
  <2> SUFFICES ASSUME QueryInv, TypeOK, [Next]_vars
               PROVE  TypeOK'
    OBVIOUS
  <2>1. CASE Run \/ Refuse
    <3>1. UNCHANGED <<query, timeframe, shown>> /\ verdict' \in {"runs", "refused"}
      BY <2>1 DEF Run, Refuse
    <3> QED BY <3>1 DEF TypeOK, Parses, ValidTimeframe
  <2>2. CASE Take
    <3>1. PICK offer \in offers : /\ offer.query # <<>> /\ query' = offer.query
                                  /\ timeframe' = offer.timeframe /\ shown' = offer
      BY <2>2 DEF Take
    <3>2. /\ offer.query \in Seq(AnyStage) /\ Spans(offer.timeframe)
          /\ NoWider(offer, query, timeframe) /\ offer.estimate.class \in Classes
      BY <3>1, OffersStep, OffersRated DEF QueryInv
    <3>3. /\ ConfigWindow(query) \in Nat /\ ConfigWindow(offer.query) \in Nat
          /\ Window(timeframe) \in Nat /\ Window(offer.timeframe) \in Nat
      BY <3>2, RankOf DEF QueryInv
    <3>4. Parses(offer.query) /\ ValidTimeframe(offer.timeframe)
      BY <3>2, <3>3, SpanAssumption DEF TypeOK, Parses, ValidTimeframe, Spans, NoWider
    <3>5. offer.timeframe.from >= 0 /\ offer.timeframe.relative >= 0
      BY <3>2 DEF Spans, Timeframe
    <3>6. verdict' = "new"
      BY <2>2 DEF Take
    <3> QED BY <3>1, <3>2, <3>4, <3>5, <3>6 DEF TypeOK, Parses, ValidTimeframe
  <2>3. CASE UNCHANGED vars
    BY <2>3 DEF vars, TypeOK, Parses, ValidTimeframe
  <2> QED BY <2>1, <2>2, <2>3 DEF Next
<1> QED BY <1>1, <1>2, QueryInvariant, PTL DEF Spec

\* Whatever was learned, a rating keeps the class of its seed and stays at or
\* above the low bound of that class, low figure under high figure.
THEOREM FloorKept == Spec => []LearnedKeepsFloor
<1>1. LearnedKeepsFloor
  <2> DEFINE shape == ParseQuery(query)
             seed  == EstimateQuery(shape, Window(timeframe))
  <2>1. EstimateXql(query, timeframe) = ApplyLearnedCost(seed, query, shape, Window(timeframe))
    BY DEF EstimateXql
  <2> HIDE DEF shape
  <2>2. /\ EstimateXql(query, timeframe).class = seed.class
        /\ seed.low <= EstimateXql(query, timeframe).low
        /\ EstimateXql(query, timeframe).low <= EstimateXql(query, timeframe).high
    BY <2>1, RatedAboveFloor
  <2> QED BY <2>2 DEF LearnedKeepsFloor, shape
<1> QED BY <1>1, PTL
===============================================================================
