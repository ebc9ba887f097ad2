----------------------------- MODULE LearnerProofs -----------------------------
(***************************************************************************)
(* Proofs about Learner, for every number of records, days and aborted     *)
(* runs, every retention, queue limit and threshold, and any set of        *)
(* administrators:                                                         *)
(*   - every variable has its type;                                        *)
(*   - an administrator's answer holds, if no other asks while he waits,   *)
(*     no batch of records is lost, and the requests of one second sort    *)
(*     as they were made;                                                  *)
(*   - what is served has earned it, if nobody pins and no run aborts.     *)
(***************************************************************************)
EXTENDS Learner, FiniteSetTheorems, SequenceTheorems, TLAPS

(***************************************************************************)
(* One record                                                              *)
(***************************************************************************)

\* An entry that observations still speak for.
Lawful(e) == e # Absent /\ e.status # "reverted"

LEMMA NotedType ==
    ASSUME NEW e \in Entry, NEW o \in Observation, NEW d \in Nat
    PROVE  /\ NoteEngagement(e, o, d) \in Entry
           /\ NoteEngagement(e, o, d).status = e.status
           /\ NoteEngagement(e, o, d).pinned = e.pinned
           /\ NoteEngagement(e, o, d).expires = e.expires
  BY ThresholdAssumption DEF NoteEngagement, Entry, Observation

LEMMA VerifiedType ==
    ASSUME NEW e \in Entry, NEW d \in Nat
    PROVE  /\ MaybeVerify(e, d) \in Entry
           /\ MaybeVerify(e, d).status = e.status
           /\ MaybeVerify(e, d).pinned = e.pinned
           /\ MaybeVerify(e, d).expires = e.expires
<1>1. (e.verified \/ Verifies(e, d)) \in BOOLEAN
  BY DEF Entry, Verifies
<1> QED
  BY <1>1 DEF MaybeVerify, Entry

LEMMA PromotedType ==
    ASSUME NEW e \in Entry
    PROVE  /\ Promoted(e) \in Entry
           /\ e.status = "active" => Promoted(e).status = "active"
           /\ e.status # "reverted" => Promoted(e).status # "reverted"
           /\ Promoted(e).pinned = e.pinned
           /\ Promoted(e).expires = e.expires
  BY DEF Promoted, Entry, Statuses

\* A confirmation keeps the pin and the expiry, and neither demotes nor reverts.
LEMMA ConfirmType ==
    ASSUME NEW e \in Entry, NEW o \in Observation, NEW d \in Nat, e.status # "reverted"
    PROVE  /\ Confirm(e, o, d) \in Entry
           /\ e.status = "active" => Confirm(e, o, d).status = "active"
           /\ Confirm(e, o, d).status # "reverted"
           /\ Confirm(e, o, d).pinned = e.pinned
           /\ Confirm(e, o, d).expires = e.expires
<1> DEFINE n == NoteEngagement(e, o, d)
           s == [n EXCEPT !.streak = @ + 1]
           p == Promoted(s)
<1>1. /\ n \in Entry /\ n.status = e.status /\ n.pinned = e.pinned /\ n.expires = e.expires
  BY NotedType
<1> HIDE DEF n
<1>2. /\ s \in Entry /\ s.status = e.status /\ s.pinned = e.pinned /\ s.expires = e.expires
  BY <1>1 DEF Entry
<1>3. Confirm(e, o, d) = MaybeVerify(p, d)
  BY DEF Confirm, n
<1> HIDE DEF s
<1>4. /\ p \in Entry /\ p.pinned = e.pinned /\ p.expires = e.expires
      /\ e.status = "active" => p.status = "active"
      /\ p.status # "reverted"
  BY <1>2, PromotedType
<1> HIDE DEF p
<1> QED
  BY <1>3, <1>4, VerifiedType

LEMMA ContradictType ==
    ASSUME NEW e \in Entry, NEW o \in Observation, e.status # "reverted"
    PROVE  /\ Contradict(e, o) \in Entry
           /\ e.pinned => Contradict(e, o).status = e.status
           /\ Contradict(e, o).status # "reverted"
           /\ Contradict(e, o).pinned = e.pinned
           /\ Contradict(e, o).expires = e.expires
<1>1. o.value = None \/ o.value \in Values
  BY DEF Observation
<1>2. CASE e.pinned
  BY <1>2 DEF Contradict, Entry
<1>3. CASE ~e.pinned
  BY <1>1, <1>3 DEF Contradict, Entry, Statuses
<1> QED
  BY <1>2, <1>3

\* What an observation makes of an entry: a tombstone stays as it is, any other
\* entry stays unreverted, keeps its pin and lives on for Ttl days.
LEMMA ObservedType ==
    ASSUME NEW e \in Entry, NEW o \in Observation, NEW d \in Nat
    PROVE  /\ Observed(e, o, d) \in Entry
           /\ e.status = "reverted" => Observed(e, o, d) = e
           /\ e.status # "reverted" => /\ Observed(e, o, d).status # "reverted"
                                       /\ Observed(e, o, d).expires = d + Ttl
           /\ Observed(e, o, d).pinned = e.pinned
           /\ e.pinned /\ e.status = "active" => Observed(e, o, d).status = "active"
<1> DEFINE t == Touch(e, d)
<1>1. /\ t \in Entry /\ t.status = e.status /\ t.pinned = e.pinned
      /\ t.expires = d + Ttl
  BY ThresholdAssumption DEF Touch, Entry
<1>2. Observed(e, o, d) = IF e.status = "reverted" THEN e
                          ELSE IF o.value = e.value THEN Confirm(t, o, d) ELSE Contradict(t, o)
  BY DEF Observed
<1> HIDE DEF t
<1>3. CASE e.status = "reverted"
  BY <1>2, <1>3
<1>4. CASE e.status # "reverted" /\ o.value = e.value
  BY <1>1, <1>2, <1>4, ConfirmType
<1>5. CASE e.status # "reverted" /\ o.value # e.value
  BY <1>1, <1>2, <1>5, ContradictType
<1> QED
  BY <1>3, <1>4, <1>5

LEMMA LearnedType ==
    ASSUME NEW o \in Observation, o.effect # "contradict", NEW d \in Nat
    PROVE  /\ Learned(o, d) \in Entry
           /\ Learned(o, d).status # "reverted"
           /\ Learned(o, d).expires = d + Ttl
<1> DEFINE e == [status |-> "active", value |-> o.value, pinned |-> FALSE, streak |-> 1,
                 disputed |-> FALSE, tags |-> {}, window |-> None, verified |-> FALSE,
                 expires |-> d + Ttl]
           n == NoteEngagement(e, o, d)
<1>1. o.value \in Values
  BY DEF Observation
<1>2. e \in Entry /\ e.status = "active" /\ e.expires = d + Ttl
  BY <1>1, ThresholdAssumption DEF Entry, Statuses
<1>3. Learned(o, d) = MaybeVerify(n, d)
  BY DEF Learned
<1> HIDE DEF e
<1>4. n \in Entry /\ n.status = "active" /\ n.expires = d + Ttl
  BY <1>2, NotedType
<1> HIDE DEF n
<1> QED
  BY <1>3, <1>4, VerifiedType

LEMMA RevertedType ==
    ASSUME NEW e \in Entry, NEW d \in Nat
    PROVE  /\ Reverted(e, d) \in Entry
           /\ Reverted(e, d).status = "reverted" /\ Reverted(e, d).expires = d + Ttl
<1> DEFINE x == d + Ttl
           f == [e EXCEPT !.status = "reverted", !.pinned = FALSE, !.streak = 0,
                          !.verified = FALSE, !.expires = x]
<1>1. x \in Nat /\ 0 \in Nat
  BY ThresholdAssumption
<1>2. Reverted(e, d) = f
  BY DEF Reverted
<1> HIDE DEF x
<1>3. f \in Entry /\ f.status = "reverted" /\ f.expires = x
  BY <1>1, Zenon DEF Entry, Statuses
<1> QED
  BY <1>2, <1>3 DEF x

LEMMA UnpinnedType ==
    ASSUME NEW e \in Entry, NEW d \in Nat
    PROVE  /\ Unpinned(e, d) \in Entry
           /\ Unpinned(e, d).status = e.status
           /\ Unpinned(e, d).expires = IF e.pinned THEN d + Ttl ELSE e.expires
<1>1. CASE e.pinned
  <2> DEFINE x == d + Ttl
             f == [e EXCEPT !.pinned = FALSE, !.expires = x]
  <2>1. x \in Nat
    BY ThresholdAssumption
  <2>2. Unpinned(e, d) = f
    BY <1>1 DEF Unpinned
  <2> HIDE DEF x
  <2>3. f \in Entry /\ f.status = e.status /\ f.expires = x
    BY <2>1 DEF Entry
  <2> QED
    BY <1>1, <2>2, <2>3 DEF x
<1>2. CASE ~e.pinned
  BY <1>2 DEF Unpinned
<1> QED
  BY <1>1, <1>2

\* What one record of the journal makes of an entry that exists: it is not
\* deleted, a tombstone stays as it is, only a request to revert makes one, and
\* what expires, or is unpinned, gets Ttl days.
LEMMA FoldedEntry ==
    ASSUME NEW e \in Entry, NEW r \in Stamped, NEW full \in BOOLEAN, run.day \in Nat
    PROVE  LET f == FoldedBy(e, r, full)
           IN  /\ f \in Entry
               /\ e.status = "reverted" => f = e
               /\ e.status # "reverted" /\ ~(r.type = "admin" /\ r.action = "revert") =>
                     f.status # "reverted"
               /\ f.expires = e.expires \/ f.expires = run.day + Ttl
               /\ e.pinned => f.pinned \/ f.expires = run.day + Ttl
               /\ e.pinned /\ e.status = "active" /\ r.type # "admin" =>
                     f.pinned /\ f.status = "active"
<1> DEFINE f == FoldedBy(e, r, full)
<1> USE SentinelAssumption
<1>0. e # Absent
  OBVIOUS
<1>1. CASE r.type = "admin"
  <2>1. r.action \in AdminActions
    BY <1>1, LearnerAssumption DEF Stamped
  <2>2. f = ApplyAdmin(e, r.action, run.day)
    BY <1>1 DEF FoldedBy
  <2>3. CASE e.status = "reverted"
    <3>1. f = e
      BY <2>2, <2>3 DEF ApplyAdmin
    <3> QED
      BY <3>1, <2>3
  <2>4. CASE e.status # "reverted" /\ r.action = "revert"
    <3>1. f = Reverted(e, run.day)
      BY <2>2, <2>4, <1>0 DEF ApplyAdmin
    <3> QED
      BY <3>1, <2>4, <1>1, RevertedType
  <2>5. CASE e.status # "reverted" /\ r.action = "pin"
    <3>1. f = Pinned(e)
      BY <2>2, <2>5, <1>0 DEF ApplyAdmin
    <3> QED
      BY <3>1, <2>5, <1>1 DEF Pinned, Entry, Statuses
  <2>6. CASE e.status # "reverted" /\ r.action = "unpin"
    <3>1. f = Unpinned(e, run.day)
      BY <2>2, <2>6, <1>0 DEF ApplyAdmin
    <3> QED
      BY <3>1, <2>6, <1>1, UnpinnedType
  <2> QED
    BY <2>1, <2>3, <2>4, <2>5, <2>6 DEF AdminActions
<1>2. CASE r.type # "admin"
  <2>1. r.seen \in Observation
    BY <1>2, LearnerAssumption DEF Stamped
  <2>2. f = Observed(e, r.seen, run.day)
    BY <1>0, <1>2 DEF FoldedBy, ApplyObservation
  <2> HIDE DEF f
  <2> QED
    BY <2>1, <2>2, <1>2, ObservedType DEF f
<1> QED
  BY <1>1, <1>2

\* ... and of no entry: nothing, or one that is not reverted.
LEMMA FoldedAbsent ==
    ASSUME NEW r \in Stamped, NEW full \in BOOLEAN, run.day \in Nat
    PROVE  LET f == FoldedBy(Absent, r, full)
           IN  f = Absent \/ (f \in Entry /\ f.status # "reverted")
<1> DEFINE f == FoldedBy(Absent, r, full)
<1>1. CASE r.type = "admin"
  BY <1>1 DEF FoldedBy, ApplyAdmin
<1>2. CASE r.type # "admin"
  <2>1. r.seen \in Observation
    BY <1>2, LearnerAssumption DEF Stamped
  <2>2. f = IF r.seen.effect = "contradict" \/ full THEN Absent ELSE Learned(r.seen, run.day)
    BY <1>2 DEF FoldedBy, ApplyObservation
  <2> HIDE DEF f
  <2> QED
    BY <2>1, <2>2, LearnedType DEF f
<1> QED
  BY <1>1, <1>2

\* The entry says what the request of that day asked for.
Done(e, action, day) ==
    /\ e # Absent
    /\ action = "pin" => e.pinned /\ e.status = "active"
    /\ action = "revert" => e.status = "reverted" /\ e.expires >= day + Ttl

\* The fold of a request settles it.
LEMMA FoldedDecides ==
    ASSUME NEW e \in Entry, NEW r \in Stamped, NEW full \in BOOLEAN, run.day \in Nat,
           NEW day \in Nat, day <= run.day,
           r.type = "admin", r.action \in {"pin", "revert"}, e.status # "reverted"
    PROVE  Done(FoldedBy(e, r, full), r.action, day)
<1> USE SentinelAssumption
<1> DEFINE f == FoldedBy(e, r, full)
<1>0. e # Absent
  OBVIOUS
<1>1. f = ApplyAdmin(e, r.action, run.day)
  BY DEF FoldedBy
<1>2. f \in Entry
  BY FoldedEntry
<1>3. CASE r.action = "revert"
  <2>1. f = Reverted(e, run.day)
    BY <1>0, <1>1, <1>3 DEF ApplyAdmin
  <2>2. f.status = "reverted" /\ f.expires = run.day + Ttl
    BY <2>1 DEF Reverted, Entry
  <2> QED
    BY <1>2, <1>3, <2>2, ThresholdAssumption DEF Done
<1>4. CASE r.action = "pin"
  <2>1. f = Pinned(e)
    BY <1>0, <1>1, <1>4 DEF ApplyAdmin
  <2>2. f.status = "active" /\ f.pinned
    BY <2>1 DEF Pinned, Entry
  <2> QED
    BY <1>2, <1>4, <2>2 DEF Done
<1> QED
  BY <1>3, <1>4

(***************************************************************************)
(* Types and bounds                                                        *)
(***************************************************************************)

\* No record is from the future, a run has read none that is younger than its
\* own time, and what is consumed or deleted it has read.
BoundsInv ==
    /\ run.phase # "idle" =>
          /\ offset <= run.end /\ pruned <= run.end /\ run.day <= today
          /\ \A i \in 1..run.end : journal[i].day <= run.day
    /\ run.phase = "folding" => offset <= run.next /\ pruned <= run.next
    /\ \A i \in 1..Len(journal) : journal[i].day <= today
    /\ \A a \in Admins : waiting[a] # None => waiting[a].day <= today

TypeInv == TypeOK /\ BoundsInv

\* Concatenation, position by position.
LEMMA Joined ==
    ASSUME NEW S, NEW s \in Seq(S), NEW t \in Seq(S)
    PROVE  /\ s \o t \in Seq(S) /\ Len(s \o t) = Len(s) + Len(t)
           /\ \A i \in 1 .. Len(s) + Len(t) :
                 (s \o t)[i] = IF i <= Len(s) THEN s[i] ELSE t[i - Len(s)]
  BY ConcatProperties

\* A flush leaves the journal as it was and dates the rest today.
LEMMA Flushed ==
    ASSUME TypeOK, Flush
    PROVE  /\ journal' \in Seq(Stamped)
           /\ Len(journal') = Len(journal) + Len(queue)
           /\ \A i \in 1..Len(journal) : journal'[i] = journal[i]
           /\ \A i \in 1..Len(queue) :
                 journal'[Len(journal) + i] = Dated(queue[i])
           /\ \A i \in 1..Len(journal') :
                 i > Len(journal) =>
                     /\ i - Len(journal) \in 1..Len(queue)
                     /\ journal'[i] = Dated(queue[i - Len(journal)])
<1> DEFINE new == [i \in 1..Len(queue) |-> Dated(queue[i])]
<1>0. queue \in Seq(AdminRecord \cup ObservationRecord) /\ journal \in Seq(Stamped) /\ today \in Nat
  BY LearnerAssumption DEF TypeOK
<1>1. ASSUME NEW i \in 1..Len(queue) PROVE Dated(queue[i]) \in Stamped
  <2>1. queue[i] \in AdminRecord \cup ObservationRecord
    BY <1>0
  <2> QED
    BY <2>1, <1>0 DEF Dated, AdminRecord, ObservationRecord, Stamped
<1>2. new \in Seq(Stamped) /\ Len(new) = Len(queue)
  BY <1>0, <1>1
<1>3. journal' = journal \o new
  BY DEF Flush
<1>4. \A i \in 1..Len(queue) : new[i] = Dated(queue[i])
  OBVIOUS
<1> HIDE DEF new
<1>5. /\ journal' \in Seq(Stamped) /\ Len(journal') = Len(journal) + Len(new)
      /\ \A i \in 1 .. Len(journal) + Len(new) :
            journal'[i] = IF i <= Len(journal) THEN journal[i] ELSE new[i - Len(journal)]
  BY <1>0, <1>2, <1>3, Joined, Zenon
<1>6. Len(journal) \in Nat /\ Len(queue) \in Nat
  BY <1>0
<1>7. \A i \in 1..Len(journal) : journal'[i] = journal[i]
  BY <1>2, <1>5, <1>6
<1>8. \A i \in 1..Len(queue) : journal'[Len(journal) + i] = Dated(queue[i])
  <2> SUFFICES ASSUME NEW i \in 1..Len(queue)
               PROVE  journal'[Len(journal) + i] = Dated(queue[i])
    OBVIOUS
  <2>1. /\ Len(journal) + i \in 1..Len(journal') /\ ~(Len(journal) + i <= Len(journal))
        /\ (Len(journal) + i) - Len(journal) = i
    BY <1>2, <1>5, <1>6
  <2> QED
    BY <2>1, <1>5, <1>4
<1>9. \A i \in 1..Len(journal') :
         i > Len(journal) => /\ i - Len(journal) \in 1..Len(queue)
                             /\ journal'[i] = Dated(queue[i - Len(journal)])
  BY <1>2, <1>4, <1>5, <1>6
<1> QED
  BY <1>2, <1>5, <1>7, <1>8, <1>9

\* Only files that the run has read to their end are deleted.
LEMMA PrunableBound ==
    ASSUME TypeOK
    PROVE  Cardinality(Prunable) \in 0..run.end
<1>1. run.end \in Nat /\ run.end <= Len(journal)
  BY DEF TypeOK, Run
<1>2. Prunable \subseteq 1..run.end
  BY <1>1 DEF Prunable, TypeOK
<1>3. IsFiniteSet(1..run.end) /\ Cardinality(1..run.end) = run.end
  <2>1. 1 \in Int /\ run.end \in Int
    BY <1>1
  <2>2. /\ IsFiniteSet(1..run.end)
        /\ Cardinality(1..run.end) = IF 1 > run.end THEN 0 ELSE run.end - 1 + 1
    BY <2>1, FS_Interval, Zenon
  <2> QED
    BY <1>1, <2>2
<1>4. /\ IsFiniteSet(Prunable) /\ Cardinality(Prunable) <= Cardinality(1..run.end)
  BY <1>2, <1>3, FS_Subset
<1> QED
  BY <1>1, <1>3, <1>4, FS_CardinalityType

\* What Fold does to the run, field by field.
LEMMA FoldStep ==
    ASSUME TypeInv, Fold
    PROVE  /\ run.phase = "folding" /\ run' \in Run /\ run'.phase = "folding"
           /\ run'.next = run.next + 1 /\ run'.next <= run.end
           /\ run'.end = run.end /\ run'.day = run.day
           /\ run'.next \in 1..Len(journal) /\ journal[run'.next] \in Stamped
           /\ \E full \in BOOLEAN : run'.batch = FoldedBy(run.batch, journal[run'.next], full)
<1>1. /\ run \in Run /\ run.phase = "folding" /\ run.next < run.end /\ run.end <= Len(journal)
      /\ journal \in Seq(Stamped)
  BY DEF Fold, TypeInv, TypeOK
<1>2. /\ run.next \in Nat /\ run.end \in Nat /\ run.day \in Nat
      /\ run.batch \in Entry \cup {Absent}
  BY <1>1 DEF Run
<1>3. run.next + 1 \in 1..Len(journal) /\ journal[run.next + 1] \in Stamped
  BY <1>1, <1>2
<1>4. PICK full \in BOOLEAN :
         run' = [run EXCEPT !.next = @ + 1,
                            !.batch = FoldedBy(@, journal[run.next + 1], full)]
  BY DEF Fold
<1> DEFINE b == FoldedBy(run.batch, journal[run.next + 1], full)
<1>5. b \in Entry \cup {Absent}
  BY <1>2, <1>3, FoldedEntry, FoldedAbsent
<1> DEFINE n == run.next + 1
<1>6. run' = [run EXCEPT !.next = n, !.batch = b]
  BY <1>1, <1>4, Zenon DEF Run
<1>7. n \in Nat /\ n <= run.end
  BY <1>1, <1>2
<1> HIDE DEF b, n
<1>8. /\ run' \in Run /\ run'.phase = run.phase /\ run'.next = n
      /\ run'.end = run.end /\ run'.day = run.day /\ run'.batch = b
  BY <1>1, <1>5, <1>6, <1>7, Zenon DEF Run
<1> QED
  BY <1>1, <1>2, <1>3, <1>7, <1>8 DEF b, n

LEMMA Wellformed ==
    ASSUME TypeInv
    PROVE  /\ Len(journal) \in Nat /\ Len(queue) \in Nat /\ today \in Nat
           /\ offset \in Nat /\ pruned \in Nat /\ aborts \in Nat
           /\ offset <= Len(journal) /\ pruned <= Len(journal)
           /\ run.phase \in {"idle", "folding", "committed", "pruned"}
           /\ run.batch \in Entry \cup {Absent}
           /\ run.next \in Nat /\ run.end \in Nat /\ run.day \in Nat
           /\ run.next <= run.end /\ run.end <= Len(journal)
           /\ \A i \in 1..Len(journal) : journal[i] \in Stamped
           /\ \A i \in 1..Len(queue) : queue[i] \in AdminRecord \cup ObservationRecord
  BY LearnerAssumption DEF TypeInv, TypeOK, Run

LEMMA IdleType == Idle \in Run
  BY DEF Idle, Run

LEMMA TypeInit == Init => TypeInv
<1> SUFFICES ASSUME Init PROVE TypeInv
  OBVIOUS
<1> USE DEF Init
<1>1. run \in Run
  BY IdleType
<1>2. TypeOK
  BY <1>1, LearnerAssumption DEF TypeOK, Idle
<1>3. BoundsInv
  BY DEF BoundsInv, Idle
<1> QED
  BY <1>2, <1>3 DEF TypeInv

LEMMA TypeObserve ==
    ASSUME TypeInv, NEW o \in Observations, Observe(o) PROVE TypeInv'
<1> DEFINE r == [type |-> "observation", seen |-> o]
<1>1. r \in AdminRecord \cup ObservationRecord
  BY DEF ObservationRecord
<1>2. queue \in Seq(AdminRecord \cup ObservationRecord) /\ queue' = Append(queue, r)
      /\ Len(queue) < QueueLimit
  BY DEF TypeInv, TypeOK, Observe, Room
<1>3. queue' \in Seq(AdminRecord \cup ObservationRecord) /\ Len(queue') <= QueueLimit
  BY <1>1, <1>2, LearnerAssumption
<1>4. TypeOK'
  BY <1>3 DEF TypeInv, TypeOK, Observe
<1>5. BoundsInv'
  BY DEF TypeInv, BoundsInv, Observe
<1> QED
  BY <1>4, <1>5 DEF TypeInv

\* The seconds of a day are counted.
LEMMA ClockType ==
    ASSUME TypeInv
    PROVE  Clock \subseteq Nat
<1>1. Seconds \subseteq Nat
  <2>1. /\ \A i \in 1..Len(journal) : journal[i] \in Stamped
        /\ \A i \in 1..Len(queue) : queue[i] \in AdminRecord \cup ObservationRecord
        /\ DOMAIN journal = 1..Len(journal) /\ DOMAIN queue = 1..Len(queue)
    BY Wellformed DEF TypeInv, TypeOK
  <2>2. \A s \in Range(journal) \cup Range(queue) :
           s.type = "admin" => s.at.second \in Nat
    BY <2>1 DEF Range, Stamped, AdminRecord, ObservationRecord, Moment
  <2> QED
    BY <2>2 DEF Seconds
<1>2. \A t \in Seconds : t + 1 \in Nat
  BY <1>1
<1>3. 0 \in Nat
  OBVIOUS
<1> QED
  BY <1>1, <1>2, <1>3, Zenon DEF Clock

LEMMA TypeAsk ==
    ASSUME TypeInv, NEW a \in Admins, NEW action \in Actions, Ask(a, action)
    PROVE  TypeInv'
<1>0. PICK second \in Clock :
         queue' = Append(queue, [type |-> "admin", action |-> action, by |-> a,
                                 at |-> [day |-> today, second |-> second]])
  BY DEF Ask
<1> DEFINE r == [type |-> "admin", action |-> action, by |-> a,
                 at |-> [day |-> today, second |-> second]]
           w == [action |-> action, day |-> today]
<1>1. r \in AdminRecord \cup ObservationRecord
  <2>1. second \in Nat /\ today \in Nat
    BY ClockType, Wellformed
  <2> QED
    BY <2>1 DEF AdminRecord, Moment
<1>2. queue \in Seq(AdminRecord \cup ObservationRecord) /\ queue' = Append(queue, r)
      /\ Len(queue) < QueueLimit
  BY <1>0 DEF TypeInv, TypeOK, Ask, Room
<1>3. queue' \in Seq(AdminRecord \cup ObservationRecord) /\ Len(queue') <= QueueLimit
  BY <1>1, <1>2, LearnerAssumption
<1>4. today \in Nat
  BY Wellformed
<1>5. w \in Request /\ w.day = today
  BY <1>4 DEF Request
<1>6. waiting' = [waiting EXCEPT ![a] = w] /\ waiting \in [Admins -> Request \cup {None}]
  BY DEF Ask, TypeInv, TypeOK
<1> HIDE DEF w
<1>7. /\ waiting' \in [Admins -> Request \cup {None}]
      /\ \A b \in Admins : waiting'[b] = waiting[b] \/ waiting'[b] = w
  BY <1>5, <1>6
<1>8. TypeOK'
  BY <1>3, <1>7 DEF TypeInv, TypeOK, Ask
<1>9. BoundsInv'
  <2>1. \A b \in Admins : waiting'[b] # None => waiting'[b].day <= today'
    BY <1>4, <1>5, <1>7 DEF TypeInv, BoundsInv, Ask
  <2> QED
    BY <2>1 DEF TypeInv, BoundsInv, Ask
<1> QED
  BY <1>8, <1>9 DEF TypeInv

LEMMA TypeFlush == ASSUME TypeInv, Flush PROVE TypeInv'
<1>1. TypeOK /\ BoundsInv
  BY DEF TypeInv
<1>2. /\ journal' \in Seq(Stamped) /\ Len(journal') = Len(journal) + Len(queue)
      /\ \A i \in 1..Len(journal) : journal'[i] = journal[i]
      /\ \A i \in 1..Len(journal') :
            i > Len(journal) => /\ i - Len(journal) \in 1..Len(queue)
                                /\ journal'[i] = Dated(queue[i - Len(journal)])
  BY <1>1, Flushed
<1>3. \A r : Dated(r).day = today
  BY DEF Dated
<1>4. /\ queue' = <<>>
      /\ UNCHANGED <<waiting, pruned, entry, offset, run, today, aborts, told, kept>>
  BY DEF Flush
<1>5. Len(journal) \in Nat /\ Len(queue) \in Nat
  BY Wellformed
<1>6. TypeOK'
  <2>1. /\ queue' \in Seq(AdminRecord \cup ObservationRecord) /\ Len(queue') <= QueueLimit
    BY <1>4, LearnerAssumption
  <2>2. /\ offset' \in 0..Len(journal') /\ pruned' \in 0..Len(journal')
        /\ run'.end <= Len(journal')
    BY <1>1, <1>2, <1>4, <1>5, Wellformed
  <2> QED
    BY <1>1, <1>2, <1>4, <2>1, <2>2 DEF TypeOK
<1>7. \A i \in 1..Len(journal') : journal'[i].day <= today'
  <2> SUFFICES ASSUME NEW i \in 1..Len(journal') PROVE journal'[i].day <= today'
    OBVIOUS
  <2>1. today \in Nat /\ today' = today
    BY Wellformed, <1>4
  <2>2. CASE i <= Len(journal)
    BY <2>1, <2>2, <1>1, <1>2, <1>5 DEF BoundsInv
  <2>3. CASE i > Len(journal)
    BY <2>1, <2>3, <1>2, <1>3
  <2> QED
    BY <2>2, <2>3, <1>5
<1>8. run.end \in Nat /\ run.end <= Len(journal)
  BY Wellformed
<1>9. run'.phase # "idle" => \A i \in 1..run'.end : journal'[i].day <= run'.day
  BY <1>1, <1>2, <1>4, <1>5, <1>8 DEF BoundsInv
<1> QED
  BY <1>1, <1>4, <1>6, <1>7, <1>9 DEF TypeInv, BoundsInv

LEMMA TypeFlushFails == ASSUME TypeInv, FlushFails PROVE TypeInv'
<1>1. TypeOK'
  BY LearnerAssumption DEF TypeInv, TypeOK, FlushFails
<1> QED
  BY <1>1 DEF TypeInv, BoundsInv, FlushFails

LEMMA TypeAcknowledge ==
    ASSUME TypeInv, NEW a \in Admins, Acknowledge(a) PROVE TypeInv'
<1> DEFINE live == kept /\ entry # Absent /\ Live(entry, today)
           t == [action |-> waiting[a].action, day |-> waiting[a].day, live |-> live]
<1>1. waiting \in [Admins -> Request \cup {None}] /\ waiting[a] # None
  BY DEF TypeInv, TypeOK, Acknowledge
<1>2. live \in BOOLEAN
  <2>1. entry # Absent => Live(entry, today) \in BOOLEAN
    BY DEF TypeInv, TypeOK, Entry, Live
  <2> QED
    BY <2>1 DEF TypeInv, TypeOK
<1>3. waiting[a] \in Request
  BY <1>1
<1> HIDE DEF live
<1>4. t \in Told
  BY <1>2, <1>3 DEF Request, Told
<1>5. told' = t
  BY DEF Acknowledge, live
<1>6. waiting' = [waiting EXCEPT ![a] = None]
  BY DEF Acknowledge
<1> HIDE DEF t
<1>7. TypeOK'
  BY <1>1, <1>4, <1>5, <1>6 DEF TypeInv, TypeOK, Acknowledge
<1>8. BoundsInv'
  BY <1>1, <1>6 DEF TypeInv, BoundsInv, Acknowledge
<1> QED
  BY <1>7, <1>8 DEF TypeInv

LEMMA TypeRestart == ASSUME TypeInv, Restart PROVE TypeInv'
<1>1. TypeOK'
  BY LearnerAssumption DEF TypeInv, TypeOK, Restart
<1> QED
  BY <1>1 DEF TypeInv, BoundsInv, Restart

LEMMA TypeStart == ASSUME TypeInv, Start PROVE TypeInv'
<1> DEFINE n == Larger(offset, pruned)
<1>1. TypeOK /\ BoundsInv
  BY DEF TypeInv
<1>2. /\ n \in Nat /\ n <= Len(journal) /\ offset <= n /\ pruned <= n
      /\ Len(journal) \in Nat /\ today \in Nat
  BY Wellformed DEF Larger
<1> HIDE DEF n
<1>3. /\ run' = [phase |-> "folding", batch |-> entry, next |-> n, end |-> Len(journal), day |-> today]
      /\ UNCHANGED <<queue, waiting, journal, pruned, entry, offset, today, aborts, told, kept>>
  BY DEF Start, n
<1>4. run' \in Run
  BY <1>1, <1>2, <1>3 DEF Run, TypeOK
<1>5. TypeOK'
  BY <1>1, <1>2, <1>3, <1>4 DEF TypeOK
<1>6. BoundsInv'
  <2>1. /\ run'.phase = "folding" /\ run'.next = n /\ run'.end = Len(journal)
        /\ run'.day = today
    BY <1>3
  <2>2. /\ waiting' = waiting /\ journal' = journal /\ pruned' = pruned
        /\ offset' = offset /\ today' = today
    BY <1>3
  <2>3. \A i \in 1..Len(journal') : journal'[i].day <= today'
    BY <1>1, <2>2 DEF BoundsInv
  <2>4. \A b \in Admins : waiting'[b] # None => waiting'[b].day <= today'
    BY <1>1, <2>2 DEF BoundsInv
  <2>5. \A i \in 1..run'.end : journal'[i].day <= run'.day
    BY <2>1, <2>2, <2>3
  <2>6. /\ offset' <= run'.end /\ pruned' <= run'.end /\ run'.day <= today'
        /\ offset' <= run'.next /\ pruned' <= run'.next
    BY <1>2, <2>1, <2>2, Wellformed
  <2> QED
    BY <2>3, <2>4, <2>5, <2>6 DEF BoundsInv
<1> QED
  BY <1>5, <1>6 DEF TypeInv

LEMMA TypeFold == ASSUME TypeInv, Fold PROVE TypeInv'
<1>1. TypeOK /\ BoundsInv
  BY DEF TypeInv
<1>2. UNCHANGED <<queue, waiting, journal, pruned, entry, offset, today, aborts, told, kept>>
  BY DEF Fold
<1>3. /\ run.phase = "folding" /\ run' \in Run /\ run'.phase = "folding"
      /\ run'.next = run.next + 1 /\ run'.next <= run.end
      /\ run'.end = run.end /\ run'.day = run.day
  BY FoldStep
<1>4. /\ run.next \in Nat /\ run.end \in Nat /\ run.end <= Len(journal)
      /\ offset \in Nat /\ pruned \in Nat
  BY Wellformed
<1>5. TypeOK'
  BY <1>1, <1>2, <1>3, <1>4 DEF TypeOK
<1>6. BoundsInv'
  BY <1>1, <1>2, <1>3, <1>4 DEF BoundsInv
<1> QED
  BY <1>5, <1>6 DEF TypeInv

\* A step that only moves the phase of a run.
LEMMA PhaseMoved ==
    ASSUME run \in Run, NEW p \in {"idle", "folding", "committed", "pruned"},
           run' = [run EXCEPT !.phase = p]
    PROVE  /\ run' \in Run /\ run'.phase = p /\ run'.batch = run.batch
           /\ run'.next = run.next /\ run'.end = run.end /\ run'.day = run.day
  BY DEF Run

LEMMA TypeCommit == ASSUME TypeInv, Commit PROVE TypeInv'
<1>1. TypeOK /\ BoundsInv
  BY DEF TypeInv
<1>2. /\ run' \in Run /\ run'.phase = "committed"
      /\ run'.next = run.next /\ run'.end = run.end /\ run'.day = run.day
  BY <1>1, PhaseMoved DEF Commit, TypeOK
<1>3. entry' \in Entry \cup {Absent}
  <2>1. run.batch \in Entry \cup {Absent}
    BY Wellformed
  <2>2. Sweep(run.batch, run.day) \in {run.batch, Absent}
    BY DEF Sweep
  <2> QED
    BY <2>1, <2>2 DEF Commit
<1>4. /\ UNCHANGED <<queue, waiting, journal, pruned, offset, today, aborts, told>>
      /\ kept' \in BOOLEAN /\ run.phase = "folding"
  BY DEF Commit
<1>5. TypeOK'
  BY <1>1, <1>2, <1>3, <1>4 DEF TypeOK
<1>6. BoundsInv'
  BY <1>1, <1>2, <1>4 DEF BoundsInv
<1> QED
  BY <1>5, <1>6 DEF TypeInv

LEMMA TypePrune == ASSUME TypeInv, Prune PROVE TypeInv'
<1> DEFINE n == Larger(pruned, Cardinality(Prunable))
<1>1. TypeOK /\ BoundsInv
  BY DEF TypeInv
<1>2. /\ run' \in Run /\ run'.phase = "pruned"
      /\ run'.next = run.next /\ run'.end = run.end /\ run'.day = run.day
  BY <1>1, PhaseMoved DEF Prune, TypeOK
<1>3. Cardinality(Prunable) \in 0..run.end
  BY <1>1, PrunableBound
<1>4. /\ run.end \in Nat /\ run.end <= Len(journal) /\ pruned \in Nat
      /\ Len(journal) \in Nat /\ run.phase = "committed"
  BY Wellformed DEF Prune
<1>5. pruned <= run.end
  BY <1>1, <1>4 DEF BoundsInv
<1>6. n \in 0..Len(journal) /\ n <= run.end
  BY <1>3, <1>4, <1>5 DEF Larger
<1>7. /\ UNCHANGED <<queue, waiting, journal, entry, offset, today, aborts, told, kept>>
      /\ pruned' = n
  BY DEF Prune
<1> HIDE DEF n
<1>8. TypeOK'
  BY <1>1, <1>2, <1>4, <1>6, <1>7 DEF TypeOK
<1>9. BoundsInv'
  BY <1>1, <1>2, <1>4, <1>6, <1>7 DEF BoundsInv
<1> QED
  BY <1>8, <1>9 DEF TypeInv

LEMMA TypeSaveState == ASSUME TypeInv, SaveState PROVE TypeInv'
<1>1. run.end \in Nat /\ run.end <= Len(journal) /\ Len(journal) \in Nat
  BY Wellformed
<1>2. TypeOK'
  BY <1>1, IdleType DEF TypeInv, TypeOK, SaveState, Idle
<1>3. BoundsInv'
  BY DEF TypeInv, BoundsInv, SaveState, Idle
<1> QED
  BY <1>2, <1>3 DEF TypeInv

LEMMA TypeAbort == ASSUME TypeInv, Abort PROVE TypeInv'
<1>1. TypeOK'
  BY IdleType, LearnerAssumption DEF TypeInv, TypeOK, Abort, Idle
<1>2. BoundsInv'
  BY DEF TypeInv, BoundsInv, Abort, Idle
<1> QED
  BY <1>1, <1>2 DEF TypeInv

LEMMA TypeNewDay == ASSUME TypeInv, NewDay PROVE TypeInv'
<1>1. TypeOK'
  BY LearnerAssumption DEF TypeInv, TypeOK, NewDay
<1>2. \A d \in Nat : d <= today => d <= today'
  BY Wellformed DEF NewDay
<1>3. /\ \A i \in 1..Len(journal) : journal[i].day \in Nat
      /\ \A a \in Admins : waiting[a] # None => waiting[a].day \in Nat
      /\ run.day \in Nat
  BY Wellformed DEF TypeInv, TypeOK, Stamped, Request
<1>4. BoundsInv'
  BY <1>2, <1>3 DEF TypeInv, BoundsInv, NewDay
<1> QED
  BY <1>1, <1>4 DEF TypeInv

\* Every step keeps the types and bounds.
LEMMA TypeStep == TypeInv /\ [Next]_vars => TypeInv'
<1> SUFFICES ASSUME TypeInv, [Next]_vars PROVE TypeInv'
  OBVIOUS
<1>1. CASE UNCHANGED vars
  BY <1>1 DEF vars, TypeInv, TypeOK, BoundsInv, Queued
<1>2. CASE Next
  BY <1>2, TypeObserve, TypeAsk, TypeFlush, TypeFlushFails, TypeAcknowledge, TypeRestart,
     TypeStart, TypeFold, TypeCommit, TypePrune, TypeSaveState, TypeAbort, TypeNewDay DEF Next
<1> QED
  BY <1>1, <1>2

\* The types and the bounds hold always.
THEOREM LearnerBounds == Spec => []TypeInv
  BY TypeInit, TypeStep, PTL DEF Spec

\* Every variable has its type, a run stays within the records it read, and
\* only records that a run has read are deleted (read_journal, prune_journal).
THEOREM LearnerTypes == Spec => []TypeOK
<1>1. TypeInv => TypeOK
  BY DEF TypeInv
<1> QED
  BY <1>1, LearnerBounds, PTL

(***************************************************************************)
(* Requests: queued, written, folded                                       *)
(***************************************************************************)

IsAdmin(r) == r.type = "admin"
IsRevert(r) == r.type = "admin" /\ r.action = "revert"

\* The environment: an administrator asks when no other waits for an answer.
OneWaits == \A a, b \in Admins : waiting[a] # None /\ waiting[b] # None => a = b

\* At most one request is queued, its maker waits for it, and an answer that
\* still counts has no request behind it.
QueueInv ==
    /\ \A i, j \in 1..Len(queue) : IsAdmin(queue[i]) /\ IsAdmin(queue[j]) => i = j
    /\ \A i \in 1..Len(queue) :
          IsAdmin(queue[i]) => /\ waiting[queue[i].by] # None
                               /\ waiting[queue[i].by].action = queue[i].action
    /\ told # None => \A a \in Admins : waiting[a] = None

\* A request to revert is out of the files before another is accepted.
RevertInv ==
    \A i \in 1..Len(journal) : IsRevert(journal[i]) =>
        /\ \A j \in 1..Len(journal) : i < j /\ IsAdmin(journal[j]) => i <= pruned
        /\ \A j \in 1..Len(queue) : IsAdmin(queue[j]) => i <= pruned

\* A run does not delete while it folds, keeps alive what was alive at its
\* time, and makes a tombstone only of a request that the gateway still reads.
BatchInv ==
    run.phase = "folding" =>
        /\ entry # Absent =>
              run.batch # Absent /\ (Live(entry, run.day) => Live(run.batch, run.day))
        /\ (run.batch # Absent /\ ~Lawful(run.batch) /\ (entry = Absent \/ Lawful(entry))) =>
              \E i \in pruned + 1 .. run.next : IsRevert(journal[i])

Base == TypeInv /\ QueueInv /\ RevertInv /\ BatchInv

LEMMA QueuedBy ==
    ASSUME TypeInv, NEW i \in 1..Len(queue), IsAdmin(queue[i])
    PROVE  queue[i].by \in Admins /\ queue[i].action \in Actions
<1>1. queue[i] \in AdminRecord \cup ObservationRecord
  BY Wellformed
<1> QED
  BY <1>1 DEF IsAdmin, AdminRecord, ObservationRecord

\* Only who waits can have a request in the queue.
LEMMA NothingQueued ==
    ASSUME OneWaits, TypeInv, QueueInv, NEW a \in Admins, waiting[a] # None, ~Queued(a)
    PROVE  \A i \in 1..Len(queue) : ~IsAdmin(queue[i])
  BY QueuedBy DEF OneWaits, QueueInv, Queued, IsAdmin

\* Before a request nobody waits.
LEMMA AskedAlone ==
    ASSUME OneWaits', TypeInv, NEW a \in Admins, NEW action \in Actions, Ask(a, action)
    PROVE  /\ \A b \in Admins : waiting[b] = None
           /\ \A b \in Admins : waiting'[b] # None => b = a
<1>1. waiting' = [waiting EXCEPT ![a] = [action |-> action, day |-> today]] /\ waiting[a] = None
  BY DEF Ask
<1>2. waiting \in [Admins -> Request \cup {None}] /\ today \in Nat
  BY Wellformed DEF TypeInv, TypeOK
<1>3. [action |-> action, day |-> today] # None
  BY <1>2, NoRequestAssumption DEF Request
<1>4. waiting'[a] # None /\ \A b \in Admins \ {a} : waiting'[b] = waiting[b]
  BY <1>1, <1>2, <1>3
<1> QED
  BY <1>1, <1>4 DEF OneWaits

LEMMA NobodyWaits ==
    ASSUME TypeInv, QueueInv, \A a \in Admins : waiting[a] = None
    PROVE  \A i \in 1..Len(queue) : ~IsAdmin(queue[i])
  BY QueuedBy DEF QueueInv

LEMMA RequestType ==
    ASSUME TypeInv, NEW i \in Requests
    PROVE  /\ i \in 1..Len(journal) /\ journal[i].type = "admin"
           /\ journal[i].at.day \in Nat /\ journal[i].at.second \in Nat
           /\ journal[i].at = [day |-> journal[i].at.day, second |-> journal[i].at.second]
           /\ journal[i].action \in AdminActions
<1>1. i \in 1..Len(journal) /\ journal[i] \in Stamped /\ journal[i].type = "admin"
  BY Wellformed DEF Requests
<1>2. journal[i].at \in Moment /\ journal[i].action \in Actions
  BY <1>1 DEF Stamped
<1> QED
  BY <1>1, <1>2, LearnerAssumption DEF Moment

\* Requests of which neither sorts after the other ask for the same.
LEMMA SameAction ==
    ASSUME TypeInv, NEW i \in Requests, NEW j \in Requests,
           ~SortsAfter(journal[i], journal[j]), ~SortsAfter(journal[j], journal[i])
    PROVE  journal[i].action = journal[j].action
<1> DEFINE m == journal[i].at
           n == journal[j].at
           x == journal[i].action
           y == journal[j].action
<1>1. /\ m.day \in Nat /\ m.second \in Nat /\ m = [day |-> m.day, second |-> m.second]
      /\ n.day \in Nat /\ n.second \in Nat /\ n = [day |-> n.day, second |-> n.second]
      /\ x \in AdminActions /\ y \in AdminActions
  BY RequestType
<1>2. ~Earlier(m, n) /\ ~Earlier(n, m)
  BY DEF SortsAfter
<1>3. m.day = n.day /\ m.second = n.second
  BY <1>1, <1>2 DEF Earlier
<1>4. m = n
  BY <1>1, <1>3
<1>5. ~(NameRank[x] > NameRank[y]) /\ ~(NameRank[y] > NameRank[x])
  BY <1>4 DEF SortsAfter
<1> QED
  BY <1>1, <1>5 DEF NameRank, AdminActions

\* The request that counts is the latest one in the files, when those of one second sort
\* as they were made.
LEMMA PendingIs ==
    ASSUME TypeInv, Orderly, NEW k \in Requests, \A i \in Requests : i <= k
    PROVE  Pending = journal[k].action
<1>1. \A i \in Requests : i \in Int
  BY Wellformed DEF Requests
<1>2. ASSUME NEW i \in Requests, i # k PROVE ~SortsAfter(journal[i], journal[k])
  <2>1. i \in 1..Len(journal) /\ k \in 1..Len(journal) /\ i <= k /\ Len(journal) \in Nat
    BY <1>2, RequestType, Wellformed
  <2>2. i \in 1 .. k - 1
    BY <1>1, <1>2, <2>1
  <2> QED
    BY <1>2, <2>1, <2>2, RequestType DEF Orderly
<1>3. ~SortsAfter(journal[k], journal[k])
  <2>1. /\ journal[k].at.day \in Nat /\ journal[k].at.second \in Nat
        /\ journal[k].action \in AdminActions
    BY RequestType
  <2>2. ~Earlier(journal[k].at, journal[k].at)
    BY <2>1 DEF Earlier
  <2>3. ~(NameRank[journal[k].action] > NameRank[journal[k].action])
    BY <2>1 DEF NameRank, AdminActions
  <2> QED
    BY <2>2, <2>3 DEF SortsAfter
<1>4. k \in Latest
  BY <1>2, <1>3 DEF Latest
<1>5. PICK i \in Latest : Pending = journal[i].action
  BY <1>4 DEF Pending
<1>6. i \in Requests /\ ~SortsAfter(journal[k], journal[i]) /\ ~SortsAfter(journal[i], journal[k])
  BY <1>4 DEF Latest
<1> QED
  BY <1>5, <1>6, SameAction

\* A request is accepted only when every request to revert is out of the files.
LEMMA AskClear ==
    ASSUME TypeInv, Orderly, RevertInv, NEW action, Allows(action)
    PROVE  \A i \in 1..Len(journal) : IsRevert(journal[i]) => i <= pruned
<1> SUFFICES ASSUME NEW i \in 1..Len(journal), IsRevert(journal[i]), ~(i <= pruned)
             PROVE  FALSE
  OBVIOUS
<1>1. Len(journal) \in Nat /\ pruned \in Nat
  BY Wellformed
<1>2. i \in Requests
  BY <1>1 DEF Requests, IsRevert
<1>3. \A j \in Requests : j <= i
  BY <1>1 DEF Requests, RevertInv, IsAdmin
<1>4. Pending = "revert"
  BY <1>2, <1>3, PendingIs DEF IsRevert
<1>5. Shown = Absent
  BY <1>4 DEF Shown, WithPending
<1> QED
  BY <1>5 DEF Allows

LEMMA PendingType ==
    ASSUME TypeInv
    PROVE  Pending = None \/ (Pending # None /\ Pending \in AdminActions)
<1>1. CASE Latest = {}
  BY <1>1 DEF Pending
<1>2. CASE Latest # {}
  <2>1. PICK i \in Latest : Pending = journal[i].action
    BY <1>2 DEF Pending
  <2>2. journal[i].action \in AdminActions
    BY RequestType DEF Latest
  <2> QED
    BY <2>1, <2>2, SentinelAssumption
<1> QED
  BY <1>1, <1>2

LEMMA AskLawful ==
    ASSUME TypeInv, NEW action, Allows(action)
    PROVE  Lawful(entry)
<1>1. entry # Absent /\ entry \in Entry /\ Shown # Absent /\ Shown.status # "reverted"
  BY DEF Allows, TypeInv, TypeOK
<1> SUFFICES ASSUME entry.status = "reverted" PROVE FALSE
  BY <1>1 DEF Lawful
<1>2. CASE Pending = None
  BY <1>1, <1>2 DEF Shown, WithPending
<1>3. CASE Pending # None /\ Pending \in AdminActions
  BY <1>1, <1>3 DEF Shown, WithPending, AdminActions, Entry
<1> QED
  BY <1>2, <1>3, PendingType

\* The part of the invariant about requests and batches holds initially.
LEMMA BaseInit == Init => Base
<1> SUFFICES ASSUME Init PROVE Base
  OBVIOUS
<1>1. TypeInv
  BY TypeInit
<1>2. /\ Len(queue) = 0 /\ Len(journal) = 0 /\ run.phase = "idle" /\ told = None
  BY DEF Init, Idle
<1> QED
  BY <1>1, <1>2 DEF Base, QueueInv, RevertInv, BatchInv

\* A record that is appended to the queue.
LEMMA Appended ==
    ASSUME TypeInv, NEW r, queue' = Append(queue, r)
    PROVE  /\ Len(queue') = Len(queue) + 1
           /\ \A i \in 1..Len(queue) : queue'[i] = queue[i]
           /\ \A i \in 1..Len(queue') : i \in 1..Len(queue) \/ i = Len(queue')
           /\ queue'[Len(queue')] = r
  BY DEF TypeInv, TypeOK

LEMMA BaseObserve ==
    ASSUME Base, NEW o \in Observations, Observe(o) PROVE Base'
<1> DEFINE r == [type |-> "observation", seen |-> o]
<1>1. TypeInv /\ TypeInv'
  BY TypeObserve DEF Base
<1>2. /\ UNCHANGED <<waiting, journal, pruned, entry, offset, run, today, aborts, told, kept>>
      /\ queue' = Append(queue, r)
  BY DEF Observe
<1>3. /\ \A i \in 1..Len(queue) : queue'[i] = queue[i]
      /\ \A i \in 1..Len(queue') : i \in 1..Len(queue) \/ i = Len(queue')
      /\ queue'[Len(queue')] = r
  BY <1>1, <1>2, Appended
<1>4. ~IsAdmin(r)
  BY DEF IsAdmin
<1>5. \A i \in 1..Len(queue') :
         IsAdmin(queue'[i]) => i \in 1..Len(queue) /\ queue'[i] = queue[i]
  BY <1>3, <1>4
<1>6. QueueInv'
  BY <1>2, <1>5 DEF Base, QueueInv
<1>7. RevertInv'
  BY <1>2, <1>5 DEF Base, RevertInv
<1>8. BatchInv'
  BY <1>2 DEF Base, BatchInv
<1> QED
  BY <1>1, <1>6, <1>7, <1>8 DEF Base

LEMMA BaseAsk ==
    ASSUME OneWaits', Orderly, Base, NEW a \in Admins, NEW action \in Actions, Ask(a, action)
    PROVE  Base'
<1>0. PICK second \in Clock :
         queue' = Append(queue, [type |-> "admin", action |-> action, by |-> a,
                                 at |-> [day |-> today, second |-> second]])
  BY DEF Ask
<1> DEFINE r == [type |-> "admin", action |-> action, by |-> a,
                 at |-> [day |-> today, second |-> second]]
           w == [action |-> action, day |-> today]
<1>1. TypeInv /\ TypeInv'
  BY TypeAsk DEF Base
<1>2. /\ UNCHANGED <<journal, pruned, entry, offset, run, today, aborts>>
      /\ queue' = Append(queue, r) /\ told' = None
      /\ waiting' = [waiting EXCEPT ![a] = w] /\ waiting[a] = None /\ Allows(action)
  BY <1>0 DEF Ask
<1>3. /\ \A i \in 1..Len(queue) : queue'[i] = queue[i]
      /\ \A i \in 1..Len(queue') : i \in 1..Len(queue) \/ i = Len(queue')
      /\ queue'[Len(queue')] = r
  BY <1>1, <1>2, Appended
<1>4. \A i \in 1..Len(queue) : ~IsAdmin(queue[i])
  <2>1. \A b \in Admins : waiting[b] = None
    BY <1>1, AskedAlone
  <2> QED
    BY <2>1, <1>1, NobodyWaits DEF Base
<1>5. \A i \in 1..Len(queue') : IsAdmin(queue'[i]) => i = Len(queue')
  BY <1>3, <1>4
<1>6. w # None /\ w.action = action
  <2>1. w \in Request
    BY <1>1, Wellformed DEF Request
  <2> QED
    BY <2>1, NoRequestAssumption
<1>7. waiting'[a] = w
  BY <1>1, <1>2 DEF TypeInv, TypeOK
<1>8. QueueInv'
  <2>1. r.by = a /\ r.action = action
    OBVIOUS
  <2> HIDE DEF r, w
  <2> QED
    BY <1>2, <1>3, <1>5, <1>6, <1>7, <2>1 DEF QueueInv
<1>9. RevertInv'
  <2>1. \A i \in 1..Len(journal) : IsRevert(journal[i]) => i <= pruned
    BY <1>1, <1>2, AskClear DEF Base
  <2> QED
    BY <1>2, <2>1 DEF RevertInv
<1>10. BatchInv'
  BY <1>2 DEF Base, BatchInv
<1> QED
  BY <1>1, <1>8, <1>9, <1>10 DEF Base

LEMMA BaseFlush == ASSUME Base, Flush PROVE Base'
<1>1. TypeInv /\ TypeInv' /\ TypeOK
  BY TypeFlush DEF Base, TypeInv
<1>2. /\ Len(journal') = Len(journal) + Len(queue)
      /\ \A i \in 1..Len(journal) : journal'[i] = journal[i]
      /\ \A i \in 1..Len(journal') :
            i > Len(journal) => /\ i - Len(journal) \in 1..Len(queue)
                                /\ journal'[i] = Dated(queue[i - Len(journal)])
  BY <1>1, Flushed
<1>3. /\ queue' = <<>>
      /\ UNCHANGED <<waiting, pruned, entry, offset, run, today, aborts, told, kept>>
  BY DEF Flush
<1>4. /\ Len(journal) \in Nat /\ Len(queue) \in Nat /\ pruned \in Nat /\ run.next \in Nat
      /\ run.next <= Len(journal) /\ Len(queue') = 0
  BY <1>1, <1>3, Wellformed
<1>5. \A i \in 1..Len(queue) : IsAdmin(Dated(queue[i])) => IsAdmin(queue[i])
  BY DEF Dated, IsAdmin
<1>6. QueueInv'
  BY <1>3, <1>4 DEF Base, QueueInv
<1>7. RevertInv'
  <2> SUFFICES ASSUME NEW i \in 1..Len(journal'), IsRevert(journal'[i]),
                      NEW j \in 1..Len(journal'), i < j, IsAdmin(journal'[j])
               PROVE  i <= pruned'
    BY <1>3, <1>4 DEF RevertInv
  <2>1. CASE j <= Len(journal)
    <3>1. /\ i \in 1..Len(journal) /\ j \in 1..Len(journal)
          /\ journal'[i] = journal[i] /\ journal'[j] = journal[j]
      BY <1>2, <1>4, <2>1
    <3> QED
      BY <1>3, <3>1 DEF Base, RevertInv
  <2>2. CASE j > Len(journal)
    <3>1. j - Len(journal) \in 1..Len(queue) /\ IsAdmin(queue[j - Len(journal)])
      BY <1>2, <1>5, <2>2
    <3>2. CASE i <= Len(journal)
      <4>1. i \in 1..Len(journal) /\ journal'[i] = journal[i]
        BY <1>2, <1>4, <3>2
      <4> QED
        BY <1>3, <3>1, <4>1 DEF Base, RevertInv
    <3>3. CASE i > Len(journal)
      <4>1. IsAdmin(journal'[i])
        BY DEF IsAdmin, IsRevert
      <4>2. i - Len(journal) \in 1..Len(queue) /\ IsAdmin(queue[i - Len(journal)])
        BY <1>2, <1>5, <3>3, <4>1
      <4>3. i - Len(journal) = j - Len(journal)
        BY <3>1, <4>2 DEF Base, QueueInv
      <4> QED
        BY <1>4, <4>3
    <3> QED
      BY <1>4, <3>2, <3>3
  <2> QED
    BY <1>4, <2>1, <2>2
<1>8. BatchInv'
  <2>1. \A i \in pruned + 1 .. run.next : journal'[i] = journal[i]
    BY <1>2, <1>4
  <2> QED
    BY <1>3, <2>1 DEF Base, BatchInv
<1> QED
  BY <1>1, <1>6, <1>7, <1>8 DEF Base

LEMMA BaseAcknowledge ==
    ASSUME OneWaits, Base, NEW a \in Admins, Acknowledge(a) PROVE Base'
<1>1. TypeInv /\ TypeInv'
  BY TypeAcknowledge DEF Base
<1>2. /\ UNCHANGED <<queue, journal, pruned, entry, offset, run, today, aborts>>
      /\ waiting' = [waiting EXCEPT ![a] = None] /\ ~Queued(a) /\ waiting[a] # None
  BY DEF Acknowledge
<1>3. \A i \in 1..Len(queue) : ~IsAdmin(queue[i])
  BY <1>1, <1>2, NothingQueued DEF Base
<1>4. \A b \in Admins : waiting'[b] = None
  BY <1>1, <1>2 DEF OneWaits, TypeInv, TypeOK
<1> QED
  BY <1>1, <1>2, <1>3, <1>4 DEF Base, QueueInv, RevertInv, BatchInv

LEMMA BaseRestart == ASSUME Base, Restart PROVE Base'
<1>1. TypeInv /\ TypeInv'
  BY TypeRestart DEF Base
<1>2. /\ UNCHANGED <<journal, pruned, entry, offset, run, today, aborts, told>>
      /\ queue' = <<>> /\ \A b \in Admins : waiting'[b] = None
  BY DEF Restart
<1>3. Len(queue') = 0
  BY <1>2
<1> QED
  BY <1>1, <1>2, <1>3 DEF Base, QueueInv, RevertInv, BatchInv

\* What a step of the learner leaves alone.
LEMMA BaseLearner ==
    ASSUME Base, TypeInv', UNCHANGED <<queue, waiting, journal, told>>,
           pruned' >= pruned, BatchInv'
    PROVE  Base'
<1>1. QueueInv'
  BY DEF Base, QueueInv
<1>2. RevertInv'
  <2>1. pruned \in Nat /\ pruned' \in Nat /\ Len(journal) \in Nat
    BY Wellformed DEF Base, TypeInv, TypeOK
  <2>2. \A i \in Nat : i <= pruned => i <= pruned'
    BY <2>1
  <2>3. \A i \in 1..Len(journal) : i <= pruned => i <= pruned'
    BY <2>1, <2>2
  <2> QED
    BY <2>3 DEF Base, RevertInv
<1> QED
  BY <1>1, <1>2 DEF Base

LEMMA BaseStart == ASSUME Base, Start PROVE Base'
<1>1. TypeInv /\ TypeInv'
  BY TypeStart DEF Base
<1>2. UNCHANGED <<queue, waiting, journal, pruned, entry, told>> /\ run'.batch = entry
  BY DEF Start
<1>3. BatchInv'
  BY <1>2 DEF BatchInv, Lawful
<1> QED
  BY <1>1, <1>2, <1>3, Wellformed, BaseLearner

LEMMA BaseFold == ASSUME Base, Fold PROVE Base'
<1>1. TypeInv /\ TypeInv'
  BY TypeFold DEF Base
<1>2. UNCHANGED <<queue, waiting, journal, pruned, entry, told>>
  BY DEF Fold
<1>3. /\ run.phase = "folding" /\ run'.phase = "folding" /\ run'.next = run.next + 1
      /\ run'.day = run.day /\ journal[run'.next] \in Stamped
  BY <1>1, FoldStep
<1>4. PICK full \in BOOLEAN : run'.batch = FoldedBy(run.batch, journal[run'.next], full)
  BY <1>1, FoldStep
<1>5. /\ run.day \in Nat /\ run.next \in Nat /\ pruned \in Nat
      /\ run.batch \in Entry \cup {Absent}
  BY <1>1, Wellformed
<1>6. pruned <= run.next
  BY <1>1, <1>3 DEF TypeInv, BoundsInv
<1>7. CASE run.batch = Absent
  <2>1. run'.batch = Absent \/ Lawful(run'.batch)
    <3>1. run'.batch = Absent \/ (run'.batch \in Entry /\ run'.batch.status # "reverted")
      BY <1>3, <1>4, <1>5, <1>7, FoldedAbsent
    <3> QED
      BY <3>1, SentinelAssumption DEF Lawful
  <2>2. entry = Absent
    BY <1>3, <1>7 DEF Base, BatchInv
  <2> QED
    BY <1>1, <1>2, <1>5, <2>1, <2>2, BaseLearner DEF BatchInv
<1>8. CASE run.batch # Absent
  <2>1. run.batch \in Entry
    BY <1>5, <1>8
  <2> DEFINE e == run.batch
             f == run'.batch
             r == journal[run'.next]
  <2>2. /\ f \in Entry
        /\ e.status = "reverted" => f = e
        /\ e.status # "reverted" /\ ~IsRevert(r) => f.status # "reverted"
        /\ f.expires = e.expires \/ f.expires = run.day + Ttl
        /\ e.pinned => f.pinned \/ f.expires = run.day + Ttl
    BY <1>3, <1>4, <1>5, <2>1, FoldedEntry DEF IsRevert
  <2>3. f # Absent
    BY <2>2, SentinelAssumption
  <2>4. Live(e, run.day) => Live(f, run.day)
    BY <1>5, <2>2, ThresholdAssumption DEF Live, Entry
  <2>5. entry # Absent => (Live(entry, run.day) => Live(f, run.day))
    BY <1>3, <2>4 DEF Base, BatchInv
  <2>6. (~Lawful(f) /\ (entry = Absent \/ Lawful(entry))) =>
           \E i \in pruned + 1 .. run.next + 1 : IsRevert(journal[i])
    <3> SUFFICES ASSUME ~Lawful(f), entry = Absent \/ Lawful(entry)
                 PROVE  \E i \in pruned + 1 .. run.next + 1 : IsRevert(journal[i])
      OBVIOUS
    <3>1. CASE Lawful(e)
      <4>1. IsRevert(journal[run.next + 1])
        BY <1>3, <2>2, <2>3, <3>1 DEF Lawful
      <4> QED
        BY <1>5, <1>6, <4>1
    <3>2. CASE ~Lawful(e)
      <4>1. \E i \in pruned + 1 .. run.next : IsRevert(journal[i])
        BY <1>3, <1>8, <3>2 DEF Base, BatchInv
      <4> QED
        BY <1>5, <4>1
    <3> QED
      BY <3>1, <3>2
  <2>7. BatchInv'
    BY <1>2, <1>3, <2>3, <2>5, <2>6 DEF BatchInv
  <2> QED
    BY <1>1, <1>2, <1>5, <2>7, BaseLearner
<1> QED
  BY <1>7, <1>8

LEMMA BaseRest ==
    ASSUME Base, Commit \/ Prune \/ SaveState \/ Abort PROVE Base'
<1>1. TypeInv /\ TypeInv'
  BY TypeCommit, TypePrune, TypeSaveState, TypeAbort DEF Base
<1>2. UNCHANGED <<queue, waiting, journal, told>>
  BY DEF Commit, Prune, SaveState, Abort
<1>3. run'.phase # "folding"
  BY <1>1, PhaseMoved DEF Commit, Prune, SaveState, Abort, Idle, TypeInv, TypeOK
<1>4. pruned' >= pruned
  <2>1. pruned \in Nat /\ Cardinality(Prunable) \in 0..run.end /\ run.end \in Nat
    BY <1>1, PrunableBound, Wellformed DEF TypeInv
  <2>2. Larger(pruned, Cardinality(Prunable)) >= pruned
    BY <2>1 DEF Larger
  <2> QED
    BY <2>1, <2>2 DEF Commit, Prune, SaveState, Abort
<1> QED
  BY <1>1, <1>2, <1>3, <1>4, BaseLearner DEF BatchInv

LEMMA BaseNewDay == ASSUME Base, NewDay PROVE Base'
<1>1. TypeInv /\ TypeInv'
  BY TypeNewDay DEF Base
<1> QED
  BY <1>1 DEF NewDay, Base, QueueInv, RevertInv, BatchInv

(***************************************************************************)
(* The request an answer rests on                                          *)
(***************************************************************************)

\* Record k is the latest request ever written.
LastRequest(k) ==
    /\ k \in 1..Len(journal) /\ IsAdmin(journal[k])
    /\ \A i \in 1..Len(journal) : i > k => ~IsAdmin(journal[i])

\* No run has saved, or is about to save, that record k is consumed; its file
\* is still there.
Unread(k) ==
    /\ pruned < k /\ offset < k
    /\ run.phase \in {"committed", "pruned"} => run.end < k

\* Record k asks for the action: the files have settled it, or a run has still
\* to read it and finds a fact it can be applied to; so does the run under way.
Written(action, day, k) ==
    /\ LastRequest(k) /\ journal[k].action = action /\ journal[k].day >= day
    /\ Done(entry, action, day) \/ (Lawful(entry) /\ Unread(k))
    /\ run.phase = "folding" =>
          /\ Done(run.batch, action, day) \/ Lawful(run.batch)
          /\ run.next >= k => Done(run.batch, action, day)

\* A pin binds until the next request, a revert as long as its tombstone lives.
Binding(action, day) ==
    action = "pin" \/ (action = "revert" /\ today < day + Ttl)

\* A request that is queued finds a fact it can be applied to; one that is no
\* longer queued is written.
WaitInv ==
    \A a \in Admins :
        (waiting[a] # None /\ kept /\ Binding(waiting[a].action, waiting[a].day)) =>
            IF Queued(a) THEN /\ Lawful(entry)
                              /\ run.phase = "folding" => Lawful(run.batch)
            ELSE \E k \in 1..Len(journal) : Written(waiting[a].action, waiting[a].day, k)

\* The sweep of a run that has not read record k will spare the fact.
Surviving(k) == run.phase = "folding" /\ run.end < k => Live(run.batch, run.day)

\* A request whose maker was answered is written, and no sweep takes the fact.
ToldInv ==
    (told # None /\ told.live /\ Binding(told.action, told.day)) =>
        \E k \in 1..Len(journal) : Written(told.action, told.day, k) /\ Surviving(k)

IInv == Base /\ WaitInv /\ ToldInv

\* The files and the run are as they were.
LEMMA WrittenStays ==
    ASSUME NEW action, NEW day, NEW k, Written(action, day, k),
           UNCHANGED <<journal, pruned, entry, offset, run>>
    PROVE  Written(action, day, k)'
  BY DEF Written, LastRequest, Unread, Done, Lawful

\* Records that are appended behind the request hold no other.
LEMMA WrittenFlush ==
    ASSUME Base, Flush, NEW action, NEW day, NEW k, Written(action, day, k),
           \A i \in 1..Len(queue) : ~IsAdmin(queue[i])
    PROVE  Written(action, day, k)'
<1>1. TypeInv /\ TypeOK
  BY DEF Base, TypeInv
<1>2. /\ Len(journal') = Len(journal) + Len(queue)
      /\ \A i \in 1..Len(journal) : journal'[i] = journal[i]
      /\ \A i \in 1..Len(journal') :
            i > Len(journal) => /\ i - Len(journal) \in 1..Len(queue)
                                /\ journal'[i] = Dated(queue[i - Len(journal)])
  BY <1>1, Flushed
<1>3. UNCHANGED <<pruned, entry, offset, run>>
  BY DEF Flush
<1>4. Len(journal) \in Nat /\ Len(queue) \in Nat
  BY <1>1, Wellformed
<1>5. \A i \in 1..Len(queue) : ~IsAdmin(Dated(queue[i]))
  BY DEF Dated, IsAdmin
<1>6. k \in 1..Len(journal) /\ journal'[k] = journal[k] /\ k \in 1..Len(journal')
  BY <1>2, <1>4 DEF Written, LastRequest
<1>7. \A i \in 1..Len(journal') : i > k => ~IsAdmin(journal'[i])
  <2> SUFFICES ASSUME NEW i \in 1..Len(journal'), i > k PROVE ~IsAdmin(journal'[i])
    OBVIOUS
  <2>1. CASE i <= Len(journal)
    BY <1>2, <1>4, <2>1 DEF Written, LastRequest
  <2>2. CASE i > Len(journal)
    BY <1>2, <1>5, <2>2
  <2> QED
    BY <1>4, <2>1, <2>2
<1> QED
  BY <1>3, <1>6, <1>7 DEF Written, LastRequest, Unread

LEMMA WrittenStart ==
    ASSUME Base, Start, NEW action, NEW day, NEW k, Written(action, day, k)
    PROVE  Written(action, day, k)' /\ Surviving(k)'
<1>1. /\ UNCHANGED <<journal, pruned, entry, offset>> /\ run'.phase = "folding"
      /\ run'.batch = entry /\ run'.next = Larger(offset, pruned) /\ run'.end = Len(journal)
  BY DEF Start
<1>2. offset \in Nat /\ pruned \in Nat /\ Len(journal) \in Nat /\ k \in 1..Len(journal)
  BY Wellformed DEF Base, Written, LastRequest
<1>3. run'.next >= k => ~Unread(k)
  BY <1>1, <1>2 DEF Unread, Larger
<1>4. Done(entry, action, day) \/ Lawful(entry)
  BY DEF Written
<1>5. run'.next >= k => Done(entry, action, day)
  BY <1>3 DEF Written
<1>6. LastRequest(k)' /\ Unread(k)' = (pruned < k /\ offset < k)
  BY <1>1 DEF Written, LastRequest, Unread
<1>7. Written(action, day, k)'
  BY <1>1, <1>4, <1>5, <1>6 DEF Written, Unread, Done, Lawful
<1>8. Surviving(k)'
  BY <1>1, <1>2 DEF Surviving
<1> QED
  BY <1>7, <1>8

\* Any other record leaves alone what the request has decided, and until the
\* request is folded nothing else reverts the fact.
LEMMA WrittenFold ==
    ASSUME Base, Fold, NEW action \in {"pin", "revert"}, NEW day \in Nat,
           NEW k, Written(action, day, k)
    PROVE  Written(action, day, k)' /\ (Surviving(k) => Surviving(k)')
<1>1. TypeInv /\ RevertInv
  BY DEF Base
<1>2. UNCHANGED <<journal, pruned, entry, offset>>
  BY DEF Fold
<1> DEFINE e == run.batch
           f == run'.batch
           n == run'.next
           r == journal[n]
<1>3. /\ run.phase = "folding" /\ run'.phase = "folding" /\ n = run.next + 1 /\ n <= run.end
      /\ run'.end = run.end /\ run'.day = run.day /\ n \in 1..Len(journal) /\ r \in Stamped
  BY <1>1, FoldStep
<1>4. PICK full \in BOOLEAN : f = FoldedBy(e, r, full)
  BY <1>1, FoldStep
<1>5. /\ run.day \in Nat /\ run.next \in Nat /\ pruned \in Nat /\ run.end \in Nat
      /\ e \in Entry \cup {Absent} /\ Len(journal) \in Nat /\ pruned <= run.next
  BY <1>1, <1>3, Wellformed DEF TypeInv, BoundsInv
<1>6. /\ Done(e, action, day) \/ Lawful(e)
      /\ run.next >= k => Done(e, action, day)
      /\ LastRequest(k) /\ k \in 1..Len(journal) /\ journal[k].action = action
      /\ journal[k].day >= day
  BY <1>3 DEF Written, LastRequest
<1>7. e \in Entry
  BY <1>5, <1>6 DEF Done, Lawful
<1>8. /\ f \in Entry
      /\ e.status = "reverted" => f = e
      /\ e.status # "reverted" /\ ~IsRevert(r) => f.status # "reverted"
      /\ f.expires = e.expires \/ f.expires = run.day + Ttl
      /\ e.pinned => f.pinned \/ f.expires = run.day + Ttl
      /\ e.pinned /\ e.status = "active" /\ ~IsAdmin(r) => f.pinned /\ f.status = "active"
  BY <1>3, <1>4, <1>5, <1>7, FoldedEntry DEF IsRevert, IsAdmin
<1>9. f # Absent
  BY <1>8, SentinelAssumption
<1>10. ASSUME n > k PROVE Done(f, action, day)
  <2>1. Done(e, action, day) /\ ~IsAdmin(r)
    BY <1>3, <1>5, <1>6, <1>10 DEF LastRequest
  <2>2. Done(f, action, day)
    BY <1>8, <1>9, <2>1 DEF Done
  <2> QED
    BY <2>2
<1>11. ASSUME n = k PROVE Done(f, action, day)
  <2>1. CASE e.status # "reverted"
    <3>1. r.type = "admin" /\ r.action = action
      BY <1>6, <1>11 DEF LastRequest, IsAdmin
    <3>2. r.day \in Nat /\ r.day <= run.day
      BY <1>1, <1>3, <1>5 DEF TypeInv, BoundsInv, Stamped
    <3>3. day <= run.day
      BY <1>5, <1>6, <1>11, <3>2
    <3>4. Done(FoldedBy(e, r, full), r.action, day)
      BY <1>3, <1>5, <1>7, <2>1, <3>1, <3>3, FoldedDecides
    <3> QED
      BY <1>4, <3>1, <3>4
  <2>2. CASE e.status = "reverted"
    BY <1>6, <1>8, <2>2 DEF Done, Lawful
  <2> QED
    BY <2>1, <2>2
<1>12. ASSUME n < k PROVE Done(f, action, day) \/ Lawful(f)
  <2>1. ~IsRevert(r)
    <3>1. IsAdmin(journal[k]) /\ (IsRevert(r) => n <= pruned)
      BY <1>1, <1>3, <1>6, <1>12 DEF RevertInv, LastRequest
    <3> QED
      BY <1>3, <1>5, <3>1
  <2>2. Lawful(e) => Lawful(f)
    BY <1>8, <1>9, <2>1 DEF Lawful
  <2>3. Done(e, action, day) /\ ~Lawful(e) => Done(f, action, day)
    BY <1>8, <1>9 DEF Done, Lawful
  <2> QED
    BY <1>6, <2>2, <2>3
<1>13. /\ Done(f, action, day) \/ Lawful(f)
       /\ n >= k => Done(f, action, day)
  <2>1. n >= k => Done(f, action, day)
    BY <1>3, <1>5, <1>6, <1>10, <1>11
  <2>2. k \in Nat
    BY <1>5, <1>6
  <2> QED
    BY <1>3, <1>5, <1>10, <1>11, <1>12, <2>1, <2>2
<1>14. Surviving(k) => Surviving(k)'
  <2> SUFFICES ASSUME Surviving(k), run.end < k PROVE Live(f, run.day)
    BY <1>3 DEF Surviving
  <2>1. Live(e, run.day)
    BY <1>3 DEF Surviving
  <2> QED
    BY <1>5, <1>7, <1>8, <2>1, ThresholdAssumption DEF Live, Entry
<1>15. LastRequest(k)' /\ Unread(k)' = Unread(k) /\ entry' = entry
  BY <1>2, <1>3 DEF Written, LastRequest, Unread
<1>16. (journal[k].action)' = action /\ (journal[k].day)' >= day
  BY <1>2, <1>6
<1>17. Done(entry, action, day) \/ (Lawful(entry) /\ Unread(k))
  BY DEF Written
<1>18. Written(action, day, k)'
  BY <1>13, <1>15, <1>16, <1>17 DEF Written
<1> QED
  BY <1>14, <1>18

\* What the run leaves in the files stands for everything it read.
LEMMA WrittenCommit ==
    ASSUME Base, Commit, NEW action, NEW day, NEW k, Written(action, day, k),
           entry' # Absent
    PROVE  Written(action, day, k)'
<1>1. TypeInv
  BY DEF Base
<1>2. /\ run.phase = "folding" /\ run.next = run.end /\ run \in Run
      /\ run' = [run EXCEPT !.phase = "committed"]
      /\ entry' \in {run.batch, Sweep(run.batch, run.day)}
      /\ UNCHANGED <<queue, waiting, journal, pruned, offset, today, aborts, told>>
  BY <1>1 DEF Commit, TypeInv, TypeOK
<1>3. run'.phase = "committed" /\ run'.end = run.end
  BY <1>2 DEF Run
<1>4. entry' = run.batch
  BY <1>2 DEF Sweep
<1>5. /\ offset <= run.end /\ pruned <= run.end
      /\ offset \in Nat /\ pruned \in Nat /\ run.end \in Nat
  BY <1>1, <1>2, Wellformed DEF TypeInv, BoundsInv
<1>6. /\ Done(run.batch, action, day) \/ Lawful(run.batch)
      /\ run.end >= k => Done(run.batch, action, day)
      /\ LastRequest(k) /\ journal[k].action = action /\ journal[k].day >= day
  BY <1>2 DEF Written
<1>7. k \in Nat
  BY <1>1, <1>6, Wellformed DEF LastRequest
<1>8. run.end < k => Unread(k)'
  BY <1>2, <1>3, <1>5, <1>7 DEF Unread
<1>9. Done(entry', action, day) \/ (Lawful(entry') /\ Unread(k)')
  BY <1>4, <1>5, <1>6, <1>7, <1>8
<1>10. LastRequest(k)' /\ (journal[k].action)' = action /\ (journal[k].day)' >= day
  BY <1>2, <1>6 DEF LastRequest
<1> QED
  BY <1>3, <1>9, <1>10 DEF Written

\* No sweep takes what the latest request has settled.
LEMMA CommitSpares ==
    ASSUME Base, Commit, NEW action \in {"pin", "revert"}, NEW day \in Nat, NEW k,
           Written(action, day, k), Surviving(k), Binding(action, day)
    PROVE  entry' # Absent
<1>1. TypeInv
  BY DEF Base
<1>2. /\ run.phase = "folding" /\ run.next = run.end
      /\ entry' \in {run.batch, Sweep(run.batch, run.day)}
  BY DEF Commit
<1>3. /\ run.day \in Nat /\ today \in Nat /\ run.day <= today /\ run.end \in Nat
      /\ run.batch \in Entry \cup {Absent} /\ k \in Nat
  BY <1>1, <1>2, Wellformed DEF TypeInv, BoundsInv, Written, LastRequest
<1>4. /\ Done(run.batch, action, day) \/ Lawful(run.batch)
      /\ run.end >= k => Done(run.batch, action, day)
  BY <1>2 DEF Written
<1>5. run.batch # Absent
  BY <1>4 DEF Done, Lawful
<1>6. run.batch.expires \in Nat
  BY <1>3, <1>5 DEF Entry
<1>7. run.batch.pinned \/ run.batch.expires > run.day
  <2>1. CASE run.end < k
    BY <1>2, <2>1 DEF Surviving, Live
  <2>2. CASE run.end >= k
    BY <1>3, <1>4, <1>6, <2>2, ThresholdAssumption DEF Done, Binding
  <2> QED
    BY <1>3, <2>1, <2>2
<1>8. Sweep(run.batch, run.day) = run.batch
  BY <1>3, <1>6, <1>7 DEF Sweep
<1> QED
  BY <1>2, <1>5, <1>8

\* The steps that end a run.
LEMMA WrittenEnd ==
    ASSUME Base, Prune \/ SaveState \/ Abort, NEW action, NEW day, NEW k,
           Written(action, day, k)
    PROVE  Written(action, day, k)'
<1>1. TypeInv /\ TypeInv'
  BY TypePrune, TypeSaveState, TypeAbort DEF Base
<1>2. UNCHANGED <<queue, waiting, journal, entry, told>>
  BY DEF Prune, SaveState, Abort
<1>3. run'.phase # "folding"
  BY <1>1, PhaseMoved DEF Prune, SaveState, Abort, Idle, TypeInv, TypeOK
<1>4. LastRequest(k)' /\ (journal[k].action)' = action /\ (journal[k].day)' >= day
  BY <1>2 DEF Written, LastRequest
<1>5. Unread(k) => Unread(k)'
  <2>1. k \in Nat
    BY <1>1, Wellformed DEF Written, LastRequest
  <2>2. CASE Prune
    <3>1. /\ run.phase = "committed" /\ run' = [run EXCEPT !.phase = "pruned"]
          /\ pruned' = Larger(pruned, Cardinality(Prunable)) /\ offset' = offset
      BY <2>2 DEF Prune
    <3>2. run'.end = run.end
      BY <1>1, <3>1, PhaseMoved DEF TypeInv, TypeOK, Run
    <3>3. Cardinality(Prunable) \in 0..run.end /\ run.end \in Nat /\ pruned \in Nat
      BY <1>1, PrunableBound, Wellformed DEF TypeInv
    <3>4. Unread(k) => pruned' < k
      BY <2>1, <3>1, <3>3 DEF Unread, Larger
    <3> QED
      BY <3>1, <3>2, <3>4 DEF Unread
  <2>3. CASE SaveState
    BY <2>3 DEF SaveState, Unread, Idle
  <2>4. CASE Abort
    BY <2>4 DEF Abort, Unread, Idle
  <2> QED
    BY <2>2, <2>3, <2>4
<1> QED
  BY <1>2, <1>3, <1>4, <1>5 DEF Written

(***************************************************************************)
(* The steps                                                               *)
(***************************************************************************)

LEMMA WaitingType ==
    ASSUME TypeInv, NEW a \in Admins, waiting[a] # None,
           Binding(waiting[a].action, waiting[a].day)
    PROVE  waiting[a].action \in {"pin", "revert"} /\ waiting[a].day \in Nat
<1>1. waiting[a] \in Request
  BY DEF TypeInv, TypeOK
<1> QED
  BY <1>1 DEF Request, Binding

LEMMA ToldType ==
    ASSUME TypeInv, told # None, Binding(told.action, told.day)
    PROVE  told.action \in {"pin", "revert"} /\ told.day \in Nat
<1>1. told \in Told
  BY DEF TypeInv, TypeOK
<1> QED
  BY <1>1 DEF Told, Binding

LEMMA AnswerObserve ==
    ASSUME IInv, NEW o \in Observations, Observe(o) PROVE WaitInv' /\ ToldInv'
<1> DEFINE r == [type |-> "observation", seen |-> o]
<1>1. TypeInv
  BY DEF IInv, Base
<1>2. /\ UNCHANGED <<waiting, journal, pruned, entry, offset, run, today, aborts, told, kept>>
      /\ queue' = Append(queue, r)
  BY DEF Observe
<1>3. /\ Len(queue') = Len(queue) + 1 /\ Len(queue) \in Nat
      /\ \A i \in 1..Len(queue) : queue'[i] = queue[i]
      /\ \A i \in 1..Len(queue') : i \in 1..Len(queue) \/ i = Len(queue')
      /\ queue'[Len(queue')] = r
  BY <1>1, <1>2, Appended, Wellformed
<1>4. r.type # "admin"
  OBVIOUS
<1>5. ASSUME NEW a PROVE Queued(a)' = Queued(a)
  <2>1. Queued(a) => Queued(a)'
    BY <1>3 DEF Queued
  <2>2. Queued(a)' => Queued(a)
    <3> HIDE DEF r
    <3> QED
      BY <1>3, <1>4 DEF Queued
  <2> QED
    BY <2>1, <2>2 DEF Queued
<1>6. WaitInv'
  <2> SUFFICES ASSUME NEW a \in Admins, waiting[a] # None, kept,
                      Binding(waiting[a].action, waiting[a].day)
               PROVE  IF Queued(a)' THEN /\ Lawful(entry)
                                         /\ run.phase = "folding" => Lawful(run.batch)
                      ELSE \E k \in 1..Len(journal) :
                               Written(waiting[a].action, waiting[a].day, k)'
    BY <1>2 DEF WaitInv, Binding, Lawful
  <2> QED
    BY <1>2, <1>5, WrittenStays DEF IInv, WaitInv
<1>7. ToldInv'
  <2> SUFFICES ASSUME told # None, told.live, Binding(told.action, told.day)
               PROVE  \E k \in 1..Len(journal) :
                          Written(told.action, told.day, k)' /\ Surviving(k)'
    BY <1>2 DEF ToldInv, Binding
  <2>1. PICK k \in 1..Len(journal) : Written(told.action, told.day, k) /\ Surviving(k)
    BY DEF IInv, ToldInv
  <2> QED
    BY <1>2, <2>1, WrittenStays DEF Surviving
<1> QED
  BY <1>6, <1>7

\* A request is accepted for a fact that is not retired, and no run that is
\* under way can have read a request to retire it.
LEMMA AnswerAsk ==
    ASSUME OneWaits', Orderly, IInv, NEW a \in Admins, NEW action \in Actions, Ask(a, action)
    PROVE  WaitInv' /\ ToldInv'
<1>0. PICK second \in Clock :
         queue' = Append(queue, [type |-> "admin", action |-> action, by |-> a,
                                 at |-> [day |-> today, second |-> second]])
  BY DEF Ask
<1> DEFINE r == [type |-> "admin", action |-> action, by |-> a,
                 at |-> [day |-> today, second |-> second]]
<1>1. TypeInv /\ RevertInv /\ BatchInv
  BY DEF IInv, Base
<1>2. /\ UNCHANGED <<journal, pruned, entry, offset, run, today, aborts>>
      /\ queue' = Append(queue, r) /\ told' = None /\ Allows(action)
  BY <1>0 DEF Ask
<1>3. Queued(a)'
  <2>1. /\ Len(queue') \in 1..Len(queue') /\ queue'[Len(queue')] = r
    BY <1>1, <1>2, Appended, Wellformed
  <2> QED
    BY <2>1 DEF Queued
<1>4. Lawful(entry)
  BY <1>1, <1>2, AskLawful
<1>5. run.phase = "folding" => Lawful(run.batch)
  <2> SUFFICES ASSUME run.phase = "folding", ~Lawful(run.batch) PROVE FALSE
    OBVIOUS
  <2>1. PICK i \in pruned + 1 .. run.next : IsRevert(journal[i])
    BY <1>1, <1>4 DEF BatchInv, Lawful
  <2>2. i \in 1..Len(journal) /\ i > pruned /\ pruned \in Nat
    BY <1>1, <2>1, Wellformed
  <2>3. i <= pruned
    BY <1>1, <1>2, <2>1, <2>2, AskClear
  <2> QED
    BY <2>2, <2>3
<1>6. WaitInv'
  <2> SUFFICES ASSUME NEW b \in Admins, waiting'[b] # None
               PROVE  /\ Queued(b)' /\ Lawful(entry)'
                      /\ (run.phase = "folding" => Lawful(run.batch))'
    BY DEF WaitInv
  <2>1. b = a
    BY <1>1, AskedAlone
  <2> QED
    BY <1>2, <1>3, <1>4, <1>5, <2>1 DEF Lawful
<1>7. ToldInv'
  BY <1>2 DEF ToldInv
<1> QED
  BY <1>6, <1>7

\* The request that a flush writes is the latest, and no run has read it.
LEMMA AnswerFlush ==
    ASSUME OneWaits, IInv, Flush PROVE WaitInv' /\ ToldInv'
<1>1. TypeInv /\ TypeOK /\ QueueInv /\ Base
  BY DEF IInv, Base, TypeInv
<1>2. /\ Len(journal') = Len(journal) + Len(queue)
      /\ \A i \in 1..Len(journal) : journal'[i] = journal[i]
      /\ \A i \in 1..Len(queue) : journal'[Len(journal) + i] = Dated(queue[i])
      /\ \A i \in 1..Len(journal') :
            i > Len(journal) => /\ i - Len(journal) \in 1..Len(queue)
                                /\ journal'[i] = Dated(queue[i - Len(journal)])
  BY <1>1, Flushed
<1>3. /\ queue' = <<>> /\ \A b : ~Queued(b)'
      /\ UNCHANGED <<waiting, pruned, entry, offset, run, today, aborts, told, kept>>
  BY DEF Flush, Queued
<1>4. /\ Len(journal) \in Nat /\ Len(queue) \in Nat /\ pruned \in Nat /\ offset \in Nat
      /\ run.next \in Nat /\ run.end \in Nat /\ today \in Nat
      /\ run.next <= Len(journal) /\ run.end <= Len(journal)
      /\ offset <= Len(journal) /\ pruned <= Len(journal)
  BY <1>1, Wellformed
<1>5. \A i \in 1..Len(queue) : IsAdmin(Dated(queue[i])) => IsAdmin(queue[i])
  BY DEF Dated, IsAdmin
<1>6. WaitInv'
  <2> SUFFICES ASSUME NEW a \in Admins, waiting[a] # None, kept,
                      Binding(waiting[a].action, waiting[a].day)
               PROVE  \E k \in 1..Len(journal') :
                          Written(waiting[a].action, waiting[a].day, k)'
    BY <1>3 DEF WaitInv, Binding
  <2>1. CASE Queued(a)
    <3>1. PICK i \in 1..Len(queue) : queue[i].type = "admin" /\ queue[i].by = a
      BY <2>1 DEF Queued
    <3>0. PICK k \in 1..Len(journal') : k = Len(journal) + i
      BY <1>2, <1>4
    <3>2. k > Len(journal) /\ k \in Nat
      BY <1>4, <3>0
    <3>3. /\ journal'[k].type = "admin" /\ journal'[k].action = queue[i].action
          /\ journal'[k].day = today
      BY <1>2, <3>0, <3>1 DEF Dated
    <3>4. queue[i].action = waiting[a].action
      BY <1>1, <3>1 DEF QueueInv, IsAdmin
    <3>5. waiting[a].day <= today
      BY <1>1 DEF TypeInv, BoundsInv
    <3>6. \A j \in 1..Len(journal') : j > k => ~IsAdmin(journal'[j])
      <4> SUFFICES ASSUME NEW j \in 1..Len(journal'), j > k, IsAdmin(journal'[j])
                   PROVE  FALSE
        OBVIOUS
      <4>0. j > Len(journal)
        BY <1>4, <3>2
      <4>1. j - Len(journal) \in 1..Len(queue) /\ IsAdmin(queue[j - Len(journal)])
        BY <1>2, <1>5, <4>0
      <4>2. j - Len(journal) = i
        BY <1>1, <3>1, <4>1 DEF QueueInv, IsAdmin
      <4> QED
        BY <1>4, <3>0, <4>2
    <3>7. Lawful(entry) /\ (run.phase = "folding" => Lawful(run.batch))
      BY <2>1 DEF IInv, WaitInv
    <3>8. LastRequest(k)'
      BY <3>2, <3>3, <3>6 DEF LastRequest, IsAdmin
    <3>9. Unread(k)'
      BY <1>3, <1>4, <3>2 DEF Unread
    <3>10. (journal[k].action)' = waiting[a].action /\ (journal[k].day)' >= waiting[a].day
      <4>1. (journal[k].day)' = today
        BY <3>3
      <4> QED
        BY <1>1, <1>4, <3>3, <3>4, <3>5, <4>1, WaitingType
    <3>11. ~(run.next >= k)
      BY <1>4, <3>2
    <3>12. Written(waiting[a].action, waiting[a].day, k)'
      BY <1>3, <3>7, <3>8, <3>9, <3>10, <3>11 DEF Written, Lawful
    <3> QED
      BY <3>2, <3>12
  <2>2. CASE ~Queued(a)
    <3>1. PICK k \in 1..Len(journal) : Written(waiting[a].action, waiting[a].day, k)
      BY <2>2 DEF IInv, WaitInv
    <3>2. Written(waiting[a].action, waiting[a].day, k)'
      BY <1>1, <1>3, <2>2, <3>1, NothingQueued, WrittenFlush
    <3>3. k \in 1..Len(journal')
      BY <1>2, <1>4
    <3> QED
      BY <1>3, <3>2, <3>3
  <2> QED
    BY <2>1, <2>2
<1>7. ToldInv'
  <2> SUFFICES ASSUME told # None, told.live, Binding(told.action, told.day)
               PROVE  \E k \in 1..Len(journal') :
                          Written(told.action, told.day, k)' /\ Surviving(k)'
    BY <1>3 DEF ToldInv, Binding
  <2>1. PICK k \in 1..Len(journal) : Written(told.action, told.day, k) /\ Surviving(k)
    BY DEF IInv, ToldInv
  <2>2. \A i \in 1..Len(queue) : ~IsAdmin(queue[i])
    BY <1>1, NobodyWaits DEF QueueInv
  <2>3. Written(told.action, told.day, k)'
    BY <1>1, <1>3, <2>1, <2>2, WrittenFlush
  <2>4. k \in 1..Len(journal') /\ Surviving(k)'
    BY <1>2, <1>3, <1>4, <2>1 DEF Surviving
  <2> QED
    BY <1>3, <2>3, <2>4
<1> QED
  BY <1>6, <1>7

\* What holds of the request while its maker waits holds when he is answered; a
\* fact that has not expired by then had not when the run under way started.
LEMMA AnswerAcknowledge ==
    ASSUME OneWaits, IInv, NEW a \in Admins, Acknowledge(a)
    PROVE  WaitInv' /\ ToldInv'
<1>1. TypeInv /\ BatchInv
  BY DEF IInv, Base
<1>2. /\ UNCHANGED <<queue, journal, pruned, entry, offset, run, today, aborts>>
      /\ waiting' = [waiting EXCEPT ![a] = None] /\ ~Queued(a) /\ waiting[a] # None
      /\ told' = [action |-> waiting[a].action, day |-> waiting[a].day,
                  live |-> kept /\ entry # Absent /\ Live(entry, today)]
  BY DEF Acknowledge
<1>3. /\ told'.action = waiting[a].action /\ told'.day = waiting[a].day
      /\ told'.live = (kept /\ entry # Absent /\ Live(entry, today))
  BY <1>2
<1>4. \A b \in Admins : waiting'[b] = None
  BY <1>1, <1>2 DEF OneWaits, TypeInv, TypeOK
<1>5. ToldInv'
  <2> SUFFICES ASSUME kept, entry # Absent, Live(entry, today),
                      Binding(waiting[a].action, waiting[a].day)
               PROVE  \E k \in 1..Len(journal) :
                          /\ Written(waiting[a].action, waiting[a].day, k)
                          /\ Surviving(k)
    <3>1. (Binding(told.action, told.day))' = Binding(told'.action, told'.day)
      BY <1>2 DEF Binding
    <3>2. ASSUME NEW k, Written(told'.action, told'.day, k), Surviving(k)
          PROVE  Written(told.action, told.day, k)' /\ Surviving(k)'
      BY <1>2, <3>2 DEF Written, LastRequest, Unread, Done, Lawful, Surviving, Live
    <3> QED
      BY <1>2, <1>3, <3>1, <3>2 DEF ToldInv
  <2>1. PICK k \in 1..Len(journal) : Written(waiting[a].action, waiting[a].day, k)
    BY <1>2 DEF IInv, WaitInv
  <2>2. Surviving(k)
    <3> SUFFICES ASSUME run.phase = "folding" PROVE Live(run.batch, run.day)
      BY DEF Surviving
    <3>1. entry \in Entry /\ run.day \in Nat /\ today \in Nat /\ run.day <= today
      BY <1>1, Wellformed DEF TypeInv, TypeOK, BoundsInv
    <3>2. Live(entry, run.day)
      BY <3>1 DEF Live, Entry
    <3> QED
      BY <1>1, <3>2 DEF BatchInv
  <2> QED
    BY <2>1, <2>2
<1>6. WaitInv'
  BY <1>4 DEF WaitInv
<1> QED
  BY <1>5, <1>6

LEMMA AnswerRestart ==
    ASSUME IInv, Restart PROVE WaitInv' /\ ToldInv'
<1>1. /\ UNCHANGED <<journal, pruned, entry, offset, run, today, aborts, told>>
      /\ \A b \in Admins : waiting'[b] = None
  BY DEF Restart
<1>2. WaitInv'
  BY <1>1 DEF WaitInv
<1>3. ToldInv'
  <2> SUFFICES ASSUME told # None, told.live, Binding(told.action, told.day)
               PROVE  \E k \in 1..Len(journal) :
                          Written(told.action, told.day, k)' /\ Surviving(k)'
    BY <1>1 DEF ToldInv, Binding
  <2>1. PICK k \in 1..Len(journal) : Written(told.action, told.day, k) /\ Surviving(k)
    BY DEF IInv, ToldInv
  <2> QED
    BY <1>1, <2>1, WrittenStays DEF Surviving
<1> QED
  BY <1>2, <1>3

\* Today's requests bind tomorrow only if they bind today.
LEMMA AnswerNewDay ==
    ASSUME IInv, NewDay PROVE WaitInv' /\ ToldInv'
<1>1. TypeInv
  BY DEF IInv, Base
<1>2. /\ UNCHANGED <<queue, waiting, journal, pruned, entry, offset, run, aborts, told, kept>>
      /\ today' = today + 1 /\ today \in Nat
  BY <1>1, Wellformed DEF NewDay
<1>3. WaitInv'
  <2> SUFFICES ASSUME NEW a \in Admins, waiting[a] # None, kept,
                      Binding(waiting[a].action, waiting[a].day)'
               PROVE  IF Queued(a) THEN /\ Lawful(entry)
                                        /\ run.phase = "folding" => Lawful(run.batch)
                      ELSE \E k \in 1..Len(journal) :
                               Written(waiting[a].action, waiting[a].day, k)'
    BY <1>2 DEF WaitInv, Queued, Lawful
  <2>1. Binding(waiting[a].action, waiting[a].day)
    <3>1. waiting[a].day \in Nat
      <4>1. waiting[a] \in Request
        BY <1>1 DEF TypeInv, TypeOK
      <4> QED
        BY <4>1 DEF Request
    <3> QED
      BY <1>2, <3>1, ThresholdAssumption DEF Binding
  <2> QED
    BY <1>2, <2>1, WrittenStays DEF IInv, WaitInv
<1>4. ToldInv'
  <2> SUFFICES ASSUME told # None, told.live, Binding(told.action, told.day)'
               PROVE  \E k \in 1..Len(journal) :
                          Written(told.action, told.day, k)' /\ Surviving(k)'
    BY <1>2 DEF ToldInv
  <2>1. Binding(told.action, told.day)
    <3>1. told.day \in Nat
      <4>1. told \in Told
        BY <1>1 DEF TypeInv, TypeOK
      <4> QED
        BY <4>1 DEF Told
    <3> QED
      BY <1>2, <3>1, ThresholdAssumption DEF Binding
  <2>2. PICK k \in 1..Len(journal) : Written(told.action, told.day, k) /\ Surviving(k)
    BY <2>1 DEF IInv, ToldInv
  <2> QED
    BY <1>2, <2>2, WrittenStays DEF Surviving
<1> QED
  BY <1>3, <1>4

\* A step of the learner: what it makes of the requests that are queued and of
\* those that are written.
LEMMA AnswerLearner ==
    ASSUME IInv, UNCHANGED <<queue, waiting, journal, today, told>>, kept' => kept,
           \A a \in Admins :
              (Queued(a) /\ Lawful(entry) /\ (run.phase = "folding" => Lawful(run.batch)) /\ kept')
              => Lawful(entry)' /\ (run.phase = "folding" => Lawful(run.batch))',
           \A action \in {"pin", "revert"} : \A day \in Nat : \A k \in 1..Len(journal) :
              (Written(action, day, k) /\ (kept' \/ (Surviving(k) /\ Binding(action, day))))
              => Written(action, day, k)' /\ (Surviving(k) => Surviving(k)')
    PROVE  WaitInv' /\ ToldInv'
<1>1. TypeInv
  BY DEF IInv, Base
<1>2. WaitInv'
  <2> SUFFICES ASSUME NEW a \in Admins, waiting[a] # None, kept', kept,
                      Binding(waiting[a].action, waiting[a].day)
               PROVE  IF Queued(a) THEN /\ Lawful(entry)'
                                        /\ (run.phase = "folding" => Lawful(run.batch))'
                      ELSE \E k \in 1..Len(journal) :
                               Written(waiting[a].action, waiting[a].day, k)'
    BY DEF WaitInv, Queued, Binding
  <2>1. CASE Queued(a)
    BY <2>1 DEF IInv, WaitInv
  <2>2. CASE ~Queued(a)
    <3>1. PICK k \in 1..Len(journal) : Written(waiting[a].action, waiting[a].day, k)
      BY <2>2 DEF IInv, WaitInv
    <3>2. waiting[a].action \in {"pin", "revert"} /\ waiting[a].day \in Nat
      BY <1>1, WaitingType
    <3> QED
      BY <2>2, <3>1, <3>2
  <2> QED
    BY <2>1, <2>2
<1>3. ToldInv'
  <2> SUFFICES ASSUME told # None, told.live, Binding(told.action, told.day)
               PROVE  \E k \in 1..Len(journal) :
                          Written(told.action, told.day, k)' /\ Surviving(k)'
    BY DEF ToldInv, Binding
  <2>1. PICK k \in 1..Len(journal) : Written(told.action, told.day, k) /\ Surviving(k)
    BY DEF IInv, ToldInv
  <2>2. told.action \in {"pin", "revert"} /\ told.day \in Nat
    BY <1>1, ToldType
  <2> QED
    BY <2>1, <2>2
<1> QED
  BY <1>2, <1>3

LEMMA AnswerStart == ASSUME IInv, Start PROVE WaitInv' /\ ToldInv'
<1>1. Base
  BY DEF IInv
<1>2. /\ UNCHANGED <<queue, waiting, journal, pruned, entry, offset, today, told, kept>>
      /\ run'.batch = entry
  BY DEF Start
<1>3. Lawful(entry) => Lawful(entry)' /\ (run.phase = "folding" => Lawful(run.batch))'
  BY <1>2 DEF Lawful
<1>4. ASSUME NEW action, NEW day, NEW k, Written(action, day, k)
      PROVE  Written(action, day, k)' /\ Surviving(k)'
  BY <1>1, <1>4, WrittenStart
<1> QED
  BY <1>2, <1>3, <1>4, AnswerLearner

\* A run cannot come to a request to revert while another request is queued.
LEMMA AnswerFold == ASSUME IInv, Fold PROVE WaitInv' /\ ToldInv'
<1>1. Base /\ TypeInv /\ RevertInv
  BY DEF IInv, Base
<1>2. UNCHANGED <<queue, waiting, journal, pruned, entry, offset, today, told, kept>>
  BY DEF Fold
<1>3. ASSUME NEW a \in Admins, Queued(a), Lawful(entry), Lawful(run.batch)
      PROVE  Lawful(run'.batch)
  <2> DEFINE r == journal[run'.next]
  <2>1. /\ run.phase = "folding" /\ run'.next = run.next + 1
        /\ run'.next \in 1..Len(journal) /\ r \in Stamped
    BY <1>1, FoldStep
  <2>2. PICK full \in BOOLEAN : run'.batch = FoldedBy(run.batch, r, full)
    BY <1>1, FoldStep
  <2>3. /\ run.day \in Nat /\ run.next \in Nat /\ pruned \in Nat
        /\ run.batch \in Entry /\ pruned <= run.next
    BY <1>1, <1>3, <2>1, Wellformed DEF TypeInv, BoundsInv, Lawful
  <2>4. ~IsRevert(r)
    <3>1. PICK j \in 1..Len(queue) : IsAdmin(queue[j])
      BY <1>3 DEF Queued, IsAdmin
    <3>2. IsRevert(r) => run'.next <= pruned
      BY <1>1, <2>1, <3>1 DEF RevertInv
    <3> QED
      BY <2>1, <2>3, <3>2
  <2>5. run'.batch \in Entry /\ run'.batch.status # "reverted"
    BY <1>3, <2>1, <2>2, <2>3, <2>4, FoldedEntry DEF IsRevert, Lawful
  <2> QED
    BY <2>5, SentinelAssumption DEF Lawful
<1>4. ASSUME NEW action \in {"pin", "revert"}, NEW day \in Nat, NEW k, Written(action, day, k)
      PROVE  Written(action, day, k)' /\ (Surviving(k) => Surviving(k)')
  BY <1>1, <1>4, WrittenFold
<1>5. run.phase = "folding"
  BY DEF Fold
<1>6. \A a \in Admins :
         (Queued(a) /\ Lawful(entry) /\ (run.phase = "folding" => Lawful(run.batch)) /\ kept')
         => Lawful(entry)' /\ (run.phase = "folding" => Lawful(run.batch))'
  BY <1>2, <1>3, <1>5 DEF Lawful
<1> QED
  BY <1>2, <1>4, <1>6, AnswerLearner

LEMMA AnswerCommit == ASSUME IInv, Commit PROVE WaitInv' /\ ToldInv'
<1>1. Base /\ TypeInv
  BY DEF IInv, Base
<1>2. /\ UNCHANGED <<queue, waiting, journal, pruned, offset, today, told>>
      /\ run.phase = "folding" /\ entry' \in {run.batch, Sweep(run.batch, run.day)}
      /\ kept' = (kept /\ entry' # Absent)
  BY DEF Commit
<1>3. run'.phase = "committed"
  BY <1>1, PhaseMoved DEF Commit, TypeInv, TypeOK
<1>4. Lawful(run.batch) /\ entry' # Absent => Lawful(entry')
  BY <1>2 DEF Lawful, Sweep
<1>5. \A a \in Admins :
         (Queued(a) /\ Lawful(entry) /\ (run.phase = "folding" => Lawful(run.batch)) /\ kept')
         => Lawful(entry)' /\ (run.phase = "folding" => Lawful(run.batch))'
  BY <1>2, <1>3, <1>4 DEF Lawful
<1>6. ASSUME NEW action \in {"pin", "revert"}, NEW day \in Nat, NEW k, Written(action, day, k),
             kept' \/ (Surviving(k) /\ Binding(action, day))
      PROVE  Written(action, day, k)' /\ Surviving(k)'
  <2>1. entry' # Absent
    BY <1>1, <1>2, <1>6, CommitSpares
  <2> QED
    BY <1>1, <1>3, <1>6, <2>1, WrittenCommit DEF Surviving
<1> QED
  BY <1>2, <1>5, <1>6, AnswerLearner

LEMMA AnswerEnd ==
    ASSUME IInv, Prune \/ SaveState \/ Abort PROVE WaitInv' /\ ToldInv'
<1>1. Base /\ TypeInv
  BY DEF IInv, Base
<1>2. UNCHANGED <<queue, waiting, journal, entry, today, told, kept>>
  BY DEF Prune, SaveState, Abort
<1>3. run'.phase # "folding"
  BY <1>1, PhaseMoved DEF Prune, SaveState, Abort, Idle, TypeInv, TypeOK
<1>4. Lawful(entry) => Lawful(entry)' /\ (run.phase = "folding" => Lawful(run.batch))'
  BY <1>2, <1>3 DEF Lawful
<1>5. ASSUME NEW action, NEW day, NEW k, Written(action, day, k)
      PROVE  Written(action, day, k)' /\ Surviving(k)'
  BY <1>1, <1>3, <1>5, WrittenEnd DEF Surviving
<1> QED
  BY <1>2, <1>4, <1>5, AnswerLearner

(***************************************************************************)
(* The invariant and the theorems                                          *)
(***************************************************************************)

LEMMA InitInv == Init => IInv
<1> SUFFICES ASSUME Init PROVE IInv
  OBVIOUS
<1>1. told = None /\ \A a \in Admins : waiting[a] = None
  BY DEF Init
<1> QED
  BY <1>1, BaseInit DEF IInv, WaitInv, ToldInv

LEMMA StepInv ==
    IInv /\ Orderly /\ OneWaits /\ OneWaits' /\ [Next]_vars /\ [~FlushFails]_vars => IInv'
<1> SUFFICES ASSUME IInv, Orderly, OneWaits, OneWaits', [Next]_vars, [~FlushFails]_vars
             PROVE  IInv'
  OBVIOUS
<1>1. CASE UNCHANGED vars
  <2>1. Base'
    BY <1>1, TypeStep DEF vars, IInv, Base, QueueInv, RevertInv, BatchInv, TypeInv
  <2>2. WaitInv'
    BY <1>1 DEF vars, IInv, WaitInv, Queued, Binding, Written, LastRequest, Unread, Done, Lawful
  <2>3. ToldInv'
    BY <1>1 DEF vars, IInv, ToldInv, Surviving, Binding, Written, LastRequest, Unread, Done,
                Lawful, Live
  <2> QED
    BY <2>1, <2>2, <2>3 DEF IInv
<1>2. ASSUME NEW o \in Observations, Observe(o) PROVE IInv'
  BY <1>2, BaseObserve, AnswerObserve DEF IInv
<1>3. ASSUME NEW a \in Admins, NEW action \in Actions, Ask(a, action) PROVE IInv'
  BY <1>3, BaseAsk, AnswerAsk DEF IInv
<1>4. CASE Flush
  BY <1>4, BaseFlush, AnswerFlush DEF IInv
<1>5. CASE FlushFails
  BY <1>5, <1>1
<1>6. ASSUME NEW a \in Admins, Acknowledge(a) PROVE IInv'
  BY <1>6, BaseAcknowledge, AnswerAcknowledge DEF IInv
<1>7. CASE Restart
  BY <1>7, BaseRestart, AnswerRestart DEF IInv
<1>8. CASE Start
  BY <1>8, BaseStart, AnswerStart DEF IInv
<1>9. CASE Fold
  BY <1>9, BaseFold, AnswerFold DEF IInv
<1>10. CASE Commit
  BY <1>10, BaseRest, AnswerCommit DEF IInv
<1>11. CASE Prune \/ SaveState \/ Abort
  BY <1>11, BaseRest, AnswerEnd DEF IInv
<1>12. CASE NewDay
  BY <1>12, BaseNewDay, AnswerNewDay DEF IInv
<1> QED
  BY <1>1, <1>2, <1>3, <1>4, <1>5, <1>6, <1>7, <1>8, <1>9, <1>10, <1>11, <1>12 DEF Next

\* Records only come behind those that are there.
LEMMA OrderlyBefore ==
    ASSUME TypeInv, [Next]_vars, Orderly'
    PROVE  Orderly
<1>1. CASE Flush
  <2>1. /\ Len(journal') = Len(journal) + Len(queue)
        /\ \A i \in 1..Len(journal) : journal'[i] = journal[i]
    BY <1>1, Flushed DEF TypeInv
  <2>2. Len(journal) \in Nat /\ Len(queue) \in Nat
    BY Wellformed
  <2> QED
    BY <2>1, <2>2 DEF Orderly, SortsAfter
<1>2. CASE UNCHANGED journal
  BY <1>2 DEF Orderly, SortsAfter
<1>3. Flush \/ UNCHANGED journal
  BY DEF Next, vars, Observe, Ask, FlushFails, Acknowledge, Restart, Start, Fold, Commit, Prune,
         SaveState, Abort, NewDay
<1> QED
  BY <1>1, <1>2, <1>3

\* The types hold always, the rest as long as the journal is orderly.
OrderlyInv == TypeInv /\ (Orderly => IInv)

LEMMA OrderlyStep ==
    OrderlyInv /\ OneWaits /\ OneWaits' /\ [Next]_vars /\ [~FlushFails]_vars => OrderlyInv'
  BY TypeStep, OrderlyBefore, StepInv DEF OrderlyInv

\* What the gateway shows of a fact whose latest request no later run has lost:
\* the request is in the files and counts, or the entry says the same.
LEMMA ShownAs ==
    ASSUME TypeInv, Orderly, NEW action \in {"pin", "revert"}, NEW day, NEW k,
           Written(action, day, k)
    PROVE  /\ entry \in Entry /\ entry # Absent
           /\ \/ Pending = action /\ (action = "pin" => entry.status # "reverted")
              \/ Pending = None /\ Done(entry, action, day)
<1>1. /\ Len(journal) \in Nat /\ pruned \in Nat /\ entry \in Entry \cup {Absent}
      /\ LastRequest(k) /\ k \in 1..Len(journal)
      /\ journal[k].action = action /\ journal[k].type = "admin"
      /\ \A i \in 1..Len(journal) : i > k => journal[i].type # "admin"
      /\ Done(entry, action, day) \/ (Lawful(entry) /\ Unread(k))
  BY Wellformed DEF Written, LastRequest, IsAdmin, TypeInv, TypeOK
<1>2. entry # Absent /\ (action = "pin" => entry.status # "reverted")
  BY <1>1 DEF Done, Lawful
<1>3. CASE k > pruned
  <2>1. k \in Requests /\ \A i \in Requests : i <= k
    BY <1>1, <1>3 DEF Requests
  <2> QED
    BY <1>1, <1>2, <2>1, PendingIs
<1>4. CASE k <= pruned
  <2>1. Requests = {}
    BY <1>1, <1>4 DEF Requests
  <2>2. ~Unread(k)
    BY <1>1, <1>4 DEF Unread
  <2> QED
    BY <1>1, <1>2, <2>1, <2>2 DEF Pending, Latest
<1> QED
  BY <1>1, <1>3, <1>4

LEMMA InvReverts == OrderlyInv => RevertIsFinal
<1> SUFFICES ASSUME IInv, Orderly, told # None, told.action = "revert", told.live,
                    today < told.day + Ttl
             PROVE  ~Served
  BY DEF OrderlyInv, RevertIsFinal, RevertStands
<1>1. PICK k \in 1..Len(journal) : Written("revert", told.day, k)
  BY DEF IInv, ToldInv, Binding
<1>2. Pending = "revert" \/ (Pending = None /\ entry.status = "reverted")
  BY <1>1, ShownAs DEF IInv, Base, Done
<1>3. entry # Absent
  BY <1>1, ShownAs DEF IInv, Base
<1>4. CASE Pending = "revert"
  <2>1. Shown = Absent
    BY <1>3, <1>4, SentinelAssumption DEF Shown, WithPending, AdminActions
  <2> QED
    BY <2>1 DEF Served, Visible
<1>5. CASE Pending = None /\ entry.status = "reverted"
  <2>1. Shown = entry
    BY <1>5, SentinelAssumption DEF Shown, WithPending, AdminActions
  <2> QED
    BY <1>5, <2>1 DEF Served
<1> QED
  BY <1>2, <1>4, <1>5

LEMMA InvPins == OrderlyInv => PinIsKept
<1> SUFFICES ASSUME IInv, Orderly, told # None, told.action = "pin", told.live
             PROVE  Served /\ Shown.pinned
  BY DEF OrderlyInv, PinIsKept, PinStands
<1>1. PICK k \in 1..Len(journal) : Written("pin", told.day, k)
  BY DEF IInv, ToldInv, Binding
<1>2. entry \in Entry /\ entry # Absent
  BY <1>1, ShownAs DEF IInv, Base
<1>3. \/ Pending = "pin" /\ entry.status # "reverted"
      \/ Pending = None /\ entry.pinned /\ entry.status = "active"
  BY <1>1, ShownAs DEF IInv, Base, Done
<1>4. Shown \in Entry /\ Shown.pinned /\ Shown.status = "active"
  <2>1. CASE Pending = "pin" /\ entry.status # "reverted"
    <3>1. Shown = Pinned(entry)
      BY <1>2, <2>1, SentinelAssumption DEF Shown, WithPending, AdminActions
    <3>2. Pinned(entry) \in Entry /\ Pinned(entry).pinned /\ Pinned(entry).status = "active"
      BY <1>2 DEF Pinned, Entry, Statuses
    <3> QED
      BY <3>1, <3>2
  <2>2. CASE Pending = None /\ entry.pinned /\ entry.status = "active"
    <3>1. Shown = entry
      BY <2>2, SentinelAssumption DEF Shown, WithPending, AdminActions
    <3> QED
      BY <1>2, <2>2, <3>1
  <2> QED
    BY <1>3, <2>1, <2>2
<1> QED
  BY <1>4, SentinelAssumption DEF Served, Visible, Live

\* A fact that an administrator was told is retired is not served again before
\* its tombstone can have expired, whatever is observed, however runs of the
\* learner, their crashes, sweeps and prunings, flushes and restarts of the
\* gateway interleave, for every set of administrators who ask one after another
\* (revert_learned; run and prune_journal in learner.py), while the requests of
\* one second sort as they were made.  Otherwise it is false: see LearnerSameSecond.cfg; and
\* when a batch of records is lost: see LearnerLostRequest.cfg.
THEOREM RevertsHold ==
    Spec /\ []OneWaits /\ [][~FlushFails]_vars => []RevertIsFinal
<1>1. Init => OrderlyInv
  BY InitInv DEF OrderlyInv, IInv, Base
<1>2. OrderlyInv /\ OneWaits /\ OneWaits' /\ [Next]_vars /\ [~FlushFails]_vars => OrderlyInv'
  BY OrderlyStep
<1>3. OrderlyInv => RevertIsFinal
  BY InvReverts
<1> QED
  BY <1>1, <1>2, <1>3, PTL DEF Spec

\* ... and one that he was told is pinned is served as pinned until the next
\* request, under the same conditions (revert_learned with action "pin", sweep,
\* apply_observation).
THEOREM PinsHold ==
    Spec /\ []OneWaits /\ [][~FlushFails]_vars => []PinIsKept
<1>1. Init => OrderlyInv
  BY InitInv DEF OrderlyInv, IInv, Base
<1>2. OrderlyInv /\ OneWaits /\ OneWaits' /\ [Next]_vars /\ [~FlushFails]_vars => OrderlyInv'
  BY OrderlyStep
<1>3. OrderlyInv => PinIsKept
  BY InvPins
<1> QED
  BY <1>1, <1>2, <1>3, PTL DEF Spec

(***************************************************************************)
(* Counts                                                                  *)
(***************************************************************************)

\* The observations up to record n since the last that speaks against v, and
\* the engagements they come from.
Streak(v, n) ==
    {i \in 1..n : /\ journal[i].type = "observation"
                  /\ \A j \in 1..n : (j >= i /\ journal[j].type = "observation") =>
                                        journal[j].seen.value = v}

Voices(v, n) == {journal[i].seen.engagement : i \in Streak(v, n)} \ {None}

\* What an entry counts, record n and those before it show.
Counted(e, n) ==
    e # Absent =>
        /\ ~e.pinned
        /\ e.status # "reverted" =>
              /\ e.streak <= Cardinality(Streak(e.value, n))
              /\ e.tags \subseteq Voices(e.value, n)
              /\ e.status = "active" =>
                    /\ Streak(e.value, n) # {}
                    /\ e.disputed => Cardinality(Streak(e.value, n)) >= PromoteStreak
              /\ e.verified =>
                    /\ Cardinality(Streak(e.value, n)) >= MinConfirmations
                    /\ Cardinality(Voices(e.value, n)) >= MinEngagements

\* The records behind the stored entry.
Consumed == IF run.phase \in {"committed", "pruned"} THEN run.end ELSE offset

CountInv ==
    /\ TypeInv
    /\ run.phase # "pruned" => pruned <= offset
    /\ Counted(entry, Consumed)
    /\ run.phase = "folding" => Counted(run.batch, run.next)

\* No administrator pins.
NoPins == Actions \subseteq {"revert", "unpin"}

LEMMA StreakFinite ==
    ASSUME NEW v, NEW n \in Nat
    PROVE  /\ IsFiniteSet(Streak(v, n)) /\ Cardinality(Streak(v, n)) \in Nat
           /\ IsFiniteSet(Voices(v, n)) /\ Cardinality(Voices(v, n)) \in Nat
<1>1. IsFiniteSet(1..n)
  <2>1. 1 \in Int /\ n \in Int
    OBVIOUS
  <2> QED
    BY <2>1, FS_Interval, Zenon
<1>2. Streak(v, n) \subseteq 1..n
  BY DEF Streak
<1>3. IsFiniteSet(Streak(v, n))
  BY <1>1, <1>2, FS_Subset
<1> DEFINE T == {journal[i].seen.engagement : i \in Streak(v, n)}
           f == [i \in Streak(v, n) |-> journal[i].seen.engagement]
<1>4. f \in Surjection(Streak(v, n), T)
  BY DEF Surjection
<1>5. IsFiniteSet(T)
  BY <1>3, <1>4, FS_Surjection
<1>6. IsFiniteSet(Voices(v, n))
  BY <1>5, FS_RemoveElement DEF Voices
<1> QED
  BY <1>3, <1>6, FS_CardinalityType

\* A request counts for nothing.
LEMMA StreakRequest ==
    ASSUME NEW v, NEW n \in Nat, journal[n + 1].type # "observation"
    PROVE  Streak(v, n + 1) = Streak(v, n) /\ Voices(v, n + 1) = Voices(v, n)
<1>1. Streak(v, n + 1) \subseteq Streak(v, n)
  <2> SUFFICES ASSUME NEW i \in Streak(v, n + 1) PROVE i \in Streak(v, n)
    OBVIOUS
  <2>1. i \in 1..n + 1 /\ i # n + 1
    BY DEF Streak
  <2>2. i \in 1..n /\ 1..n \subseteq 1..n + 1
    BY <2>1
  <2> QED
    BY <2>2 DEF Streak
<1>2. Streak(v, n) \subseteq Streak(v, n + 1)
  <2> SUFFICES ASSUME NEW i \in Streak(v, n),
                      NEW j \in 1..n + 1, j >= i, journal[j].type = "observation"
               PROVE  journal[j].seen.value = v
    BY DEF Streak
  <2>1. j # n + 1
    OBVIOUS
  <2>2. j \in 1..n
    BY <2>1
  <2> QED
    BY <2>2 DEF Streak
<1> QED
  BY <1>1, <1>2 DEF Voices

\* An observation that agrees adds one.
LEMMA StreakGrows ==
    ASSUME NEW v, NEW n \in Nat,
           journal[n + 1].type = "observation", journal[n + 1].seen.value = v
    PROVE  /\ Cardinality(Streak(v, n + 1)) = Cardinality(Streak(v, n)) + 1
           /\ Streak(v, n + 1) # {}
           /\ Voices(v, n + 1) = Voices(v, n) \cup ({journal[n + 1].seen.engagement} \ {None})
           /\ Cardinality(Voices(v, n + 1)) >= Cardinality(Voices(v, n))
<1>1. 1..n + 1 = (1..n) \cup {n + 1} /\ n + 1 \notin 1..n /\ \A i \in 1..n : n + 1 >= i
  OBVIOUS
<1>2. n + 1 \in Streak(v, n + 1)
  <2>1. \A j \in 1..n + 1 : j >= n + 1 => j = n + 1
    OBVIOUS
  <2> QED
    BY <1>1, <2>1 DEF Streak
<1>3. \A i \in 1..n : i \in Streak(v, n + 1) <=> i \in Streak(v, n)
  BY <1>1 DEF Streak
<1>4. Streak(v, n) \subseteq 1..n /\ Streak(v, n + 1) \subseteq 1..n + 1
  BY DEF Streak
<1>5. Streak(v, n + 1) = Streak(v, n) \cup {n + 1} /\ n + 1 \notin Streak(v, n)
  BY <1>1, <1>2, <1>3, <1>4
<1>6. Cardinality(Streak(v, n + 1)) = Cardinality(Streak(v, n)) + 1
  BY <1>5, StreakFinite, FS_AddElement
<1>7. Voices(v, n + 1) = Voices(v, n) \cup ({journal[n + 1].seen.engagement} \ {None})
  BY <1>5 DEF Voices
<1>8. Cardinality(Voices(v, n + 1)) >= Cardinality(Voices(v, n))
  <2>1. n + 1 \in Nat /\ Voices(v, n) \subseteq Voices(v, n + 1)
    BY <1>7
  <2>2. /\ IsFiniteSet(Voices(v, n + 1)) /\ Cardinality(Voices(v, n + 1)) \in Nat
        /\ Cardinality(Voices(v, n)) \in Nat
    BY <2>1, StreakFinite
  <2>3. Cardinality(Voices(v, n)) <= Cardinality(Voices(v, n + 1))
    BY <2>1, <2>2, FS_Subset
  <2> QED
    BY <2>2, <2>3
<1> QED
  BY <1>2, <1>6, <1>7, <1>8

\* What a confirmation changes in the counts.
LEMMA ConfirmCounts ==
    ASSUME NEW e \in Entry, NEW o \in Observation, NEW d \in Nat, e.status # "reverted",
           o.value = e.value
    PROVE  LET f == Observed(e, o, d)
           IN  /\ f.streak = e.streak + 1 /\ f.value = e.value /\ f.disputed = e.disputed
               /\ f.tags = e.tags \cup ({o.engagement} \ {None})
               /\ f.status = "active" => e.status = "active" \/ f.streak >= PromoteStreak
               /\ f.verified => e.verified \/ (/\ f.streak >= MinConfirmations
                                               /\ Cardinality(f.tags) >= MinEngagements)
<1> DEFINE x == d + Ttl
           w == e.tags \cup ({o.engagement} \ {None})
           y == IF e.window = None THEN d ELSE e.window
           t == Touch(e, d)
           n == NoteEngagement(t, o, d)
           m == e.streak + 1
           s == [n EXCEPT !.streak = @ + 1]
           p == Promoted(s)
           f == Observed(e, o, d)
<1>1. x \in Nat /\ m \in Nat /\ w \subseteq Engagements /\ y \in Nat
  BY ThresholdAssumption DEF Entry, Observation
<1>2. f = MaybeVerify(p, d)
  BY DEF Observed, Confirm
<1>3. t = [e EXCEPT !.expires = x]
  BY DEF Touch
<1>4. t \in Entry /\ t.tags = e.tags /\ t.window = e.window /\ t.streak = e.streak
      /\ t.value = e.value /\ t.disputed = e.disputed /\ t.status = e.status
      /\ t.verified = e.verified
  <2> HIDE DEF x, t
  <2> QED
    BY <1>1, <1>3, Zenon DEF Entry
<1>5. n = [t EXCEPT !.window = y, !.tags = w]
  <2> HIDE DEF t
  <2> QED
    BY <1>4 DEF NoteEngagement, Entry
<1> HIDE DEF t
<1>6. n \in Entry /\ n.tags = w /\ n.streak = e.streak
      /\ n.value = e.value /\ n.disputed = e.disputed /\ n.status = e.status
      /\ n.verified = e.verified
  <2> HIDE DEF n, y, w
  <2> QED
    BY <1>1, <1>4, <1>5 DEF Entry
<1> HIDE DEF n
<1>7. s = [n EXCEPT !.streak = m]
  BY <1>6 DEF Entry
<1>8. s \in Entry /\ s.tags = w /\ s.streak = m
      /\ s.value = e.value /\ s.disputed = e.disputed /\ s.status = e.status
      /\ s.verified = e.verified
  <2> HIDE DEF s, m, w
  <2> QED
    BY <1>1, <1>6, <1>7 DEF Entry
<1> HIDE DEF s
<1>9. p \in Entry /\ p.tags = w /\ p.streak = m
      /\ p.value = e.value /\ p.disputed = e.disputed
      /\ (p.status = "active" => e.status = "active" \/ m >= PromoteStreak)
      /\ p.verified = e.verified
  <2> HIDE DEF m, w
  <2> QED
    BY <1>8 DEF Promoted, Entry, Statuses
<1> HIDE DEF p
<1>10. f.tags = w /\ f.streak = m
      /\ f.value = e.value /\ f.disputed = e.disputed /\ f.status = p.status
      /\ f.verified = (p.verified \/ Verifies(p, d))
  <2>1. (p.verified \/ Verifies(p, d)) \in BOOLEAN
    BY <1>9 DEF Entry, Verifies
  <2> HIDE DEF f, m, w
  <2> QED
    BY <1>2, <1>9, <2>1 DEF MaybeVerify, Entry
<1>11. Verifies(p, d) => m >= MinConfirmations /\ Cardinality(w) >= MinEngagements
  BY <1>9 DEF Verifies
<1> HIDE DEF f
<1> QED
  BY <1>9, <1>10, <1>11 DEF f

LEMMA ContradictCounts ==
    ASSUME NEW e \in Entry, NEW o \in Observation, NEW d \in Nat, e.status # "reverted",
           o.value # e.value, ~e.pinned
    PROVE  LET f == Observed(e, o, d)
           IN  f.streak = 0 /\ f.status = "demoted" /\ f.tags = {} /\ ~f.verified
<1> DEFINE t == Touch(e, d)
           v == IF o.value = None THEN t.value ELSE o.value
<1>1. t \in Entry /\ ~t.pinned
  BY ThresholdAssumption DEF Touch, Entry
<1>2. Observed(e, o, d) = Contradict(t, o)
  BY DEF Observed
<1> HIDE DEF t
<1>3. Contradict(t, o) =
         [t EXCEPT !.disputed = TRUE, !.streak = 0, !.status = "demoted",
                   !.verified = FALSE, !.tags = {}, !.window = None, !.value = v]
  BY <1>1 DEF Contradict, Entry
<1> HIDE DEF v
<1> QED
  BY <1>1, <1>2, <1>3 DEF Entry

LEMMA LearnedCounts ==
    ASSUME NEW o \in Observation, o.effect # "contradict", NEW d \in Nat
    PROVE  LET f == Learned(o, d)
           IN  /\ f.streak = 1 /\ f.value = o.value /\ ~f.disputed /\ ~f.pinned
               /\ f.tags = {o.engagement} \ {None}
               /\ f.verified => 1 >= MinConfirmations /\ Cardinality(f.tags) >= MinEngagements
<1> DEFINE x == d + Ttl
           e == [status |-> "active", value |-> o.value, pinned |-> FALSE, streak |-> 1,
                 disputed |-> FALSE, tags |-> {}, window |-> None, verified |-> FALSE,
                 expires |-> x]
           n == NoteEngagement(e, o, d)
           w == {o.engagement} \ {None}
           f == Learned(o, d)
<1>1. o.value \in Values /\ x \in Nat /\ w \subseteq Engagements
  BY ThresholdAssumption DEF Observation
<1> HIDE DEF x
<1>2. /\ e \in Entry /\ e.streak = 1 /\ e.value = o.value /\ e.disputed = FALSE
      /\ e.pinned = FALSE /\ e.tags = {} /\ e.verified = FALSE /\ e.window = None
  BY <1>1 DEF Entry, Statuses
<1>3. f = MaybeVerify(n, d)
  BY DEF Learned, x
<1> HIDE DEF e
<1>4. /\ n \in Entry /\ n.streak = 1 /\ n.value = o.value /\ n.disputed = FALSE
      /\ n.pinned = FALSE /\ n.tags = w /\ n.verified = FALSE
  BY <1>1, <1>2 DEF NoteEngagement, Entry
<1> HIDE DEF n, w
<1>5. (n.verified \/ Verifies(n, d)) \in BOOLEAN
  BY <1>4 DEF Entry, Verifies
<1>6. /\ f.streak = 1 /\ f.value = o.value /\ f.disputed = FALSE
      /\ f.pinned = FALSE /\ f.tags = w /\ f.verified = (n.verified \/ Verifies(n, d))
  <2> HIDE DEF f
  <2> QED
    BY <1>3, <1>4, <1>5 DEF MaybeVerify, Entry
<1>7. Verifies(n, d) => 1 >= MinConfirmations /\ Cardinality(w) >= MinEngagements
  BY <1>4 DEF Verifies
<1> HIDE DEF f
<1> QED
  BY <1>4, <1>6, <1>7 DEF f, w

\* One record keeps the counts covered.
LEMMA FoldCounts ==
    ASSUME NoPins, NEW e \in Entry \cup {Absent}, NEW n \in Nat, Counted(e, n),
           journal[n + 1] \in Stamped, NEW full \in BOOLEAN, run.day \in Nat
    PROVE  Counted(FoldedBy(e, journal[n + 1], full), n + 1)
<1> USE SentinelAssumption
<1> DEFINE r == journal[n + 1]
           o == r.seen
           f == FoldedBy(e, r, full)
<1> SUFFICES Counted(f, n + 1)
  OBVIOUS
<1>1. CASE r.type = "admin"
  <2>1. r.action \in {"revert", "unpin"}
    BY <1>1 DEF Stamped, NoPins
  <2>2. f = ApplyAdmin(e, r.action, run.day)
    BY <1>1 DEF FoldedBy
  <2>3. \A v : Streak(v, n + 1) = Streak(v, n) /\ Voices(v, n + 1) = Voices(v, n)
    BY <1>1, StreakRequest
  <2>4. CASE f = e
    <3> HIDE DEF f
    <3> QED
      BY <2>3, <2>4 DEF Counted
  <2>5. CASE e # Absent /\ e.status # "reverted" /\ r.action = "revert"
    <3>1. f = Reverted(e, run.day) /\ e \in Entry
      BY <2>2, <2>5 DEF ApplyAdmin
    <3>2. f.status = "reverted"
      BY <3>1, RevertedType
    <3>3. f.pinned = FALSE
      BY <3>1 DEF Reverted, Entry
    <3> HIDE DEF f
    <3> QED
      BY <3>2, <3>3 DEF Counted
  <2>6. ASSUME e # Absent, e.status # "reverted", r.action = "unpin"
        PROVE  f = e
    <3>1. ~e.pinned
      BY <2>6 DEF Counted
    <3> QED
      BY <2>2, <2>6, <3>1 DEF ApplyAdmin, Unpinned
  <2>7. ASSUME e = Absent \/ e.status = "reverted" PROVE f = e
    BY <2>2, <2>7 DEF ApplyAdmin
  <2> QED
    BY <2>1, <2>4, <2>5, <2>6, <2>7
<1>2. CASE r.type # "admin" /\ e = Absent
  <2>1. r.type = "observation" /\ o \in Observation
    BY <1>2, LearnerAssumption DEF Stamped
  <2>2. f = IF o.effect = "contradict" \/ full THEN Absent ELSE Learned(o, run.day)
    BY <1>2 DEF FoldedBy, ApplyObservation
  <2>3. CASE o.effect = "contradict" \/ full
    BY <2>2, <2>3 DEF Counted
  <2>4. CASE ~(o.effect = "contradict" \/ full)
    <3>1. f = Learned(o, run.day)
      BY <2>2, <2>4
    <3>2. /\ f.streak = 1 /\ f.value = o.value /\ ~f.disputed /\ ~f.pinned
          /\ f.tags = {o.engagement} \ {None}
          /\ f.verified => 1 >= MinConfirmations /\ Cardinality(f.tags) >= MinEngagements
      BY <2>1, <2>4, <3>1, LearnedCounts
    <3> HIDE DEF f
    <3> DEFINE C == Cardinality(Streak(f.value, n + 1))
               V == Voices(f.value, n + 1)
    <3>3. /\ C = Cardinality(Streak(f.value, n)) + 1 /\ Streak(f.value, n + 1) # {}
          /\ f.tags \subseteq V
      <4>1. journal[n + 1].type = "observation" /\ journal[n + 1].seen.value = f.value
        BY <2>1, <3>2
      <4>2. /\ Cardinality(Streak(f.value, n + 1)) = Cardinality(Streak(f.value, n)) + 1
            /\ Streak(f.value, n + 1) # {}
            /\ V = Voices(f.value, n) \cup ({o.engagement} \ {None})
        BY <4>1, StreakGrows
      <4> QED
        BY <3>2, <4>2
    <3>4. Cardinality(Streak(f.value, n)) \in Nat /\ IsFiniteSet(V) /\ Cardinality(V) \in Nat
      BY StreakFinite
    <3>5. Cardinality(f.tags) <= Cardinality(V) /\ Cardinality(f.tags) \in Nat
      BY <3>3, <3>4, FS_Subset, FS_CardinalityType
    <3>6. f.verified => C >= MinConfirmations /\ Cardinality(V) >= MinEngagements
      BY <3>2, <3>3, <3>4, <3>5, ThresholdAssumption
    <3>7. f.streak <= C
      BY <3>2, <3>3, <3>4
    <3> QED
      BY <3>2, <3>3, <3>6, <3>7 DEF Counted
  <2> QED
    BY <2>3, <2>4
<1>3. CASE r.type # "admin" /\ e # Absent
  <2>1. r.type = "observation" /\ o \in Observation /\ e \in Entry
    BY <1>3, LearnerAssumption DEF Stamped
  <2>2. f = Observed(e, o, run.day)
    BY <1>3 DEF FoldedBy, ApplyObservation
  <2> HIDE DEF f
  <2>3. f.pinned = e.pinned /\ ~e.pinned
    BY <1>3, <2>1, <2>2, ObservedType DEF Counted
  <2>4. CASE e.status = "reverted"
    <3>1. f = e
      BY <2>2, <2>4 DEF Observed
    <3> HIDE DEF f
    <3> QED
      BY <2>3, <2>4, <3>1 DEF Counted
  <2>5. CASE e.status # "reverted" /\ o.value # e.value
    <3>1. f.streak = 0 /\ f.status = "demoted" /\ f.tags = {} /\ ~f.verified
      <4> HIDE DEF o
      <4>1. ~e.pinned
        BY <2>3
      <4> QED
        BY <2>1, <2>2, <2>5, <4>1, ContradictCounts
    <3> HIDE DEF f
    <3>2. Cardinality(Streak(f.value, n + 1)) \in Nat
      BY StreakFinite
    <3> QED
      BY <2>3, <3>1, <3>2 DEF Counted
  <2>6. CASE e.status # "reverted" /\ o.value = e.value
    <3>1. /\ f.streak = e.streak + 1 /\ f.value = e.value /\ f.disputed = e.disputed
          /\ f.tags = e.tags \cup ({o.engagement} \ {None})
          /\ f.status = "active" => e.status = "active" \/ f.streak >= PromoteStreak
          /\ f.verified => e.verified \/ (/\ f.streak >= MinConfirmations
                                          /\ Cardinality(f.tags) >= MinEngagements)
      BY <2>1, <2>2, <2>6, ConfirmCounts
    <3> HIDE DEF f
    <3> DEFINE B == Cardinality(Streak(e.value, n))
               C == Cardinality(Streak(e.value, n + 1))
               U == Voices(e.value, n)
               V == Voices(e.value, n + 1)
    <3>2. /\ C = B + 1 /\ Streak(e.value, n + 1) # {}
          /\ V = U \cup ({o.engagement} \ {None}) /\ Cardinality(V) >= Cardinality(U)
      BY <2>1, <2>6, StreakGrows
    <3>3. /\ B \in Nat /\ Cardinality(U) \in Nat
          /\ IsFiniteSet(V) /\ Cardinality(V) \in Nat
      BY StreakFinite
    <3>4. /\ e.streak <= B /\ e.tags \subseteq U
          /\ e.status = "active" /\ e.disputed => B >= PromoteStreak
          /\ e.verified => B >= MinConfirmations /\ Cardinality(U) >= MinEngagements
      BY <1>3, <2>6 DEF Counted
    <3>5. f.tags \subseteq V
      BY <3>1, <3>2, <3>4
    <3>6. Cardinality(f.tags) <= Cardinality(V) /\ Cardinality(f.tags) \in Nat
      BY <3>3, <3>5, FS_Subset, FS_CardinalityType
    <3>7. e.streak \in Nat
      BY <2>1 DEF Entry
    <3> HIDE DEF B, C, U, V
    <3>8. f.streak <= C
      BY <3>1, <3>2, <3>3, <3>4, <3>7
    <3>9. f.verified => C >= MinConfirmations /\ Cardinality(V) >= MinEngagements
      BY <3>1, <3>2, <3>3, <3>4, <3>6, <3>7, ThresholdAssumption
    <3>10. f.status = "active" /\ f.disputed => C >= PromoteStreak
      BY <3>1, <3>2, <3>3, <3>4, <3>7, ThresholdAssumption
    <3> QED
      BY <2>3, <3>1, <3>2, <3>5, <3>8, <3>9, <3>10 DEF Counted, C, V
  <2> QED
    BY <2>4, <2>5, <2>6
<1> QED
  BY <1>1, <1>2, <1>3

\* A record that is appended later changes no count.
LEMMA StreakStays ==
    ASSUME NEW n \in Nat, \A i \in 1..n : journal'[i] = journal[i]
    PROVE  \A v : Streak(v, n)' = Streak(v, n) /\ Voices(v, n)' = Voices(v, n)
<1>1. \A v : Streak(v, n)' = Streak(v, n)
  BY DEF Streak
<1>2. ASSUME NEW v PROVE Voices(v, n)' = Voices(v, n)
  <2>1. Streak(v, n) \subseteq 1..n
    BY DEF Streak
  <2>2. \A i \in Streak(v, n) : journal'[i] = journal[i]
    BY <2>1
  <2>3. Voices(v, n)' = {journal'[i].seen.engagement : i \in Streak(v, n)} \ {None}
    BY <1>1 DEF Voices
  <2> QED
    BY <2>2, <2>3 DEF Voices
<1> QED
  BY <1>1, <1>2

LEMMA CountInit == Init => CountInv
<1> SUFFICES ASSUME Init PROVE CountInv
  OBVIOUS
<1>1. entry = Absent /\ run.phase = "idle" /\ pruned = 0 /\ offset = 0
  BY DEF Init, Idle
<1> QED
  BY <1>1, TypeInit DEF CountInv, Counted

\* What the gateway and the calendar do changes neither counts nor files.
LEMMA CountGateway ==
    ASSUME CountInv, TypeInv', UNCHANGED <<pruned, entry, offset, run>>,
           \A i \in 1..Len(journal) : journal'[i] = journal[i]
    PROVE  CountInv'
<1>1. /\ run.next \in Nat /\ run.end \in Nat /\ offset \in Nat /\ Len(journal) \in Nat
      /\ run.next <= run.end /\ run.end <= Len(journal) /\ offset <= Len(journal)
  BY Wellformed DEF CountInv
<1>2. Consumed \in Nat /\ Consumed <= Len(journal) /\ Consumed' = Consumed
  BY <1>1 DEF Consumed
<1>3. ASSUME NEW n \in Nat, n <= Len(journal)
      PROVE  \A v : Streak(v, n)' = Streak(v, n) /\ Voices(v, n)' = Voices(v, n)
  <2>1. \A i \in 1..n : journal'[i] = journal[i]
    BY <1>1, <1>3
  <2> QED
    BY <2>1, StreakStays
<1>4. Counted(entry, Consumed)'
  <2>1. Counted(entry, Consumed)
    BY DEF CountInv
  <2>2. \A v : /\ Streak(v, Consumed)' = Streak(v, Consumed)
               /\ Voices(v, Consumed)' = Voices(v, Consumed)
    BY <1>2, <1>3
  <2> QED
    BY <1>2, <2>1, <2>2 DEF Counted
<1>5. ASSUME run.phase = "folding" PROVE Counted(run.batch, run.next)'
  <2>1. Counted(run.batch, run.next)
    BY <1>5 DEF CountInv
  <2>2. \A v : /\ Streak(v, run.next)' = Streak(v, run.next)
               /\ Voices(v, run.next)' = Voices(v, run.next)
    BY <1>1, <1>3
  <2> QED
    BY <2>1, <2>2 DEF Counted
<1> QED
  BY <1>4, <1>5 DEF CountInv

LEMMA CountStart == ASSUME CountInv, Start PROVE CountInv'
<1>1. TypeInv /\ TypeInv'
  BY TypeStart DEF CountInv
<1>2. /\ UNCHANGED <<journal, pruned, entry, offset>> /\ run.phase = "idle"
      /\ run'.phase = "folding" /\ run'.batch = entry /\ run'.next = Larger(offset, pruned)
  BY DEF Start
<1>3. Larger(offset, pruned) = offset
  BY <1>1, <1>2, Wellformed DEF CountInv, Larger
<1>4. Consumed = offset /\ Consumed' = offset
  BY <1>2 DEF Consumed
<1>5. Counted(entry, offset)
  BY <1>4 DEF CountInv
<1>6. \A e, n : Counted(e, n) => Counted(e, n)'
  BY <1>2 DEF Counted, Streak, Voices
<1>7. Counted(entry', Consumed') /\ Counted(run'.batch, run'.next)
  BY <1>2, <1>3, <1>4, <1>5
<1> QED
  BY <1>1, <1>2, <1>6, <1>7 DEF CountInv, Counted, Streak, Voices

LEMMA CountFold == ASSUME NoPins, CountInv, Fold PROVE CountInv'
<1>1. TypeInv /\ TypeInv'
  BY TypeFold DEF CountInv
<1>2. UNCHANGED <<journal, pruned, entry, offset>>
  BY DEF Fold
<1>3. /\ run.phase = "folding" /\ run'.phase = "folding" /\ run'.next = run.next + 1
      /\ run'.end = run.end /\ journal[run.next + 1] \in Stamped
  BY <1>1, FoldStep
<1>4. PICK full \in BOOLEAN : run'.batch = FoldedBy(run.batch, journal[run.next + 1], full)
  BY <1>1, <1>3, FoldStep
<1>5. run.next \in Nat /\ run.day \in Nat /\ run.batch \in Entry \cup {Absent}
  BY <1>1, Wellformed
<1>6. Counted(run'.batch, run'.next)
  BY <1>3, <1>4, <1>5, FoldCounts DEF CountInv
<1>7. Consumed' = Consumed
  BY <1>2, <1>3 DEF Consumed
<1>8. Counted(entry, Consumed)'
  <2>1. Counted(entry, Consumed)
    BY DEF CountInv
  <2> QED
    BY <1>2, <1>7, <2>1 DEF Counted, Streak, Voices
<1>9. Counted(run.batch, run.next)'
  <2> DEFINE b == run'.batch
             n == run'.next
  <2>1. Counted(b, n)
    BY <1>6
  <2> QED
    BY <1>2, <2>1 DEF Counted, Streak, Voices
<1> QED
  BY <1>1, <1>2, <1>3, <1>8, <1>9 DEF CountInv

\* What a run writes and what it saves are of one point of the journal.
LEMMA CountRest ==
    ASSUME CountInv, Commit \/ Prune \/ SaveState PROVE CountInv'
<1>1. TypeInv /\ TypeInv'
  BY TypeCommit, TypePrune, TypeSaveState DEF CountInv
<1>2. run.end \in Nat /\ pruned \in Nat /\ offset \in Nat /\ run \in Run
  BY <1>1, Wellformed DEF TypeInv, TypeOK
<1>3. CASE Commit
  <2>1. /\ run.phase = "folding" /\ run.next = run.end
        /\ run' = [run EXCEPT !.phase = "committed"]
        /\ entry' \in {run.batch, Sweep(run.batch, run.day)}
        /\ UNCHANGED <<journal, pruned, offset>>
    BY <1>3 DEF Commit
  <2>2. run'.phase = "committed" /\ run'.end = run.end
    BY <1>2, <2>1, PhaseMoved
  <2>3. Consumed' = run.next
    BY <2>1, <2>2 DEF Consumed
  <2>4. entry' = run.batch \/ entry' = Absent
    BY <2>1 DEF Sweep
  <2>5. Counted(entry', run.next)
    BY <2>1, <2>4 DEF CountInv, Counted
  <2> QED
    BY <1>1, <2>1, <2>2, <2>3, <2>5 DEF CountInv, Counted, Streak, Voices
<1>4. CASE Prune
  <2>1. /\ run.phase = "committed" /\ run' = [run EXCEPT !.phase = "pruned"]
        /\ UNCHANGED <<journal, entry, offset>>
    BY <1>4 DEF Prune
  <2>2. run'.phase = "pruned" /\ run'.end = run.end
    BY <1>2, <2>1, PhaseMoved
  <2>3. Consumed' = Consumed
    BY <2>1, <2>2 DEF Consumed
  <2> QED
    BY <1>1, <2>1, <2>2, <2>3 DEF CountInv, Counted, Streak, Voices
<1>5. CASE SaveState
  <2>1. /\ run.phase = "pruned" /\ run'.phase = "idle" /\ offset' = run.end
        /\ UNCHANGED <<journal, pruned, entry>>
    BY <1>5 DEF SaveState, Idle
  <2>2. Consumed' = Consumed
    BY <2>1 DEF Consumed
  <2>3. pruned <= run.end
    BY <1>1, <2>1 DEF TypeInv, BoundsInv
  <2> QED
    BY <1>1, <2>1, <2>2, <2>3 DEF CountInv, Counted, Streak, Voices
<1> QED
  BY <1>3, <1>4, <1>5

LEMMA CountStep ==
    ASSUME NoPins
    PROVE  CountInv /\ [Next]_vars /\ [~Abort]_vars => CountInv'
<1> SUFFICES ASSUME CountInv, [Next]_vars, [~Abort]_vars PROVE CountInv'
  OBVIOUS
<1>1. TypeInv /\ TypeInv'
  BY TypeStep DEF CountInv
<1>2. ASSUME UNCHANGED <<pruned, entry, offset, run, journal>> PROVE CountInv'
  BY <1>1, <1>2, CountGateway
<1>3. CASE Flush
  <2>1. \A i \in 1..Len(journal) : journal'[i] = journal[i]
    BY <1>1, <1>3, Flushed DEF TypeInv
  <2> QED
    BY <1>1, <1>3, <2>1, CountGateway DEF Flush
<1>4. CASE Start
  BY <1>4, CountStart
<1>5. CASE Fold
  BY <1>5, CountFold
<1>6. CASE Commit \/ Prune \/ SaveState
  BY <1>6, CountRest
<1>7. CASE Abort
  BY <1>7 DEF Abort, vars
<1>8. CASE \/ \E o \in Observations : Observe(o)
           \/ \E a \in Admins, action \in Actions : Ask(a, action)
           \/ FlushFails \/ (\E a \in Admins : Acknowledge(a)) \/ Restart \/ NewDay
           \/ UNCHANGED vars
  <2>1. UNCHANGED <<pruned, entry, offset, run, journal>>
    BY <1>8 DEF Observe, Ask, FlushFails, Acknowledge, Restart, NewDay, vars
  <2> QED
    BY <1>2, <2>1
<1> QED
  BY <1>3, <1>4, <1>5, <1>6, <1>7, <1>8 DEF Next

\* Nothing that is pending in the files makes a fact active or verified.
LEMMA ShownPlain ==
    ASSUME NoPins, CountInv, Served
    PROVE  /\ entry \in Entry /\ entry # Absent /\ entry.status = "active"
           /\ Shown.verified = entry.verified
<1>1. TypeInv /\ entry \in Entry \cup {Absent} /\ Shown # Absent /\ Shown.status = "active"
  BY DEF CountInv, TypeInv, TypeOK, Served, Visible
<1>2. Pending = None \/ Pending \in {"revert", "unpin"}
  <2>1. CASE Latest = {}
    BY <2>1 DEF Pending
  <2>2. CASE Latest # {}
    <3>1. PICK k \in Latest : Pending = journal[k].action
      BY <2>2 DEF Pending
    <3>2. journal[k] \in Stamped /\ journal[k].type = "admin"
      BY <1>1, Wellformed DEF Latest, Requests
    <3>3. journal[k].action \in Actions
      BY <3>2 DEF Stamped
    <3> QED
      BY <3>1, <3>3 DEF NoPins
  <2> QED
    BY <2>1, <2>2
<1>3. entry # Absent
  <2>1. entry = Absent => Shown = Absent
    BY DEF Shown, WithPending
  <2> QED
    BY <1>1, <2>1
<1>4. CASE Pending = None
  <2>1. Shown = entry
    BY <1>3, <1>4, SentinelAssumption DEF Shown, WithPending, AdminActions
  <2> QED
    BY <1>1, <1>3, <2>1
<1>5. CASE Pending = "revert"
  <2>1. Shown = Absent
    BY <1>3, <1>5, SentinelAssumption DEF Shown, WithPending, AdminActions
  <2> QED
    BY <1>1, <2>1
<1>6. CASE Pending = "unpin"
  <2>1. Shown = [entry EXCEPT !.pinned = FALSE]
    BY <1>3, <1>6, SentinelAssumption DEF Shown, WithPending, AdminActions
  <2>2. Shown.status = entry.status /\ Shown.verified = entry.verified
    BY <1>1, <1>3, <2>1 DEF Entry
  <2> QED
    BY <1>1, <1>3, <2>2
<1> QED
  BY <1>2, <1>4, <1>5, <1>6

LEMMA UnbrokenIs ==
    ASSUME TypeInv
    PROVE  /\ Unbroken = Streak(entry.value, Consumed)
           /\ {journal[i].seen.engagement : i \in Unbroken} \ {None}
                 = Voices(entry.value, Consumed)
<1>1. Consumed \in Nat
  BY Wellformed DEF Consumed
<1>2. Behind = {i \in 1..Consumed : journal[i].type = "observation"}
  BY DEF Behind, Consumed
<1>3. Unbroken = Streak(entry.value, Consumed)
  BY <1>1, <1>2 DEF Unbroken, Agrees, Streak
<1> QED
  BY <1>3 DEF Voices

LEMMA CountEarned == NoPins /\ CountInv => VerifiedIsEarned /\ ServedIsAgreed
<1> SUFFICES ASSUME NoPins, CountInv PROVE VerifiedIsEarned /\ ServedIsAgreed
  OBVIOUS
<1>1. ASSUME Served
      PROVE  /\ Unbroken # {}
             /\ entry.disputed => Cardinality(Unbroken) >= PromoteStreak
             /\ Shown.verified =>
                   /\ Cardinality(Unbroken) >= MinConfirmations
                   /\ Cardinality({journal[i].seen.engagement : i \in Unbroken} \ {None})
                         >= MinEngagements
  <2>1. /\ entry \in Entry /\ entry # Absent /\ entry.status = "active"
        /\ Shown.verified = entry.verified
    BY <1>1, ShownPlain
  <2>2. Counted(entry, Consumed) /\ TypeInv
    BY DEF CountInv
  <2> QED
    BY <2>1, <2>2, UnbrokenIs DEF Counted
<1> QED
  BY <1>1 DEF VerifiedIsEarned, ServedIsAgreed, LabelledVerified

\* A fact labelled "verified" has its confirmations and its engagements in the
\* journal, uncontradicted, however runs, flushes, sweeps, prunings, restarts and
\* lost batches interleave, as long as nobody pins it and every run that starts
\* saves its state (_maybe_verify, _contradict).  With pins it is false: see
\* LearnerPinned.cfg.  A run that aborts after it wrote the fact is repeated, and
\* counts twice.
THEOREM VerificationIsEarned ==
    ASSUME NoPins
    PROVE  Spec /\ [][~Abort]_vars => []VerifiedIsEarned
<1>1. Init => CountInv
  BY CountInit
<1>2. CountInv /\ [Next]_vars /\ [~Abort]_vars => CountInv'
  BY CountStep
<1>3. CountInv => VerifiedIsEarned
  BY CountEarned
<1> QED
  BY <1>1, <1>2, <1>3, PTL DEF Spec

\* ... and a fact that is served has the latest observation folded, or the latest
\* PromoteStreak of them, behind it (apply_observation).
THEOREM ServiceIsAgreed ==
    ASSUME NoPins
    PROVE  Spec /\ [][~Abort]_vars => []ServedIsAgreed
<1>1. Init => CountInv
  BY CountInit
<1>2. CountInv /\ [Next]_vars /\ [~Abort]_vars => CountInv'
  BY CountStep
<1>3. CountInv => ServedIsAgreed
  BY CountEarned
<1> QED
  BY <1>1, <1>2, <1>3, PTL DEF Spec
================================================================================
