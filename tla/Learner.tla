-------------------------------- MODULE Learner --------------------------------
(***************************************************************************)
(* The learning loop around one fact: the gateway queues observations and  *)
(* administrators' requests in memory and appends them to journal files    *)
(* (usecase/learning_journal.py); the learner process folds what is new    *)
(* into a copy of the fact files, audits, writes the files, prunes the     *)
(* journal and saves its offsets (usecase/learner.py); the gateway serves  *)
(* the stored fact with the latest journalled request applied to it        *)
(* (usecase/learned_store.py).                                             *)
(*                                                                         *)
(* The files are shared by two processes.  An action is what one process   *)
(* does between two points at which the other, a crash or an error can     *)
(* come in.  Time is the UTC date: every rule modelled here counts days.   *)
(* Requests also carry the second they were made in, by which the gateway  *)
(* sorts them.  All records go through one gateway process, so the journal *)
(* is in the order of the records' times.                                  *)
(***************************************************************************)
EXTENDS LearnedFact, Sequences, Functions

CONSTANTS
    Observations,  \* what the gateway may observe about the fact
    Admins,        \* members of LEARNING_ADMIN_GROUPS
    Actions,       \* the requests they make
    Retention,     \* JOURNAL_RETENTION_DAYS
    QueueLimit,    \* MAX_PENDING_RECORDS
    MaxRecords,    \* bound: records that reach the queue
    MaxDay,        \* bound: the last day
    MaxAborts,     \* bound: learner runs that end before they saved their state
    Faults         \* see FaultKinds

\* write_error: a batch of records cannot be appended and is dropped
\* restart:     the gateway ends with records in its queue
\* full:        the fact's kind has LEARNING_MAX_ENTRIES_PER_KIND entries
FaultKinds == {"write_error", "restart", "full"}

ASSUME LearnerAssumption ==
    /\ Observations \subseteq Observation
    /\ Actions \subseteq AdminActions
    /\ Retention \in Nat /\ QueueLimit \in Nat \ {0}
    /\ MaxRecords \in Nat /\ MaxDay \in Nat /\ MaxAborts \in Nat
    /\ Faults \subseteq FaultKinds

VARIABLES
    \* the gateway
    queue,    \* _pending
    waiting,  \* the request each administrator waits for, or None
    \* the tenant pack
    journal,  \* every record ever appended, oldest first
    pruned,   \* how many of them were deleted again
    entry,    \* the stored entry, or Absent
    offset,   \* how many records learner_state.json counts as consumed
    \* the learner process
    run,      \* its run (see Run)
    \* the environment
    today,    \* the UTC date
    aborts,   \* runs that did not save their state
    \* history, read only by the properties
    told,     \* the last request an administrator was told is in force
    kept      \* no run has deleted the fact since the latest request

vars == <<queue, waiting, journal, pruned, entry, offset, run, today, aborts, told, kept>>

\* When a request was made, to the second; the seconds of a day are counted as requests
\* come (the field "at" of a record).
Moment == [day: Nat, second: Nat]

\* day: the file a record is in.
AdminRecord == [type: {"admin"}, action: Actions, by: Admins, at: Moment]
ObservationRecord == [type: {"observation"}, seen: Observations]
Stamped == [type: {"admin"}, action: Actions, by: Admins, at: Moment, day: Nat]
              \cup [type: {"observation"}, seen: Observations, day: Nat]

\* batch: the entry as the run has it in memory.  next, end: the records it has
\* folded and those it read.  day: its fixed time.
Run ==
    [phase: {"idle", "folding", "committed", "pruned"}, batch: Entry \cup {Absent},
     next: Nat, end: Nat, day: Nat]

Idle == [phase |-> "idle", batch |-> Absent, next |-> 0, end |-> 0, day |-> 0]

\* A request and the day it was made.
Request == [action: Actions, day: Nat]

\* live: the fact it was made about was never deleted and had not expired when
\* the answer came.
Told == [action: Actions, day: Nat, live: BOOLEAN]

ASSUME NoRequestAssumption == None \notin Request \cup Told

Init ==
    /\ queue = <<>> /\ waiting = [a \in Admins |-> None]
    /\ journal = <<>> /\ pruned = 0 /\ entry = Absent /\ offset = 0
    /\ run = Idle
    /\ today = 0 /\ aborts = 0
    /\ told = None /\ kept = TRUE

------------------------------------------------------------------------------
(* Read paths of the gateway *)

\* Requests in the journal files that still exist, folded or not.
Requests == {i \in pruned + 1 .. Len(journal) : journal[i].type = "admin"}

Earlier(m, n) == m.day < n.day \/ (m.day = n.day /\ m.second < n.second)

\* The order of the actions' names.
NameRank == [pin |-> 1, revert |-> 2, unpin |-> 3]

\* The order of (at, entry_id, action), for one entry.
SortsAfter(r, s) ==
    Earlier(s.at, r.at) \/ (r.at = s.at /\ NameRank[r.action] > NameRank[s.action])

\* pending_admin_actions keeps the last of an entry's requests in that order, which may not be
\* the last of the journal when two were made in one second.
Latest == {i \in Requests : \A j \in Requests : ~SortsAfter(journal[j], journal[i])}

Pending == IF Latest = {} THEN None ELSE journal[CHOOSE i \in Latest : TRUE].action

Shown == WithPending(entry, Pending)

Visible == Shown # Absent /\ Live(Shown, today)

Served == Visible /\ Shown.status = "active"

------------------------------------------------------------------------------
(* The gateway: learning_journal.py and the tool revert_learned *)

Room ==
    /\ Len(queue) < QueueLimit
    /\ Len(journal) + Len(queue) < MaxRecords

\* A query's outcome is journalled; when the queue is full it is dropped.
Observe(o) ==
    /\ Room
    /\ queue' = Append(queue, [type |-> "observation", seen |-> o])
    /\ UNCHANGED <<waiting, journal, pruned, entry, offset, run, today, aborts, told, kept>>

\* Mutant: the tool lets any request for a known entry through.
AllowsKnown(action) == entry # Absent

\* The checks of revert_learned.
Allows(action) ==
    /\ entry # Absent
    /\ Shown # Absent
    /\ Shown.status # "reverted"
    /\ action = "pin" => ~Shown.pinned
    /\ action = "unpin" => Shown.pinned

\* The seconds of today's requests, and those the next may be made in: the last or a later.
Seconds ==
    {r.at.second : r \in {s \in Range(journal) \cup Range(queue) :
                             s.type = "admin" /\ s.at.day = today}}
Clock ==
    {s \in {0} \cup Seconds \cup {t + 1 : t \in Seconds} : \A t \in Seconds : t <= s}

\* revert_learned checks the request and queues it without an await in between.
Ask(a, action) ==
    /\ waiting[a] = None
    /\ Allows(action)
    /\ Room
    /\ \E second \in Clock :
          queue' = Append(queue, [type |-> "admin", action |-> action, by |-> a,
                                  at |-> [day |-> today, second |-> second]])
    /\ waiting' = [waiting EXCEPT ![a] = [action |-> action, day |-> today]]
    /\ told' = None /\ kept' = TRUE
    /\ UNCHANGED <<journal, pruned, entry, offset, run, today, aborts>>

Dated(r) ==
    IF r.type = "admin"
    THEN [type |-> "admin", action |-> r.action, by |-> r.by, at |-> r.at, day |-> today]
    ELSE [type |-> "observation", seen |-> r.seen, day |-> today]

\* The background task appends everything queued, in a worker thread.
Flush ==
    /\ queue # <<>>
    /\ journal' = journal \o [i \in 1..Len(queue) |-> Dated(queue[i])]
    /\ queue' = <<>>
    /\ UNCHANGED <<waiting, pruned, entry, offset, run, today, aborts, told, kept>>

\* The file is at its limit, or the write raises: logged, and the batch is gone.
FlushFails ==
    /\ "write_error" \in Faults
    /\ queue # <<>>
    /\ queue' = <<>>
    /\ UNCHANGED <<waiting, journal, pruned, entry, offset, run, today, aborts, told, kept>>

Queued(a) == \E i \in 1..Len(queue) : queue[i].type = "admin" /\ queue[i].by = a

\* The flush the tool waits for is over: "The fact is no longer served", "The
\* fact is served as pinned now".
Acknowledge(a) ==
    /\ waiting[a] # None
    /\ ~Queued(a)
    /\ told' = [action |-> waiting[a].action, day |-> waiting[a].day,
                live |-> kept /\ entry # Absent /\ Live(entry, today)]
    /\ waiting' = [waiting EXCEPT ![a] = None]
    /\ kept' = TRUE
    /\ UNCHANGED <<queue, journal, pruned, entry, offset, run, today, aborts>>

\* The gateway ends; nobody gets an answer.
Restart ==
    /\ "restart" \in Faults
    /\ queue # <<>> \/ \E a \in Admins : waiting[a] # None
    /\ queue' = <<>>
    /\ waiting' = [a \in Admins |-> None]
    /\ kept' = TRUE
    /\ UNCHANGED <<journal, pruned, entry, offset, run, today, aborts, told>>

------------------------------------------------------------------------------
(* The learner: run, in learner.py *)

Larger(a, b) == IF a > b THEN a ELSE b

\* read_journal takes every complete record after the offsets; a file that was
\* deleted has none.
Start ==
    /\ run.phase = "idle"
    /\ run' = [phase |-> "folding", batch |-> entry, next |-> Larger(offset, pruned),
               end |-> Len(journal), day |-> today]
    /\ UNCHANGED <<queue, waiting, journal, pruned, entry, offset, today, aborts, told, kept>>

\* One record, in memory.
FoldedBy(e, r, full) ==
    IF r.type = "admin" THEN ApplyAdmin(e, r.action, run.day)
    ELSE ApplyObservation(e, r.seen, run.day, full)

Fold ==
    /\ run.phase = "folding"
    /\ run.next < run.end
    /\ \E full \in BOOLEAN :
          /\ full => "full" \in Faults
          /\ run' = [run EXCEPT !.next = @ + 1,
                                !.batch = FoldedBy(@, journal[run.next + 1], full)]
    /\ UNCHANGED <<queue, waiting, journal, pruned, entry, offset, today, aborts, told, kept>>

\* The nightly job sweeps, at its hour or on command; then the audit event is
\* out and the fact file is replaced.
Commit ==
    /\ run.phase = "folding"
    /\ run.next = run.end
    /\ entry' \in {run.batch, Sweep(run.batch, run.day)}
    /\ run' = [run EXCEPT !.phase = "committed"]
    /\ kept' = (kept /\ entry' # Absent)
    /\ UNCHANGED <<queue, waiting, journal, pruned, offset, today, aborts, told>>

\* Mutant: files go by their age at the moment.
PrunableByAge == {i \in 1..Len(journal) : today - journal[i].day > Retention}

\* Records of files that are old enough and consumed to their end.
Prunable ==
    {i \in 1..Len(journal) :
        /\ run.day - journal[i].day > Retention
        /\ \A j \in 1..Len(journal) : journal[j].day = journal[i].day => j <= run.end}

Prune ==
    /\ run.phase = "committed"
    /\ pruned' = Larger(pruned, Cardinality(Prunable))
    /\ run' = [run EXCEPT !.phase = "pruned"]
    /\ UNCHANGED <<queue, waiting, journal, entry, offset, today, aborts, told, kept>>

\* Mutant: the size of the files now, not what the run read of them.
SaveCurrentSize ==
    /\ run.phase = "pruned"
    /\ offset' = Len(journal)
    /\ run' = Idle
    /\ UNCHANGED <<queue, waiting, journal, pruned, entry, today, aborts, told, kept>>

SaveState ==
    /\ run.phase = "pruned"
    /\ offset' = run.end
    /\ run' = Idle
    /\ UNCHANGED <<queue, waiting, journal, pruned, entry, today, aborts, told, kept>>

\* The audit fails closed, a file cannot be written, or the process is killed.
Abort ==
    /\ run.phase # "idle"
    /\ aborts < MaxAborts
    /\ run' = Idle
    /\ aborts' = aborts + 1
    /\ UNCHANGED <<queue, waiting, journal, pruned, entry, offset, today, told, kept>>

------------------------------------------------------------------------------

NewDay ==
    /\ today < MaxDay
    /\ today' = today + 1
    /\ UNCHANGED <<queue, waiting, journal, pruned, entry, offset, run, aborts, told, kept>>

Next ==
    \/ \E o \in Observations : Observe(o)
    \/ \E a \in Admins, action \in Actions : Ask(a, action)
    \/ Flush
    \/ FlushFails
    \/ \E a \in Admins : Acknowledge(a)
    \/ Restart
    \/ Start
    \/ Fold
    \/ Commit
    \/ Prune
    \/ SaveState
    \/ Abort
    \/ NewDay

Spec == Init /\ [][Next]_vars

------------------------------------------------------------------------------
(* Properties *)

\* Every variable has its type; a run stays within the records it read, and
\* deletes no other (prune_journal: consumed to the end of the file).
TypeOK ==
    /\ queue \in Seq(AdminRecord \cup ObservationRecord) /\ Len(queue) <= QueueLimit
    /\ waiting \in [Admins -> Request \cup {None}]
    /\ journal \in Seq(Stamped)
    /\ entry \in Entry \cup {Absent}
    /\ run \in Run /\ run.next <= run.end
    /\ offset \in 0..Len(journal) /\ run.end <= Len(journal)
    /\ pruned \in 0..Len(journal) /\ (run.phase = "pruned" => pruned <= run.end)
    /\ today \in 0..MaxDay /\ aborts \in 0..MaxAborts
    /\ told \in Told \cup {None} /\ kept \in BOOLEAN

\* The records behind the stored entry, when no run has aborted.
Behind ==
    {i \in 1..(IF run.phase \in {"committed", "pruned"} THEN run.end ELSE offset) :
        journal[i].type = "observation"}

Agrees(i) == journal[i].seen.value = entry.value

\* The observations since the fact was last contradicted.
Unbroken ==
    {i \in Behind : \A j \in Behind : j >= i => Agrees(j)}

\* trust_label: "verified" when no pin outranks it.
LabelledVerified == Served /\ Shown.verified /\ ~Shown.pinned

\* A fact labelled "verified" has at least MinConfirmations observations from at
\* least MinEngagements engagements that agree with it, and no contradiction
\* among or after them (_maybe_verify, _contradict).
VerifiedIsEarned ==
    LabelledVerified =>
        /\ Cardinality(Unbroken) >= MinConfirmations
        /\ Cardinality({journal[i].seen.engagement : i \in Unbroken} \ {None}) >= MinEngagements

\* ... and those observations span at least MinDays days.
VerifiedSpansDays ==
    LabelledVerified =>
        \E i, j \in Unbroken : journal[j].day - journal[i].day >= MinDays

\* What is served without a human's word agrees with the latest observation
\* folded, and if it was ever contradicted with the latest PromoteStreak of them
\* (apply_observation: demoted at once, promoted after consecutive confirmations).
ServedIsAgreed ==
    (Served /\ ~Shown.pinned) =>
        /\ Unbroken # {}
        /\ entry.disputed => Cardinality(Unbroken) >= PromoteStreak

\* Requests of one second sort as they were made.  Only an unpin that is followed within its
\* second by another request does not: its name is the last of the three.
Orderly ==
    \A j \in 1..Len(journal) : journal[j].type = "admin" =>
        \A i \in 1 .. j - 1 : journal[i].type = "admin" => ~SortsAfter(journal[i], journal[j])

RevertStands ==
    (told # None /\ told.action = "revert" /\ told.live /\ today < told.day + Ttl) => ~Served

PinStands ==
    (told # None /\ told.action = "pin" /\ told.live) => (Served /\ Shown.pinned)

\* A fact that an administrator was told is retired is not served again before
\* its tombstone can have expired, whatever the learner's runs, their crashes
\* and their pruning do meanwhile.
RevertIsFinal == Orderly => RevertStands

\* A fact that an administrator was told is pinned is served, as pinned, until
\* the next request: no observation, expiry, sweep, crash or pruning takes it away.
PinIsKept == Orderly => PinStands
===============================================================================
