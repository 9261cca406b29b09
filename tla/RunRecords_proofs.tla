--------------------------- MODULE RunRecords_proofs ---------------------------
(***************************************************************************)
(* Theorems about RunRecords, for any number of runs, of refused records,  *)
(* of overlapping runs and of faults.                                      *)
(***************************************************************************)
EXTENDS RunRecords, FiniteSetTheorems, TLAPS

PCs == {"unborn", "start_job", "drain", "record_failure", "finish_job",
        "read_metadata", "write_metadata", "over"}

SnapshotType == [status : Outcomes \cup {"none"}, completedAt : Nat, lastSuccess : Nat,
                 failures : Nat]

RunType == [pc : PCs, dropped : Nat, caught : BOOLEAN, outcome : Outcomes \cup {"none"},
            finishedAt : Nat, existing : SnapshotType]

JobType == [outcome : Outcomes \cup {"none", "in_progress"}, finishedAt : Nat, failed : Nat,
            thrown : BOOLEAN]

\* The types, without the bounds of TypeOK, which need the runs to be counted.
Types ==
  /\ run \in [Runs -> RunType]
  /\ job \in [Runs -> JobType]
  /\ entries \in [Runs -> Nat]
  /\ summarized \subseteq Runs
  /\ meta \in SnapshotType
  /\ unsettled \in [Runs -> Nat]
  /\ now \in Nat
  /\ overlapped \in BOOLEAN
  /\ hit \subseteq Runs

(***************************************************************************)
(* The job row and the failure log                                         *)
(***************************************************************************)

\* The entries of run r that are in the log or on their way to it.
Logged(r) == entries[r] + unsettled[r]

\* The job row of r is closed and agrees with what is logged.
Closed(r) ==
  /\ job[r].outcome \in Outcomes
  /\ IF job[r].thrown THEN r \in summarized ELSE Logged(r) = job[r].failed

\* What is known of the books of run r on the way there.
Books(r) ==
  /\ run[r].pc \in {"unborn", "start_job"} =>
       run[r].dropped = 0 /\ ~run[r].caught /\ Logged(r) = 0
  /\ run[r].pc = "drain" =>
       ~run[r].caught /\ Logged(r) = run[r].dropped /\ job[r] # NoJob
  /\ run[r].pc = "record_failure" =>
       run[r].caught /\ run[r].outcome = "failed" /\ job[r] # NoJob
  /\ run[r].pc = "finish_job" =>
       /\ run[r].outcome \in Outcomes
       /\ IF run[r].caught THEN r \in summarized ELSE Logged(r) = run[r].dropped
  /\ run[r].pc \in {"read_metadata", "write_metadata", "over"} => Closed(r)

BooksKept == \A r \in Runs : r \notin hit => Books(r)

(***************************************************************************)
(* The metadata row                                                        *)
(***************************************************************************)

\* The times a run holds lie in the past.
Past == /\ meta.lastSuccess < now
        /\ \A r \in Runs : run[r].finishedAt < now /\ run[r].existing.lastSuccess < now

\* A run that is alone has ended after the last success, and what it has read of
\* the row is still there when it writes.
InOrder(s, row) ==
  /\ s.pc \in {"record_failure", "finish_job", "read_metadata", "write_metadata"} =>
       row.lastSuccess <= s.finishedAt
  /\ s.pc = "write_metadata" => s.existing = row

Turns ==
  ~overlapped =>
    /\ \A r, s \in Active : r = s
    /\ \A r \in Active : InOrder(run[r], meta)

RecordsInv == Types /\ BooksKept /\ Past /\ Turns

(***************************************************************************)
(* Steps                                                                   *)
(***************************************************************************)

\* Run r as the catch block finds it.
Caught(r) == [run[r] EXCEPT !.pc = "record_failure", !.caught = TRUE,
                            !.outcome = "failed", !.finishedAt = now]

\* Where an awaited call takes its run.
LEMMA AfterCall ==
  ASSUME NEW r \in Runs, NEW ack \in Acks, NEW s, Continue(r, ack, s)
  PROVE  \/ ack = "ok" /\ run' = [run EXCEPT ![r] = s] /\ now' = now
         \/ /\ ack # "ok" /\ run[r].caught
            /\ run' = [run EXCEPT ![r] = Over] /\ now' = now
         \/ /\ ack # "ok" /\ ~run[r].caught
            /\ run' = [run EXCEPT ![r] = Caught(r)] /\ now' = now + 1
  BY DEF Continue, Throw, Catch, Caught

\* The runs that are over and caught, and the empty tables, have their types.
LEMMA StatesTyped ==
  /\ Unborn \in RunType /\ Over \in RunType /\ Over.pc = "over"
  /\ Over.finishedAt = 0 /\ Over.existing.lastSuccess = 0
  /\ NoSnapshot \in SnapshotType
  /\ NoJob \in JobType /\ Started \in JobType /\ Started # NoJob
<1>1. NoSnapshot \in SnapshotType /\ NoSnapshot.lastSuccess = 0
  BY DEF NoSnapshot, SnapshotType, Outcomes, Never
<1>2. Unborn \in RunType /\ Unborn.finishedAt = 0 /\ Unborn.existing = NoSnapshot
  BY <1>1 DEF Unborn, RunType, PCs, Never
<1>3. /\ Over \in RunType /\ Over.pc = "over"
      /\ Over.finishedAt = 0 /\ Over.existing = NoSnapshot
  BY <1>2 DEF Over, RunType, PCs
<1>4. NoJob \in JobType /\ Started \in JobType /\ Started # NoJob
  BY DEF NoJob, Started, JobType, Outcomes, Never
<1> QED
  BY <1>1, <1>2, <1>3, <1>4

LEMMA CaughtTyped ==
  ASSUME Types, NEW r \in Runs
  PROVE  /\ Caught(r) \in RunType /\ Caught(r).pc = "record_failure"
         /\ Caught(r).caught /\ Caught(r).outcome = "failed"
         /\ Caught(r).finishedAt = now /\ Caught(r).existing = run[r].existing
  BY DEF Types, Caught, RunType, PCs, Outcomes

\* A run that was not hit keeps its books while others move.
LEMMA OthersBooks ==
  ASSUME NEW s \in Runs, Books(s), UNCHANGED <<run[s], job[s], entries[s], unsettled[s]>>,
         s \in summarized => s \in summarized'
  PROVE  Books(s)'
  BY DEF Books, Closed, Logged

\* A step of run r that writes no metadata row and starts no run keeps the order of
\* the row, if r itself does.
LEMMA TurnsKept ==
  ASSUME Types, Turns, NEW r \in Active, NEW s, run' = [run EXCEPT ![r] = s],
         UNCHANGED <<meta, overlapped>>, ~overlapped => InOrder(s, meta)
  PROVE  Turns'
<1>1. r \in Runs /\ run'[r] = s /\ \A q \in Runs \ {r} : run'[q] = run[q]
  BY DEF Active, Types
<1>2. Active' \subseteq Active
  BY <1>1 DEF Active
<1>3. ASSUME ~overlapped, NEW q \in Active'
      PROVE  InOrder(run'[q], meta)
  BY <1>1, <1>2, <1>3 DEF Turns
<1> QED
  BY <1>2, <1>3 DEF Turns

\* What an awaited call of run r keeps that writes no metadata row: s is the state
\* in which it leaves the run when it answers ok.
LEMMA CallKeeps ==
  ASSUME RecordsInv, NEW r \in Active, NEW ack \in Acks, NEW s \in RunType,
         s.finishedAt < now, s.existing.lastSuccess < now,
         ~overlapped => InOrder(s, meta),
         Continue(r, ack, s), UNCHANGED <<meta, overlapped>>,
         hit' \subseteq Runs, hit \subseteq hit', ack = "ok" \/ r \in hit'
  PROVE  /\ run' \in [Runs -> RunType] /\ now' \in Nat
         /\ \A q \in Runs \ {r} : run'[q] = run[q]
         /\ Past' /\ Turns'
         /\ r \notin hit' => ack = "ok" /\ run'[r] = s
<1> USE DEF RecordsInv
<1>1. r \in Runs /\ Types
  BY DEF Active
<1>2. PICK t \in {s, Over, Caught(r)} :
        /\ run' = [run EXCEPT ![r] = t]
        /\ now' \in {now, now + 1}
        /\ t = Caught(r) => now' = now + 1
        /\ ack = "ok" => t = s
  <2>1. CASE ack = "ok"
    <3>1. run' = [run EXCEPT ![r] = s] /\ now' = now
      BY <1>1, <2>1, AfterCall
    <3>2. s # Caught(r)
      BY <1>1, CaughtTyped DEF Types
    <3> QED
      BY <2>1, <3>1, <3>2
  <2>2. CASE ack # "ok" /\ run[r].caught
    <3>1. run' = [run EXCEPT ![r] = Over] /\ now' = now
      BY <1>1, <2>2, AfterCall
    <3>2. Over # Caught(r)
      BY <1>1, StatesTyped, CaughtTyped
    <3> QED
      BY <2>2, <3>1, <3>2
  <2>3. CASE ack # "ok" /\ ~run[r].caught
    BY <1>1, <2>3, AfterCall
  <2> QED
    BY <2>1, <2>2, <2>3
<1>3. t \in RunType
  BY <1>1, <1>2, StatesTyped, CaughtTyped
<1>4. run' \in [Runs -> RunType] /\ now' \in Nat /\ now <= now'
  BY <1>1, <1>2, <1>3 DEF Types
<1>5. run'[r] = t /\ \A q \in Runs \ {r} : run'[q] = run[q]
  BY <1>1, <1>2 DEF Types
<1>6. t.finishedAt < now' /\ t.existing.lastSuccess < now'
  <2>1. 0 < now /\ meta.lastSuccess \in Nat
    BY <1>1 DEF Past, Types, SnapshotType
  <2>2. CASE t = s
    BY <1>1, <1>2, <1>4, <2>2 DEF Types, RunType, SnapshotType
  <2>3. CASE t = Over
    BY <1>4, <2>1, <2>3, <1>1, StatesTyped DEF Types
  <2>4. CASE t = Caught(r)
    <3>1. t.finishedAt = now /\ t.existing = run[r].existing /\ now' = now + 1
      BY <1>1, <1>2, <2>4, CaughtTyped
    <3>2. run[r].existing.lastSuccess < now /\ run[r].existing.lastSuccess \in Nat
      BY <1>1 DEF Past, Types, RunType, SnapshotType
    <3> QED
      BY <1>1, <3>1, <3>2 DEF Types
  <2> QED
    BY <1>2, <2>2, <2>3, <2>4
<1>7. Past'
  <2>1. meta'.lastSuccess < now'
    BY <1>1, <1>4 DEF Past, Types, SnapshotType
  <2>2. ASSUME NEW q \in Runs
        PROVE  run'[q].finishedAt < now' /\ run'[q].existing.lastSuccess < now'
    <3>1. CASE q = r
      BY <1>5, <1>6, <3>1
    <3>2. CASE q # r
      <4>1. run'[q] = run[q]
        BY <1>5, <3>2
      <4>2. run[q].finishedAt \in Nat /\ run[q].existing.lastSuccess \in Nat
        BY <1>1 DEF Types, RunType, SnapshotType
      <4> QED
        BY <1>1, <1>4, <4>1, <4>2 DEF Past, Types
    <3> QED
      BY <3>1, <3>2
  <2> QED
    BY <2>1, <2>2 DEF Past
<1>8. ~overlapped => InOrder(t, meta)
  <2>1. CASE t = s
    BY <2>1
  <2>2. CASE t = Over
    BY <2>2, StatesTyped DEF InOrder
  <2>3. CASE t = Caught(r)
    BY <1>1, <2>3, CaughtTyped DEF InOrder, Past, Types, SnapshotType
  <2> QED
    BY <1>2, <2>1, <2>2, <2>3
<1>9. Turns'
  BY <1>1, <1>2, <1>8, TurnsKept
<1> QED
  BY <1>2, <1>4, <1>5, <1>7, <1>9

\* A call that does not answer ok marks its run.
LEMMA AnswerMarks ==
  ASSUME Types, NEW r \in Runs, NEW ack \in Acks, Answer(r, ack)
  PROVE  hit' \subseteq Runs /\ hit \subseteq hit' /\ (ack = "ok" \/ r \in hit')
  BY DEF Types, Answer

\* The books are kept if those of the run that moves are.
LEMMA BooksOfOne ==
  ASSUME BooksKept, NEW r \in Runs, hit \subseteq hit',
         \A q \in Runs \ {r} :
           /\ UNCHANGED <<run[q], job[q], entries[q], unsettled[q]>>
           /\ q \in summarized => q \in summarized',
         r \notin hit' => Books(r)'
  PROVE  BooksKept'
<1> SUFFICES ASSUME NEW q \in Runs, q \notin hit' PROVE Books(q)'
  BY DEF BooksKept
<1>1. CASE q = r
  BY <1>1
<1>2. CASE q # r
  BY <1>2, OthersBooks DEF BooksKept
<1> QED
  BY <1>1, <1>2

LEMMA RecordsInit == Init => RecordsInv
<1> SUFFICES ASSUME Init PROVE RecordsInv
  OBVIOUS
<1>1. Types
  BY StatesTyped DEF Init, Types
<1>2. \A r \in Runs : run[r] = Unborn /\ Logged(r) = 0
  BY DEF Init, Logged
<1>3. BooksKept
  BY <1>2 DEF BooksKept, Books, Unborn
<1>4. Past /\ Active = {}
  BY <1>2 DEF Past, Init, Unborn, NoSnapshot, Never, Active
<1>5. Turns
  BY <1>4 DEF Turns
<1> QED
  BY <1>1, <1>3, <1>4, <1>5 DEF RecordsInv

LEMMA BeginStep ==
  ASSUME RecordsInv, NEW r \in Runs, Begin(r)
  PROVE  RecordsInv'
<1> USE DEF RecordsInv
<1>1. UNCHANGED <<job, entries, summarized, meta, unsettled, now, hit>>
  BY DEF Begin
<1>2. /\ run' = [run EXCEPT ![r].pc = "start_job"]
      /\ run[r].pc = "unborn"
      /\ overlapped' = (overlapped \/ Active # {})
  BY DEF Begin
<1>3. Types'
  BY <1>1, <1>2 DEF Types, RunType, PCs
<1>4. /\ run'[r] = [run[r] EXCEPT !.pc = "start_job"]
      /\ \A q \in Runs \ {r} : run'[q] = run[q]
  BY <1>2 DEF Types
<1>5. Past'
  BY <1>1, <1>4 DEF Past, Types, RunType
<1>6. BooksKept'
  BY <1>1, <1>2, <1>4, BooksOfOne DEF BooksKept, Books, Logged, Types, RunType
<1>7. Turns'
  <2>1. SUFFICES ASSUME Active = {} PROVE Turns'
    BY <1>2 DEF Turns, Types
  <2>2. \A q \in Active' : q = r
    BY <1>4, <2>1 DEF Active
  <2>3. run'[r].pc = "start_job"
    BY <1>4 DEF Types, RunType
  <2> QED
    BY <2>2, <2>3 DEF Turns, InOrder
<1> QED
  BY <1>3, <1>5, <1>6, <1>7

LEMMA StartJobStep ==
  ASSUME RecordsInv, NEW r \in Runs, NEW ack \in Acks, StartJob(r, ack)
  PROVE  RecordsInv'
<1> USE DEF RecordsInv
<1> DEFINE s == [run[r] EXCEPT !.pc = "drain"]
<1>1. /\ run[r].pc = "start_job" /\ Answer(r, ack) /\ Continue(r, ack, s)
      /\ UNCHANGED <<entries, summarized, meta, unsettled, overlapped>>
      /\ job' = IF Applied(ack) THEN [job EXCEPT ![r] = Started] ELSE job
  BY DEF StartJob
<1>2. /\ r \in Active /\ s \in RunType /\ s.pc = "drain"
      /\ s.dropped = run[r].dropped /\ s.caught = run[r].caught
      /\ s.finishedAt < now /\ s.existing.lastSuccess < now
  BY <1>1 DEF Active, Types, RunType, PCs, Past
<1>3. hit' \subseteq Runs /\ hit \subseteq hit' /\ (ack = "ok" \/ r \in hit')
  BY <1>1, AnswerMarks
<1> HIDE DEF s
<1>4. /\ run' \in [Runs -> RunType] /\ now' \in Nat
      /\ \A q \in Runs \ {r} : run'[q] = run[q]
      /\ Past' /\ Turns'
      /\ r \notin hit' => ack = "ok" /\ run'[r] = s
  BY <1>1, <1>2, <1>3, CallKeeps DEF InOrder
<1>5. Types'
  BY <1>1, <1>3, <1>4, StatesTyped DEF Types
<1>6. ASSUME r \notin hit' PROVE Books(r)'
  <2>1. run'[r] = s /\ job'[r] = Started /\ Books(r)
    BY <1>1, <1>3, <1>4, <1>6 DEF Types, Applied, BooksKept
  <2> QED
    BY <1>1, <1>2, <2>1, StatesTyped DEF Books, Logged
<1>7. BooksKept'
  BY <1>1, <1>3, <1>4, <1>6, BooksOfOne DEF Types
<1> QED
  BY <1>4, <1>5, <1>7

LEMMA DropStep ==
  ASSUME RecordsInv, NEW r \in Runs, Drop(r)
  PROVE  RecordsInv'
<1> USE DEF RecordsInv
<1> DEFINE s == [run[r] EXCEPT !.dropped = @ + 1]
<1>1. /\ run[r].pc = "drain" /\ run' = [run EXCEPT ![r] = s]
      /\ unsettled' = [unsettled EXCEPT ![r] = @ + 1]
      /\ UNCHANGED <<job, entries, summarized, meta, now, overlapped, hit>>
  BY DEF Drop, Issue
<1>2. /\ r \in Active /\ s \in RunType /\ s.pc = "drain"
      /\ s.dropped = run[r].dropped + 1 /\ s.caught = run[r].caught
      /\ s.finishedAt = run[r].finishedAt /\ s.existing = run[r].existing
  BY <1>1 DEF Active, Types, RunType
<1> HIDE DEF s
<1>3. Types'
  BY <1>1, <1>2 DEF Types
<1>4. run'[r] = s /\ \A q \in Runs \ {r} : run'[q] = run[q]
  BY <1>1 DEF Types
<1>5. Past'
  BY <1>1, <1>2, <1>4 DEF Past
<1>6. Turns'
  BY <1>1, <1>2, TurnsKept DEF InOrder
<1>7. ASSUME r \notin hit' PROVE Books(r)'
  <2>1. Logged(r)' = Logged(r) + 1
    BY <1>1 DEF Logged, Types
  <2>2. ~run[r].caught /\ Logged(r) = run[r].dropped /\ job[r] # NoJob
    BY <1>1, <1>7 DEF Books, BooksKept
  <2> QED
    BY <1>1, <1>2, <1>4, <2>1, <2>2 DEF Books
<1>8. BooksKept'
  BY <1>1, <1>4, <1>7, BooksOfOne DEF Types
<1> QED
  BY <1>3, <1>5, <1>6, <1>8

\* Run r reads the clock: the end of a drain, or the catch block.
LEMMA ClockKeeps ==
  ASSUME RecordsInv, NEW r \in Active, NEW s \in RunType,
         s.finishedAt = now, s.existing = run[r].existing, s.pc # "write_metadata",
         run' = [run EXCEPT ![r] = s], now' = now + 1, UNCHANGED <<meta, overlapped>>
  PROVE  /\ run' \in [Runs -> RunType] /\ now' \in Nat
         /\ run'[r] = s /\ \A q \in Runs \ {r} : run'[q] = run[q]
         /\ Past' /\ Turns'
<1> USE DEF RecordsInv
<1>1. r \in Runs /\ run'[r] = s /\ \A q \in Runs \ {r} : run'[q] = run[q]
  BY DEF Active, Types
<1>2. run' \in [Runs -> RunType] /\ now' \in Nat
  BY <1>1 DEF Types
<1>3. /\ meta.lastSuccess \in Nat
      /\ \A q \in Runs : run[q].finishedAt \in Nat /\ run[q].existing.lastSuccess \in Nat
  BY DEF Types, RunType, SnapshotType
<1>4. Past'
  BY <1>1, <1>3 DEF Past, Types
<1>5. InOrder(s, meta)
  BY <1>3 DEF Past, Types, InOrder
<1>6. Turns'
  BY <1>5, TurnsKept
<1> QED
  BY <1>1, <1>2, <1>4, <1>6

LEMMA EndDrainStep ==
  ASSUME RecordsInv, NEW r \in Runs, EndDrain(r)
  PROVE  RecordsInv'
<1> USE DEF RecordsInv
<1>1. PICK upserted \in BOOLEAN :
        run' = [run EXCEPT ![r] = [run[r] EXCEPT !.pc = "finish_job", !.finishedAt = now,
                                                 !.outcome = OutcomeOf(run[r], upserted)]]
  BY DEF EndDrain
<1> DEFINE s == [run[r] EXCEPT !.pc = "finish_job", !.finishedAt = now,
                               !.outcome = OutcomeOf(run[r], upserted)]
<1>2. /\ run[r].pc = "drain" /\ run' = [run EXCEPT ![r] = s] /\ now' = now + 1
      /\ UNCHANGED <<job, entries, summarized, meta, unsettled, overlapped, hit>>
  BY <1>1 DEF EndDrain
<1>3. OutcomeOf(run[r], upserted) \in Outcomes
  BY DEF OutcomeOf, Outcomes
<1>4. /\ r \in Active /\ s \in RunType /\ s.pc = "finish_job" /\ s.outcome \in Outcomes
      /\ s.finishedAt = now /\ s.existing = run[r].existing
      /\ s.dropped = run[r].dropped /\ s.caught = run[r].caught
  BY <1>2, <1>3 DEF Active, Types, RunType, PCs
<1> HIDE DEF s
<1>5. /\ run' \in [Runs -> RunType] /\ now' \in Nat
      /\ run'[r] = s /\ \A q \in Runs \ {r} : run'[q] = run[q]
      /\ Past' /\ Turns'
  BY <1>2, <1>4, ClockKeeps
<1>6. Types'
  BY <1>2, <1>5 DEF Types
<1>7. ASSUME r \notin hit' PROVE Books(r)'
  BY <1>2, <1>4, <1>5, <1>7 DEF Books, BooksKept, Logged
<1>8. BooksKept'
  BY <1>2, <1>5, <1>7, BooksOfOne
<1> QED
  BY <1>5, <1>6, <1>8

LEMMA DrainThrowsStep ==
  ASSUME RecordsInv, NEW r \in Runs, DrainThrows(r)
  PROVE  RecordsInv'
<1> USE DEF RecordsInv
<1>1. /\ run[r].pc = "drain" /\ run' = [run EXCEPT ![r] = Caught(r)] /\ now' = now + 1
      /\ UNCHANGED <<job, entries, summarized, meta, unsettled, overlapped, hit>>
  BY DEF DrainThrows, Catch, Caught
<1>2. r \in Active
  BY <1>1 DEF Active
<1>3. /\ run' \in [Runs -> RunType] /\ now' \in Nat
      /\ run'[r] = Caught(r) /\ \A q \in Runs \ {r} : run'[q] = run[q]
      /\ Past' /\ Turns'
  BY <1>1, <1>2, CaughtTyped, ClockKeeps
<1>4. Types'
  BY <1>1, <1>3 DEF Types
<1>5. ASSUME r \notin hit' PROVE Books(r)'
  BY <1>1, <1>3, <1>5, CaughtTyped DEF Books, BooksKept
<1>6. BooksKept'
  BY <1>1, <1>3, <1>5, BooksOfOne
<1> QED
  BY <1>3, <1>4, <1>6

\* Without a job row the entry is refused; such a run has been hit.
LEMMA RecordFailureStep ==
  ASSUME RecordsInv, NEW r \in Runs, NEW ack \in Acks, RecordFailure(r, ack)
  PROVE  RecordsInv'
<1> USE DEF RecordsInv
<1> DEFINE s == [run[r] EXCEPT !.pc = "finish_job"]
<1>1. /\ run[r].pc = "record_failure" /\ Answer(r, ack)
      /\ UNCHANGED <<job, entries, meta, unsettled, overlapped>>
  BY DEF RecordFailure
<1>2. /\ r \in Active /\ s \in RunType /\ s.pc = "finish_job"
      /\ s.caught = run[r].caught /\ s.outcome = run[r].outcome
      /\ s.finishedAt = run[r].finishedAt /\ s.existing = run[r].existing
  BY <1>1 DEF Active, Types, RunType, PCs
<1>3. hit' \subseteq Runs /\ hit \subseteq hit' /\ (ack = "ok" \/ r \in hit')
  BY <1>1, AnswerMarks
<1>4. s.finishedAt < now /\ s.existing.lastSuccess < now
  BY <1>2 DEF Past
<1>5. ~overlapped => InOrder(s, meta)
  BY <1>1, <1>2 DEF Turns, InOrder
<1>6. CASE job[r] = NoJob
  <2>1. UNCHANGED summarized /\ Throw(r)
    BY <1>6 DEF RecordFailure
  <2>2. r \in hit
    BY <1>1, <1>6 DEF BooksKept, Books
  <2>3. "failed" \in Acks /\ Continue(r, "failed", s)
    BY <2>1 DEF Acks, Continue
  <2> HIDE DEF s
  <2>4. /\ run' \in [Runs -> RunType] /\ now' \in Nat
        /\ \A q \in Runs \ {r} : run'[q] = run[q]
        /\ Past' /\ Turns'
    BY <1>1, <1>2, <1>3, <1>4, <1>5, <2>2, <2>3, CallKeeps
  <2>5. Types'
    BY <1>1, <1>3, <2>1, <2>4 DEF Types
  <2>6. BooksKept'
    BY <1>1, <1>3, <2>1, <2>2, <2>4, BooksOfOne
  <2> QED
    BY <2>4, <2>5, <2>6
<1>7. CASE job[r] # NoJob
  <2>1. /\ summarized' = IF Applied(ack) THEN summarized \cup {r} ELSE summarized
        /\ Continue(r, ack, s)
    BY <1>7 DEF RecordFailure
  <2> HIDE DEF s
  <2>2. /\ run' \in [Runs -> RunType] /\ now' \in Nat
        /\ \A q \in Runs \ {r} : run'[q] = run[q]
        /\ Past' /\ Turns'
        /\ r \notin hit' => ack = "ok" /\ run'[r] = s
    BY <1>1, <1>2, <1>3, <1>4, <1>5, <2>1, CallKeeps
  <2>3. Types'
    BY <1>1, <1>3, <2>1, <2>2 DEF Types
  <2>4. ASSUME r \notin hit' PROVE Books(r)'
    <3>1. run'[r] = s /\ r \in summarized' /\ Books(r)
      BY <1>3, <2>1, <2>2, <2>4 DEF Applied, BooksKept
    <3> QED
      BY <1>1, <1>2, <3>1 DEF Books, Outcomes
  <2>5. BooksKept'
    BY <1>1, <1>3, <2>1, <2>2, <2>4, BooksOfOne
  <2> QED
    BY <2>2, <2>3, <2>5
<1> QED
  BY <1>6, <1>7

LEMMA FinishJobStep ==
  ASSUME RecordsInv, NEW r \in Runs, NEW ack \in Acks, FinishJob(r, ack)
  PROVE  RecordsInv'
<1> USE DEF RecordsInv
<1> DEFINE s == [run[r] EXCEPT !.pc = "read_metadata"]
           closed == [outcome |-> run[r].outcome, finishedAt |-> run[r].finishedAt,
                      failed |-> FailedCount(run[r]), thrown |-> run[r].caught]
<1>1. /\ run[r].pc = "finish_job" /\ Answer(r, ack) /\ Continue(r, ack, s)
      /\ job' = IF Applied(ack) THEN [job EXCEPT ![r] = closed] ELSE job
      /\ UNCHANGED <<entries, summarized, meta, unsettled, overlapped>>
  BY DEF FinishJob
<1>2. /\ r \in Active /\ s \in RunType /\ s.pc = "read_metadata"
      /\ s.finishedAt = run[r].finishedAt /\ s.existing = run[r].existing
  BY <1>1 DEF Active, Types, RunType, PCs
<1>3. closed \in JobType
  BY DEF Types, RunType, JobType, FailedCount
<1>4. hit' \subseteq Runs /\ hit \subseteq hit' /\ (ack = "ok" \/ r \in hit')
  BY <1>1, AnswerMarks
<1> HIDE DEF s
<1>5. /\ run' \in [Runs -> RunType] /\ now' \in Nat
      /\ \A q \in Runs \ {r} : run'[q] = run[q]
      /\ Past' /\ Turns'
      /\ r \notin hit' => ack = "ok" /\ run'[r] = s
  <2>1. s.finishedAt < now /\ s.existing.lastSuccess < now
    BY <1>2 DEF Past
  <2>2. ~overlapped => InOrder(s, meta)
    BY <1>1, <1>2 DEF Turns, InOrder
  <2> QED
    BY <1>1, <1>2, <1>4, <2>1, <2>2, CallKeeps
<1>6. Types'
  BY <1>1, <1>3, <1>4, <1>5 DEF Types
<1>7. ASSUME r \notin hit' PROVE Books(r)'
  <2>1. run'[r] = s /\ job'[r] = closed /\ Books(r)
    BY <1>1, <1>4, <1>5, <1>7 DEF Types, Applied, BooksKept
  <2>2. Closed(r)'
    BY <1>1, <2>1 DEF Books, Closed, Logged, FailedCount
  <2> QED
    BY <1>2, <2>1, <2>2 DEF Books
<1>8. BooksKept'
  BY <1>1, <1>4, <1>5, <1>7, BooksOfOne DEF Types
<1> QED
  BY <1>5, <1>6, <1>8

LEMMA ReadMetadataStep ==
  ASSUME RecordsInv, NEW r \in Runs, NEW ack \in Acks, ReadMetadata(r, ack)
  PROVE  RecordsInv'
<1> USE DEF RecordsInv
<1> DEFINE s == [run[r] EXCEPT !.pc = "write_metadata", !.existing = meta]
<1>1. /\ run[r].pc = "read_metadata" /\ Answer(r, ack) /\ Continue(r, ack, s)
      /\ UNCHANGED <<job, entries, summarized, meta, unsettled, overlapped>>
  BY DEF ReadMetadata
<1>2. /\ r \in Active /\ s \in RunType /\ s.pc = "write_metadata"
      /\ s.finishedAt = run[r].finishedAt /\ s.existing = meta
  BY <1>1 DEF Active, Types, RunType, PCs
<1>3. hit' \subseteq Runs /\ hit \subseteq hit' /\ (ack = "ok" \/ r \in hit')
  BY <1>1, AnswerMarks
<1> HIDE DEF s
<1>4. /\ run' \in [Runs -> RunType] /\ now' \in Nat
      /\ \A q \in Runs \ {r} : run'[q] = run[q]
      /\ Past' /\ Turns'
      /\ r \notin hit' => ack = "ok" /\ run'[r] = s
  <2>1. s.finishedAt < now /\ s.existing.lastSuccess < now
    BY <1>2 DEF Past
  <2>2. ~overlapped => InOrder(s, meta)
    BY <1>1, <1>2 DEF Turns, InOrder
  <2> QED
    BY <1>1, <1>2, <1>3, <2>1, <2>2, CallKeeps
<1>5. Types'
  BY <1>1, <1>3, <1>4 DEF Types
<1>6. ASSUME r \notin hit' PROVE Books(r)'
  <2>1. run'[r] = s /\ Books(r)
    BY <1>3, <1>4, <1>6 DEF BooksKept
  <2> QED
    BY <1>1, <1>2, <2>1 DEF Books, Closed, Logged
<1>7. BooksKept'
  BY <1>1, <1>3, <1>4, <1>6, BooksOfOne
<1> QED
  BY <1>4, <1>5, <1>7

\* The only write of the row: alone, a run puts there what it read or its own end.
LEMMA WriteMetadataStep ==
  ASSUME RecordsInv, NEW r \in Runs, NEW ack \in Acks, WriteMetadata(r, ack)
  PROVE  RecordsInv' /\ (meta'.lastSuccess < meta.lastSuccess => overlapped)
<1> USE DEF RecordsInv
<1> DEFINE row == [status |-> run[r].outcome, completedAt |-> run[r].finishedAt,
                   lastSuccess |-> LastSuccessAfter(run[r]),
                   failures |-> FailuresAfter(run[r])]
<1>1. /\ run[r].pc = "write_metadata" /\ Answer(r, ack) /\ Continue(r, ack, Over)
      /\ meta' = IF Applied(ack) THEN row ELSE meta
      /\ UNCHANGED <<job, entries, summarized, unsettled, overlapped>>
  BY DEF WriteMetadata
<1>2. r \in Active
  BY <1>1 DEF Active
<1>3. hit' \subseteq Runs /\ hit \subseteq hit' /\ (ack = "ok" \/ r \in hit')
  BY <1>1, AnswerMarks
<1>4. /\ run[r].finishedAt \in Nat /\ run[r].existing \in SnapshotType
      /\ run[r].outcome \in Outcomes \cup {"none"}
      /\ meta \in SnapshotType /\ now \in Nat
  BY DEF Types, RunType
<1>5. row \in SnapshotType
  BY <1>4 DEF SnapshotType, LastSuccessAfter, FailuresAfter
<1>6. row.lastSuccess < now
  BY DEF LastSuccessAfter, Past
<1>7. ~overlapped => meta.lastSuccess <= row.lastSuccess
  <2>1. ~overlapped => InOrder(run[r], meta)
    BY <1>2 DEF Turns
  <2> QED
    BY <1>1, <1>4, <2>1 DEF InOrder, LastSuccessAfter, SnapshotType
<1> HIDE DEF row
<1>8. meta' \in SnapshotType /\ meta'.lastSuccess < now
  BY <1>1, <1>5, <1>6 DEF Past, Types
<1>9. PICK t \in {Over, Caught(r)} :
        /\ run' = [run EXCEPT ![r] = t]
        /\ now' = IF t = Over THEN now ELSE now + 1
        /\ ack = "ok" => t = Over
  <2>1. Over # Caught(r)
    BY StatesTyped, CaughtTyped
  <2>2. CASE ack = "ok"
    BY <1>1, <2>2, AfterCall
  <2>3. CASE ack # "ok" /\ run[r].caught
    BY <1>1, <2>3, AfterCall
  <2>4. CASE ack # "ok" /\ ~run[r].caught
    BY <1>1, <2>1, <2>4, AfterCall
  <2> QED
    BY <2>2, <2>3, <2>4
<1>10. /\ t \in RunType /\ run'[r] = t
       /\ \A q \in Runs \ {r} : run'[q] = run[q]
       /\ now' \in Nat /\ now <= now'
  BY <1>4, <1>9, StatesTyped, CaughtTyped DEF Types
<1>11. Types'
  BY <1>1, <1>3, <1>8, <1>9, <1>10 DEF Types
<1>12. t.finishedAt < now' /\ t.existing.lastSuccess < now'
  <2>1. CASE t = Over
    BY <1>4, <1>9, <2>1, StatesTyped DEF Past, SnapshotType
  <2>2. CASE t = Caught(r)
    <3>1. /\ t.finishedAt = now /\ t.existing = run[r].existing /\ now' = now + 1
      BY <1>9, <2>2, StatesTyped, CaughtTyped
    <3> QED
      BY <1>4, <3>1 DEF Past, SnapshotType
  <2> QED
    BY <1>9, <2>1, <2>2
<1>13. Past'
  <2>1. meta'.lastSuccess < now'
    BY <1>4, <1>8, <1>10 DEF SnapshotType
  <2>2. ASSUME NEW q \in Runs
        PROVE  run'[q].finishedAt < now' /\ run'[q].existing.lastSuccess < now'
    <3>1. run[q].finishedAt \in Nat /\ run[q].existing.lastSuccess \in Nat
      BY DEF Types, RunType, SnapshotType
    <3>2. CASE q = r
      BY <1>10, <1>12, <3>2
    <3>3. CASE q # r
      BY <1>4, <1>10, <3>1, <3>3 DEF Past
    <3> QED
      BY <3>2, <3>3
  <2> QED
    BY <2>1, <2>2 DEF Past
<1>14. Turns'
  <2> SUFFICES ASSUME ~overlapped PROVE Turns'
    BY <1>1 DEF Turns
  <2>1. Active \subseteq {r}
    BY <1>2 DEF Turns
  <2>2. Active' \subseteq {r}
    BY <1>10, <2>1 DEF Active
  <2>3. CASE t = Over
    BY <1>10, <2>2, <2>3, StatesTyped DEF Turns, InOrder
  <2>4. CASE t = Caught(r)
    <3>1. t.pc = "record_failure" /\ t.finishedAt = now
      BY <2>4, CaughtTyped
    <3>2. meta'.lastSuccess <= t.finishedAt
      BY <1>4, <1>8, <3>1 DEF SnapshotType
    <3> QED
      BY <1>10, <2>2, <3>1, <3>2 DEF Turns, InOrder
  <2> QED
    BY <1>9, <2>3, <2>4
<1>15. ASSUME r \notin hit' PROVE Books(r)'
  <2>1. run'[r] = Over /\ Books(r)
    BY <1>3, <1>9, <1>10, <1>15 DEF BooksKept
  <2> QED
    BY <1>1, <2>1, StatesTyped DEF Books, Closed, Logged
<1>16. BooksKept'
  BY <1>1, <1>3, <1>10, <1>15, BooksOfOne
<1>17. meta'.lastSuccess < meta.lastSuccess => overlapped
  BY <1>1, <1>4, <1>5, <1>7 DEF SnapshotType
<1> QED
  BY <1>11, <1>13, <1>14, <1>16, <1>17

LEMMA SettleEntryStep ==
  ASSUME RecordsInv, NEW r \in Runs, NEW ack \in Acks, SettleEntry(r, ack)
  PROVE  RecordsInv'
<1> USE DEF RecordsInv
<1>1. /\ unsettled[r] > 0 /\ Answer(r, ack)
      /\ unsettled' = [unsettled EXCEPT ![r] = @ - 1]
      /\ entries' = IF Applied(ack) THEN [entries EXCEPT ![r] = @ + 1] ELSE entries
      /\ UNCHANGED <<run, job, summarized, meta, now, overlapped>>
  BY DEF SettleEntry
<1>2. hit' \subseteq Runs /\ hit \subseteq hit' /\ (ack = "ok" \/ r \in hit')
  BY <1>1, AnswerMarks
<1>3. Types'
  BY <1>1, <1>2 DEF Types
<1>4. Past' /\ Turns'
  BY <1>1 DEF Past, Turns, Active, InOrder
<1>5. ASSUME r \notin hit' PROVE Books(r)'
  <2>1. Logged(r)' = Logged(r)
    BY <1>1, <1>2, <1>5 DEF Logged, Types, Applied
  <2> QED
    BY <1>1, <1>2, <1>5, <2>1 DEF Books, BooksKept, Closed
<1>6. BooksKept'
  BY <1>1, <1>2, <1>5, BooksOfOne DEF Types
<1> QED
  BY <1>3, <1>4, <1>6

LEMMA DieStep ==
  ASSUME RecordsInv, NEW r \in Runs, Die(r)
  PROVE  RecordsInv'
<1> USE DEF RecordsInv
<1>1. /\ hit' = hit \cup {r} /\ run' = [run EXCEPT ![r] = Over]
      /\ unsettled' = [unsettled EXCEPT ![r] = 0]
      /\ UNCHANGED <<job, entries, summarized, meta, now, overlapped>>
  BY DEF Die
<1>2. run'[r] = Over /\ \A q \in Runs \ {r} : run'[q] = run[q]
  BY <1>1 DEF Types
<1>3. Types'
  BY <1>1, StatesTyped DEF Types
<1>4. Past'
  BY <1>1, <1>2, StatesTyped DEF Past, Types, SnapshotType
<1>5. Turns'
  <2>1. Active' \subseteq Active \ {r}
    BY <1>2, StatesTyped DEF Active
  <2> QED
    BY <1>1, <1>2, <2>1 DEF Turns, InOrder
<1>6. BooksKept'
  BY <1>1, <1>2, BooksOfOne DEF Types
<1> QED
  BY <1>3, <1>4, <1>5, <1>6

\* Every step keeps the invariant, and the last success goes back in none unless two
\* runs have overlapped.
LEMMA RecordsStep ==
  ASSUME RecordsInv, [Next]_vars
  PROVE  RecordsInv' /\ (meta'.lastSuccess < meta.lastSuccess => overlapped)
<1>1. meta.lastSuccess \in Nat
  BY DEF RecordsInv, Types, SnapshotType
<1>2. ASSUME NEW r \in Runs, Begin(r) \/ Drop(r) \/ EndDrain(r) \/ DrainThrows(r)
      PROVE  RecordsInv' /\ UNCHANGED meta
  <2>1. RecordsInv'
    BY <1>2, BeginStep, DropStep, EndDrainStep, DrainThrowsStep
  <2>2. UNCHANGED meta
    BY <1>2 DEF Begin, Drop, EndDrain, DrainThrows
  <2> QED
    BY <2>1, <2>2
<1>3. ASSUME NEW r \in Runs, NEW ack \in Acks, DatabaseCall(r, ack), ~WriteMetadata(r, ack)
      PROVE  RecordsInv' /\ UNCHANGED meta
  <2>1. RecordsInv'
    BY <1>3, StartJobStep, RecordFailureStep, FinishJobStep, ReadMetadataStep,
       SettleEntryStep DEF DatabaseCall
  <2>2. UNCHANGED meta
    BY <1>3 DEF DatabaseCall, StartJob, RecordFailure, FinishJob, ReadMetadata, SettleEntry
  <2> QED
    BY <2>1, <2>2
<1>4. ASSUME NEW r \in Runs, Die(r)
      PROVE  RecordsInv' /\ UNCHANGED meta
  BY <1>4, DieStep DEF Die
<1>5. CASE UNCHANGED vars
  BY <1>1, <1>5 DEF vars, RecordsInv, Types, BooksKept, Books, Closed, Logged, Past, Turns,
     Active, InOrder
<1> QED
  BY <1>1, <1>2, <1>3, <1>4, <1>5, WriteMetadataStep DEF Next

LEMMA RecordsAlways == Spec => []RecordsInv
  BY RecordsInit, RecordsStep, PTL DEF Spec

\* For any number of runs, refused records, overlaps and faults: the job row of a run
\* that nothing hit is closed and agrees with the failure log, though nobody awaits the
\* inserts of SyncEngine.recordFailureFireAndForget.
THEOREM JobRowsAgree == Spec => []JobRowsTrue
<1>1. RecordsInv => JobRowsTrue
  <2> SUFFICES ASSUME RecordsInv, NEW r \in Runs,
                      run[r].pc = "over", unsettled[r] = 0, r \notin hit
               PROVE  /\ job[r].outcome \in Outcomes
                      /\ IF job[r].thrown THEN r \in summarized ELSE entries[r] = job[r].failed
    BY DEF JobRowsTrue
  <2> QED
    BY DEF RecordsInv, BooksKept, Books, Closed, Logged, Types
<1> QED
  BY <1>1, RecordsAlways, PTL

\* For any number of runs: lastSuccessfulSyncAt goes back only after two runs have
\* overlapped (upsertMetadataSnapshot reads the row and writes it in two calls).
THEOREM LastSuccessStands == Spec => LastSuccessAdvances
<1>1. RecordsInv /\ [Next]_vars => [meta'.lastSuccess < meta.lastSuccess => overlapped]_vars
  BY RecordsStep
<1> QED
  BY <1>1, RecordsAlways, PTL DEF Spec, LastSuccessAdvances

(***************************************************************************)
(* The bounds of the counters                                              *)
(***************************************************************************)

\* What a run is at its various points: s its state, row its job row, logged its entries
\* in the log or on their way there.
ShapeOf(s, row, logged) ==
  /\ s.dropped <= MaxDrops /\ logged <= MaxDrops /\ row.failed <= MaxDrops
  /\ s.pc \in {"unborn", "start_job"} => row = NoJob /\ s.dropped = 0
  /\ s.pc \in {"unborn", "start_job", "drain"} => ~s.caught /\ logged <= s.dropped
  /\ s.pc \in {"drain", "finish_job"} /\ ~s.caught => row.outcome \notin Outcomes
  /\ s.pc = "record_failure" => s.caught
  /\ s.pc \in {"finish_job", "read_metadata", "write_metadata"} => s.outcome \in Outcomes
  /\ s.caught => /\ s.outcome = "failed"
                 /\ s.pc \in {"record_failure", "finish_job", "read_metadata", "write_metadata"}

Shapes == \A r \in Runs : ShapeOf(run[r], job[r], Logged(r))

\* The times written down lie in the past, too.
Dated ==
  /\ meta.completedAt < now
  /\ \A r \in Runs : job[r].finishedAt < now /\ run[r].existing.completedAt < now

\* A run reads the clock once at the end of its drain or on the way to the catch block,
\* and a second time only there; it writes the row of the metadata once before the catch
\* block or without it, and once after.
Timed  == {r \in Runs : run[r].pc \in {"record_failure", "finish_job", "read_metadata",
                                       "write_metadata", "over"}}
Thrown == {r \in Runs : run[r].caught \/ run[r].pc = "over"}
Gone   == {r \in Runs : run[r].pc = "over"}

Writes == Cardinality(Thrown) + Cardinality(Gone)

Counted ==
  /\ now <= 1 + Cardinality(Timed) + Cardinality(Thrown)
  /\ meta.failures <= Writes
  /\ \A r \in Runs : run[r].existing.failures <= Writes

FaultsBounded ==
  /\ faults \in [storage : Nat, crash : Nat]
  /\ faults.storage + faults.crash <= MaxFaults

BoundsInv == Shapes /\ Dated /\ Counted /\ FaultsBounded

LEMMA RunsFinite ==
  /\ MaxRuns \in Nat /\ MaxDrops \in Nat /\ MaxFaults \in Nat
  /\ IsFiniteSet(Runs) /\ Cardinality(Runs) = MaxRuns
<1>1. MaxRuns \in Nat \ {0} /\ MaxDrops \in Nat /\ MaxFaults \in Nat
  BY RunsAssumption, BoundsAssumption
<1>2. IsFiniteSet(1 .. MaxRuns) /\ Cardinality(1 .. MaxRuns) = MaxRuns
  BY <1>1, FS_Interval
<1> QED
  BY <1>1, <1>2 DEF Runs

\* A set of runs that gains at most the run that moves.
LEMMA Grows ==
  ASSUME NEW S \in SUBSET Runs, NEW T \in SUBSET Runs, NEW r \in Runs,
         \A q \in Runs \ {r} : q \in T <=> q \in S, r \in S => r \in T
  PROVE  /\ Cardinality(S) \in Nat /\ Cardinality(T) \in Nat
         /\ Cardinality(S) <= MaxRuns /\ Cardinality(T) <= MaxRuns
         /\ Cardinality(T) = Cardinality(S) + (IF r \in T \ S THEN 1 ELSE 0)
<1>1. IsFiniteSet(S) /\ IsFiniteSet(T) /\ Cardinality(S) <= MaxRuns /\ Cardinality(T) <= MaxRuns
  BY RunsFinite, FS_Subset
<1>2. Cardinality(S) \in Nat /\ Cardinality(T) \in Nat
  BY <1>1, FS_CardinalityType
<1>3. CASE r \in T \ S
  <2>1. T = S \cup {r}
    BY <1>3
  <2>2. Cardinality(S \cup {r}) = Cardinality(S) + 1
    BY <1>1, <1>3, FS_AddElement
  <2> QED
    BY <1>1, <1>2, <1>3, <2>1, <2>2
<1>4. CASE r \notin T \ S
  <2>1. T = S
    BY <1>4
  <2> QED
    BY <1>1, <1>2, <1>4, <2>1
<1> QED
  BY <1>3, <1>4

\* The run that is over and the one that is caught, in what the counters see of them.
LEMMA EndsKnown ==
  ASSUME Types, NEW r \in Runs
  PROVE  /\ Over.existing.failures = 0 /\ Over.existing.completedAt = 0
         /\ Over.caught = FALSE /\ Over.dropped = 0
         /\ Caught(r).dropped = run[r].dropped
         /\ NoJob.outcome = "none" /\ Started.outcome = "in_progress" /\ Started.failed = 0
         /\ NoJob.failed = 0 /\ Started.finishedAt = 0 /\ NoJob.finishedAt = 0
  BY DEF Over, Unborn, NoSnapshot, Never, Caught, Types, RunType, NoJob, Started

\* Where the sets of runs stand after run r has gone on as t.
LEMMA SetsAfter ==
  ASSUME Types, NEW r \in Runs, NEW t, run' = [run EXCEPT ![r] = t]
  PROVE  /\ \A q \in Runs \ {r} : /\ q \in Timed' <=> q \in Timed
                                  /\ q \in Thrown' <=> q \in Thrown
                                  /\ q \in Gone' <=> q \in Gone
         /\ r \in Timed' <=> t.pc \in {"record_failure", "finish_job", "read_metadata",
                                       "write_metadata", "over"}
         /\ r \in Thrown' <=> t.caught \/ t.pc = "over"
         /\ r \in Gone' <=> t.pc = "over"
         /\ run'[r] = t /\ \A q \in Runs \ {r} : run'[q] = run[q]
         /\ {Timed, Timed', Thrown, Thrown', Gone, Gone'} \subseteq SUBSET Runs
<1>1. run'[r] = t /\ \A q \in Runs \ {r} : run'[q] = run[q]
  BY DEF Types
<1> QED
  BY <1>1 DEF Timed, Thrown, Gone

LEMMA CountKeeps ==
  ASSUME Types, Types', Counted, NEW r \in Runs, NEW t, run' = [run EXCEPT ![r] = t],
         r \in Timed => r \in Timed', r \in Thrown => r \in Thrown', r \in Gone => r \in Gone',
         \/ now' = now
         \/ now' = now + 1 /\ r \in (Timed' \ Timed) \cup (Thrown' \ Thrown),
         \/ meta'.failures \in {0, meta.failures}
         \/ /\ meta'.failures = run[r].existing.failures + 1
            /\ r \in (Thrown' \ Thrown) \cup (Gone' \ Gone),
         t.existing.failures \in {0, run[r].existing.failures, meta.failures}
  PROVE  Counted'
<1>1. /\ \A q \in Runs \ {r} : /\ q \in Timed' <=> q \in Timed
                               /\ q \in Thrown' <=> q \in Thrown
                               /\ q \in Gone' <=> q \in Gone
                               /\ run'[q] = run[q]
      /\ run'[r] = t
      /\ {Timed, Timed', Thrown, Thrown', Gone, Gone'} \subseteq SUBSET Runs
  BY SetsAfter
<1>2. /\ Cardinality(Timed) \in Nat /\ Cardinality(Timed') \in Nat
      /\ Cardinality(Timed') = Cardinality(Timed) + (IF r \in Timed' \ Timed THEN 1 ELSE 0)
  BY <1>1, Grows
<1>3. /\ Cardinality(Thrown) \in Nat /\ Cardinality(Thrown') \in Nat
      /\ Cardinality(Thrown') = Cardinality(Thrown) + (IF r \in Thrown' \ Thrown THEN 1 ELSE 0)
  BY <1>1, Grows
<1>4. /\ Cardinality(Gone) \in Nat /\ Cardinality(Gone') \in Nat
      /\ Cardinality(Gone') = Cardinality(Gone) + (IF r \in Gone' \ Gone THEN 1 ELSE 0)
  BY <1>1, Grows
<1>5. /\ now \in Nat /\ now' \in Nat /\ meta.failures \in Nat /\ meta'.failures \in Nat
      /\ \A q \in Runs : run[q].existing.failures \in Nat /\ run'[q].existing.failures \in Nat
  BY DEF Types, RunType, SnapshotType
<1>6. now' <= 1 + Cardinality(Timed') + Cardinality(Thrown')
  BY <1>2, <1>3, <1>5 DEF Counted
<1>7. /\ Writes \in Nat /\ Writes' \in Nat /\ Writes <= Writes'
      /\ r \in (Thrown' \ Thrown) \cup (Gone' \ Gone) => Writes + 1 <= Writes'
  BY <1>3, <1>4 DEF Writes
<1>8. /\ meta.failures <= Writes /\ run[r].existing.failures <= Writes
      /\ \A q \in Runs : run[q].existing.failures <= Writes
  BY DEF Counted
<1>9. meta'.failures <= Writes'
  BY <1>5, <1>7, <1>8
<1>10. \A q \in Runs : run'[q].existing.failures <= Writes'
  <2> SUFFICES ASSUME NEW q \in Runs PROVE run'[q].existing.failures <= Writes'
    OBVIOUS
  <2>1. CASE q = r
    BY <1>1, <1>5, <1>7, <1>8, <2>1
  <2>2. CASE q # r
    <3>1. run'[q].existing.failures = run[q].existing.failures
      BY <1>1, <2>2
    <3> QED
      BY <1>5, <1>7, <1>8, <3>1
  <2> QED
    BY <2>1, <2>2
<1> QED
  BY <1>6, <1>9, <1>10 DEF Counted

LEMMA DatedKeeps ==
  ASSUME Types, Types', Dated, NEW r \in Runs, NEW t, run' = [run EXCEPT ![r] = t],
         now' \in {now, now + 1}, t.existing.completedAt < now, meta'.completedAt < now,
         \A q \in Runs : job'[q].finishedAt < now
  PROVE  Dated'
<1>1. /\ now \in Nat /\ now' \in Nat /\ meta'.completedAt \in Nat
      /\ \A q \in Runs : job'[q].finishedAt \in Nat /\ run'[q].existing.completedAt \in Nat
  BY DEF Types, RunType, SnapshotType, JobType
<1>2. \A q \in Runs : run'[q].existing.completedAt < now
  BY SetsAfter DEF Dated
<1> QED
  BY <1>1, <1>2 DEF Dated

LEMMA ShapesKeep ==
  ASSUME Types, Shapes, NEW r \in Runs, NEW t, run' = [run EXCEPT ![r] = t],
         \A q \in Runs \ {r} : UNCHANGED <<job[q], entries[q], unsettled[q]>>,
         ShapeOf(t, job'[r], entries'[r] + unsettled'[r])
  PROVE  Shapes'
<1> SUFFICES ASSUME NEW q \in Runs PROVE ShapeOf(run[q], job[q], Logged(q))'
  BY DEF Shapes
<1>1. CASE q = r
  <2>1. run'[q] = t
    BY <1>1, SetsAfter
  <2> QED
    BY <1>1, <2>1 DEF Logged, ShapeOf
<1>2. CASE q # r
  <2>1. run'[q] = run[q] /\ UNCHANGED <<job[q], entries[q], unsettled[q]>>
    BY <1>2, SetsAfter
  <2> QED
    BY <2>1 DEF Shapes, Logged, ShapeOf
<1> QED
  BY <1>1, <1>2

\* What a database call of run r keeps that writes no metadata.
LEMMA CallBounds ==
  ASSUME Types, Types', Shapes, Dated, Counted,
         NEW r \in Active, NEW ack \in Acks, NEW s, Continue(r, ack, s), UNCHANGED meta,
         s.caught = run[r].caught, s.existing \in {run[r].existing, meta},
         s.pc \in {"drain", "finish_job", "read_metadata", "write_metadata"},
         r \in Timed => s.pc # "drain",
         \A q \in Runs \ {r} : UNCHANGED <<job[q], entries[q], unsettled[q]>>,
         \A q \in Runs : job'[q].finishedAt < now,
         UNCHANGED <<entries[r], unsettled[r]>>, job'[r].failed <= MaxDrops,
         ack = "ok" => ShapeOf(s, job'[r], entries'[r] + unsettled'[r])
  PROVE  Shapes' /\ Dated' /\ Counted'
<1>1. r \in Runs /\ run[r].pc \notin {"unborn", "over"}
  BY DEF Active
<1>2. PICK t \in {s, Over, Caught(r)} :
        /\ run' = [run EXCEPT ![r] = t]
        /\ t = s => ack = "ok" /\ now' = now
        /\ t = Over => run[r].caught /\ now' = now
        /\ t = Caught(r) => ~run[r].caught /\ now' = now + 1
  <2>1. Over.pc = "over" /\ Caught(r).pc = "record_failure"
    BY <1>1, StatesTyped, CaughtTyped
  <2>2. s # Over /\ s # Caught(r) /\ Over # Caught(r)
    BY <2>1
  <2> QED
    BY <1>1, <2>2, AfterCall
<1>3. now' \in {now, now + 1}
  BY <1>2
<1>4. ShapeOf(run[r], job[r], entries[r] + unsettled[r])
  BY <1>1 DEF Shapes, Logged
<1>5. /\ t.existing \in {run[r].existing, meta, Over.existing}
      /\ t = Over => t.pc = "over"
      /\ t = Caught(r) => t.pc = "record_failure" /\ t.caught
  BY <1>1, <1>2, StatesTyped, CaughtTyped
<1>6. ShapeOf(t, job'[r], entries'[r] + unsettled'[r])
  <2>1. CASE t = s
    BY <1>2, <2>1
  <2>2. CASE t = Over
    <3>1. Over.pc = "over" /\ Over.caught = FALSE /\ Over.dropped = 0
      BY DEF Over, Unborn
    <3>2. 0 <= MaxDrops
      BY RunsFinite
    <3>3. t.pc = "over" /\ t.caught = FALSE /\ t.dropped = 0
      BY <2>2, <3>1
    <3>4. entries'[r] + unsettled'[r] <= MaxDrops
      BY <1>4 DEF ShapeOf
    <3> QED
      BY <3>2, <3>3, <3>4 DEF ShapeOf
  <2>3. CASE t = Caught(r)
    BY <1>1, <1>4, <2>3, CaughtTyped, EndsKnown DEF ShapeOf
  <2> QED
    BY <1>2, <2>1, <2>2, <2>3
<1>7. Shapes'
  BY <1>1, <1>2, <1>6, ShapesKeep
<1>8. t.existing.completedAt < now
  <2>1. 0 < now
    BY DEF Dated, Types, SnapshotType
  <2> QED
    BY <1>1, <1>5, <2>1, EndsKnown DEF Dated
<1>9. Dated'
  BY <1>1, <1>2, <1>3, <1>8, DatedKeeps DEF Dated
<1>10. /\ r \in Timed' <=> t.pc \in {"record_failure", "finish_job", "read_metadata",
                                    "write_metadata", "over"}
       /\ r \in Thrown' <=> t.caught \/ t.pc = "over"
       /\ r \in Gone' <=> t.pc = "over"
       /\ r \in Thrown <=> run[r].caught
       /\ r \notin Gone
  BY <1>1, <1>2, SetsAfter DEF Thrown, Gone
<1>11. /\ r \in Timed => r \in Timed'
       /\ r \in Thrown => r \in Thrown'
       /\ now' = now \/ (now' = now + 1 /\ r \in Thrown' \ Thrown)
  BY <1>2, <1>5, <1>10
<1>12. t.existing.failures \in {0, run[r].existing.failures, meta.failures}
  BY <1>1, <1>5, EndsKnown
<1>13. Counted'
  BY <1>1, <1>2, <1>10, <1>11, <1>12, CountKeeps
<1> QED
  BY <1>7, <1>9, <1>13

\* A call that does not answer ok uses up a fault.
LEMMA AnswerFaults ==
  ASSUME FaultsBounded, NEW r, NEW ack \in Acks, Answer(r, ack)
  PROVE  /\ FaultsBounded' /\ faults'.crash = faults.crash
         /\ faults'.storage = faults.storage + (IF ack = "ok" THEN 0 ELSE 1)
  BY RunsFinite DEF FaultsBounded, Answer, FaultsLeft

LEMMA BoundsInit == Init => BoundsInv
<1> SUFFICES ASSUME Init PROVE BoundsInv
  OBVIOUS
<1>1. /\ now = 1 /\ meta.failures = 0 /\ meta.completedAt = 0
      /\ \A r \in Runs : /\ run[r].pc = "unborn" /\ run[r].dropped = 0 /\ run[r].caught = FALSE
                         /\ run[r].existing.failures = 0 /\ run[r].existing.completedAt = 0
                         /\ job[r] = NoJob /\ job[r].failed = 0 /\ job[r].finishedAt = 0
                         /\ Logged(r) = 0
  BY DEF Init, Unborn, NoSnapshot, NoJob, Never, Logged
<1>2. Shapes
  BY <1>1, RunsFinite DEF Shapes, ShapeOf
<1>3. Dated
  BY <1>1 DEF Dated
<1>4. Timed = {} /\ Thrown = {} /\ Gone = {}
  BY <1>1 DEF Timed, Thrown, Gone
<1>5. Counted
  BY <1>1, <1>4, FS_EmptySet DEF Counted, Writes
<1>6. FaultsBounded
  BY RunsFinite DEF Init, FaultsBounded
<1> QED
  BY <1>2, <1>3, <1>5, <1>6 DEF BoundsInv

\* The steps of a run that call no database.
LEMMA LocalBounds ==
  ASSUME Types, Types', BoundsInv, NEW r \in Runs,
         Begin(r) \/ Drop(r) \/ EndDrain(r) \/ DrainThrows(r)
  PROVE  BoundsInv'
<1> USE DEF BoundsInv
<1>0. UNCHANGED <<job, entries, meta, faults>> /\ FaultsBounded'
  BY DEF Begin, Drop, EndDrain, DrainThrows, Catch, FaultsBounded
<1>1. \A q \in Runs : job'[q].finishedAt < now
  BY <1>0 DEF Dated
<1>2. ShapeOf(run[r], job[r], entries[r] + unsettled[r])
  BY DEF Shapes, Logged
<1>3. entries[r] \in Nat /\ unsettled[r] \in Nat /\ run[r] \in RunType
  BY DEF Types
<1>a. ASSUME NEW t, run' = [run EXCEPT ![r] = t], t.existing = run[r].existing,
             run[r].pc \in {"unborn", "drain"},
             now' = now \/ (now' = now + 1 /\ t.pc \in {"record_failure", "finish_job"}),
             \A q \in Runs \ {r} : UNCHANGED unsettled[q],
             ShapeOf(t, job'[r], entries'[r] + unsettled'[r])
      PROVE  BoundsInv'
  <2>1. Shapes'
    BY <1>0, <1>a, ShapesKeep
  <2>2. Dated'
    <3>1. now' \in {now, now + 1} /\ t.existing.completedAt < now /\ meta'.completedAt < now
      BY <1>0, <1>a DEF Dated
    <3> QED
      BY <1>1, <1>a, <3>1, DatedKeeps
  <2>3. r \notin Timed /\ r \notin Thrown /\ r \notin Gone
    BY <1>2, <1>a DEF Timed, Thrown, Gone, ShapeOf
  <2>4. t.pc \in {"record_failure", "finish_job"} => r \in Timed'
    BY <1>a, SetsAfter
  <2>5. Counted'
    BY <1>0, <1>a, <2>3, <2>4, CountKeeps
  <2> QED
    BY <1>0, <2>1, <2>2, <2>5
<1>4. CASE Begin(r)
  <2> DEFINE t == [run[r] EXCEPT !.pc = "start_job"]
  <2>1. run' = [run EXCEPT ![r] = t] /\ run[r].pc = "unborn" /\ UNCHANGED <<unsettled, now>>
    BY <1>4 DEF Begin
  <2>2. /\ t.pc = "start_job" /\ t.existing = run[r].existing /\ t.dropped = run[r].dropped
        /\ t.caught = run[r].caught
    BY <1>3 DEF RunType
  <2> HIDE DEF t
  <2>3. ShapeOf(t, job'[r], entries'[r] + unsettled'[r])
    BY <1>0, <1>2, <2>1, <2>2 DEF ShapeOf
  <2> QED
    BY <1>a, <2>1, <2>2, <2>3
<1>5. CASE Drop(r)
  <2> DEFINE t == [run[r] EXCEPT !.dropped = @ + 1]
  <2>1. /\ run' = [run EXCEPT ![r] = t] /\ run[r].pc = "drain" /\ UNCHANGED now
        /\ run[r].dropped < MaxDrops /\ unsettled' = [unsettled EXCEPT ![r] = @ + 1]
    BY <1>5 DEF Drop, Issue
  <2>2. /\ t.pc = "drain" /\ t.existing = run[r].existing /\ t.dropped = run[r].dropped + 1
        /\ t.caught = run[r].caught /\ run[r].dropped \in Nat
    BY <1>3, <2>1 DEF RunType
  <2> HIDE DEF t
  <2>3. unsettled'[r] = unsettled[r] + 1 /\ \A q \in Runs \ {r} : UNCHANGED unsettled[q]
    BY <2>1 DEF Types
  <2>4. ShapeOf(t, job'[r], entries'[r] + unsettled'[r])
    BY <1>0, <1>2, <1>3, <2>1, <2>2, <2>3, RunsFinite DEF ShapeOf
  <2> QED
    BY <1>a, <2>1, <2>2, <2>3, <2>4
<1>6. CASE EndDrain(r)
  <2>1. PICK upserted \in BOOLEAN :
          run' = [run EXCEPT ![r] = [run[r] EXCEPT !.pc = "finish_job", !.finishedAt = now,
                                                   !.outcome = OutcomeOf(run[r], upserted)]]
    BY <1>6 DEF EndDrain
  <2> DEFINE t == [run[r] EXCEPT !.pc = "finish_job", !.finishedAt = now,
                                 !.outcome = OutcomeOf(run[r], upserted)]
  <2>2. run[r].pc = "drain" /\ run' = [run EXCEPT ![r] = t] /\ now' = now + 1
        /\ UNCHANGED unsettled
    BY <1>6, <2>1 DEF EndDrain
  <2>3. OutcomeOf(run[r], upserted) \in Outcomes
    BY DEF OutcomeOf, Outcomes
  <2>4. /\ t.pc = "finish_job" /\ t.outcome \in Outcomes /\ t.existing = run[r].existing
        /\ t.dropped = run[r].dropped /\ t.caught = run[r].caught
    BY <1>3, <2>3 DEF RunType
  <2> HIDE DEF t
  <2>5. ShapeOf(t, job'[r], entries'[r] + unsettled'[r])
    BY <1>0, <1>2, <2>2, <2>4 DEF ShapeOf
  <2> QED
    BY <1>a, <2>2, <2>4, <2>5
<1>7. CASE DrainThrows(r)
  <2>1. run[r].pc = "drain" /\ run' = [run EXCEPT ![r] = Caught(r)] /\ now' = now + 1
        /\ UNCHANGED unsettled
    BY <1>7 DEF DrainThrows, Catch, Caught
  <2>2. ShapeOf(Caught(r), job'[r], entries'[r] + unsettled'[r])
    BY <1>0, <1>2, <2>1, CaughtTyped, EndsKnown DEF ShapeOf
  <2> QED
    BY <1>a, <2>1, <2>2, CaughtTyped
<1> QED
  BY <1>4, <1>5, <1>6, <1>7

LEMMA StartJobBounds ==
  ASSUME Types, Types', BoundsInv, NEW r \in Runs, NEW ack \in Acks, StartJob(r, ack)
  PROVE  BoundsInv'
<1> USE DEF BoundsInv
<1> DEFINE s == [run[r] EXCEPT !.pc = "drain"]
<1>1. /\ run[r].pc = "start_job" /\ Answer(r, ack) /\ Continue(r, ack, s)
      /\ UNCHANGED <<entries, meta, unsettled>>
      /\ job' = IF Applied(ack) THEN [job EXCEPT ![r] = Started] ELSE job
  BY DEF StartJob
<1>2. /\ r \in Active /\ s.pc = "drain" /\ s.dropped = run[r].dropped
      /\ s.caught = run[r].caught /\ s.existing = run[r].existing
  BY <1>1 DEF Active, Types, RunType
<1> HIDE DEF s
<1>3. ShapeOf(run[r], job[r], entries[r] + unsettled[r])
  BY DEF Shapes, Logged
<1>4. /\ \A q \in Runs \ {r} : job'[q] = job[q]
      /\ job'[r] \in {job[r], Started} /\ (ack = "ok" => job'[r] = Started)
  BY <1>1 DEF Types, Applied
<1>5. 0 < now /\ job'[r].failed <= MaxDrops /\ Started.outcome \notin Outcomes
  <2>1. 0 < now
    BY DEF Dated, Types, SnapshotType
  <2>2. Started.outcome \notin Outcomes /\ Started.failed = 0
    BY EndsKnown DEF Outcomes
  <2> QED
    BY <1>3, <1>4, <2>1, <2>2, RunsFinite DEF ShapeOf
<1>6. \A q \in Runs : job'[q].finishedAt < now
  BY <1>4, <1>5, EndsKnown DEF Dated
<1>7. ack = "ok" => ShapeOf(s, job'[r], entries'[r] + unsettled'[r])
  BY <1>1, <1>2, <1>3, <1>4, <1>5 DEF ShapeOf
<1>8. r \notin Timed
  BY <1>1 DEF Timed
<1>9. Shapes' /\ Dated' /\ Counted'
  BY <1>1, <1>2, <1>4, <1>5, <1>6, <1>7, <1>8, CallBounds
<1> QED
  BY <1>1, <1>9, AnswerFaults

LEMMA RecordFailureBounds ==
  ASSUME Types, Types', BoundsInv, NEW r \in Runs, NEW ack \in Acks, RecordFailure(r, ack)
  PROVE  BoundsInv'
<1> USE DEF BoundsInv
<1> DEFINE s == [run[r] EXCEPT !.pc = "finish_job"]
<1>1. /\ run[r].pc = "record_failure" /\ Answer(r, ack)
      /\ UNCHANGED <<job, entries, meta, unsettled>>
  BY DEF RecordFailure
<1>2. /\ r \in Active /\ s.pc = "finish_job" /\ s.dropped = run[r].dropped
      /\ s.caught = run[r].caught /\ s.existing = run[r].existing /\ s.outcome = run[r].outcome
  BY <1>1 DEF Active, Types, RunType
<1>3. PICK a \in Acks : Continue(r, a, s)
  <2>1. "failed" \in Acks
    BY DEF Acks
  <2>2. CASE job[r] = NoJob
    BY <2>1, <2>2 DEF RecordFailure, Continue
  <2>3. CASE job[r] # NoJob
    BY <2>3 DEF RecordFailure
  <2> QED
    BY <2>2, <2>3
<1> HIDE DEF s
<1>4. ShapeOf(run[r], job[r], entries[r] + unsettled[r])
  BY DEF Shapes, Logged
<1>5. ShapeOf(s, job'[r], entries'[r] + unsettled'[r]) /\ job'[r].failed <= MaxDrops
  BY <1>1, <1>2, <1>4 DEF ShapeOf, Outcomes
<1>6. \A q \in Runs : job'[q].finishedAt < now
  BY <1>1 DEF Dated
<1>7. Shapes' /\ Dated' /\ Counted'
  BY <1>1, <1>2, <1>3, <1>5, <1>6, CallBounds
<1> QED
  BY <1>1, <1>7, AnswerFaults

LEMMA FinishJobBounds ==
  ASSUME Types, Types', Past, BoundsInv, NEW r \in Runs, NEW ack \in Acks, FinishJob(r, ack)
  PROVE  BoundsInv'
<1> USE DEF BoundsInv
<1> DEFINE s == [run[r] EXCEPT !.pc = "read_metadata"]
           closed == [outcome |-> run[r].outcome, finishedAt |-> run[r].finishedAt,
                      failed |-> FailedCount(run[r]), thrown |-> run[r].caught]
<1>1. /\ run[r].pc = "finish_job" /\ Answer(r, ack) /\ Continue(r, ack, s)
      /\ job' = IF Applied(ack) THEN [job EXCEPT ![r] = closed] ELSE job
      /\ UNCHANGED <<entries, meta, unsettled>>
  BY DEF FinishJob
<1>2. /\ r \in Active /\ s.pc = "read_metadata" /\ s.dropped = run[r].dropped
      /\ s.caught = run[r].caught /\ s.existing = run[r].existing /\ s.outcome = run[r].outcome
  BY <1>1 DEF Active, Types, RunType
<1> HIDE DEF s
<1>3. ShapeOf(run[r], job[r], entries[r] + unsettled[r])
  BY DEF Shapes, Logged
<1>4. closed.failed <= MaxDrops /\ closed.finishedAt < now
  BY <1>3, RunsFinite DEF FailedCount, ShapeOf, Past
<1> HIDE DEF closed
<1>5. /\ \A q \in Runs \ {r} : job'[q] = job[q]
      /\ job'[r] \in {job[r], closed}
  BY <1>1 DEF Types
<1>6. job'[r].failed <= MaxDrops
  BY <1>3, <1>4, <1>5 DEF ShapeOf
<1>7. \A q \in Runs : job'[q].finishedAt < now
  BY <1>4, <1>5 DEF Dated
<1>8. ShapeOf(s, job'[r], entries'[r] + unsettled'[r])
  BY <1>1, <1>2, <1>3, <1>6 DEF ShapeOf
<1>9. Shapes' /\ Dated' /\ Counted'
  BY <1>1, <1>2, <1>5, <1>6, <1>7, <1>8, CallBounds
<1> QED
  BY <1>1, <1>9, AnswerFaults

LEMMA ReadMetadataBounds ==
  ASSUME Types, Types', BoundsInv, NEW r \in Runs, NEW ack \in Acks, ReadMetadata(r, ack)
  PROVE  BoundsInv'
<1> USE DEF BoundsInv
<1> DEFINE s == [run[r] EXCEPT !.pc = "write_metadata", !.existing = meta]
<1>1. /\ run[r].pc = "read_metadata" /\ Answer(r, ack) /\ Continue(r, ack, s)
      /\ UNCHANGED <<job, entries, meta, unsettled>>
  BY DEF ReadMetadata
<1>2. /\ r \in Active /\ s.pc = "write_metadata" /\ s.dropped = run[r].dropped
      /\ s.caught = run[r].caught /\ s.existing = meta /\ s.outcome = run[r].outcome
  BY <1>1 DEF Active, Types, RunType
<1> HIDE DEF s
<1>3. ShapeOf(run[r], job[r], entries[r] + unsettled[r])
  BY DEF Shapes, Logged
<1>4. ShapeOf(s, job'[r], entries'[r] + unsettled'[r]) /\ job'[r].failed <= MaxDrops
  BY <1>1, <1>2, <1>3 DEF ShapeOf
<1>5. \A q \in Runs : job'[q].finishedAt < now
  BY <1>1 DEF Dated
<1>6. Shapes' /\ Dated' /\ Counted'
  BY <1>1, <1>2, <1>4, <1>5, CallBounds
<1> QED
  BY <1>1, <1>6, AnswerFaults

\* Each write of the metadata, answered or not, ends the run or moves it to the catch block.
LEMMA WriteMetadataBounds ==
  ASSUME Types, Types', Past, BoundsInv, NEW r \in Runs, NEW ack \in Acks, WriteMetadata(r, ack)
  PROVE  BoundsInv'
<1> USE DEF BoundsInv
<1>1. /\ run[r].pc = "write_metadata" /\ Answer(r, ack) /\ Continue(r, ack, Over)
      /\ UNCHANGED <<job, entries, unsettled>>
  BY DEF WriteMetadata
<1>2. \/ meta' = meta
      \/ /\ meta'.completedAt = run[r].finishedAt
         /\ meta'.failures \in {0, run[r].existing.failures + 1}
  BY DEF WriteMetadata, FailuresAfter
<1>3. PICK t \in {Over, Caught(r)} :
        /\ run' = [run EXCEPT ![r] = t]
        /\ t = Over => now' = now
        /\ t = Caught(r) => ~run[r].caught /\ now' = now + 1
  <2>1. Over # Caught(r)
    BY StatesTyped, CaughtTyped
  <2> QED
    BY <1>1, <2>1, AfterCall
<1>4. /\ t.existing \in {run[r].existing, Over.existing}
      /\ t = Over => t.pc = "over" /\ t.caught = FALSE /\ t.dropped = 0
      /\ t = Caught(r) => /\ t.pc = "record_failure" /\ t.caught /\ t.outcome = "failed"
                          /\ t.dropped = run[r].dropped
  BY <1>3, StatesTyped, CaughtTyped, EndsKnown
<1>5. ShapeOf(run[r], job[r], entries[r] + unsettled[r])
  BY DEF Shapes, Logged
<1>6. ShapeOf(t, job'[r], entries'[r] + unsettled'[r])
  <2>1. CASE t = Over
    BY <1>1, <1>4, <1>5, <2>1, RunsFinite DEF ShapeOf
  <2>2. CASE t = Caught(r)
    BY <1>1, <1>4, <1>5, <2>2 DEF ShapeOf
  <2> QED
    BY <1>3, <2>1, <2>2
<1>7. Shapes'
  BY <1>1, <1>3, <1>6, ShapesKeep
<1>8. now' \in {now, now + 1} /\ t.existing.completedAt < now /\ meta'.completedAt < now
  <2>1. 0 < now
    BY DEF Dated, Types, SnapshotType
  <2> QED
    BY <1>2, <1>3, <1>4, <2>1, EndsKnown DEF Dated, Past
<1>9. Dated'
  <2>1. \A q \in Runs : job'[q].finishedAt < now
    BY <1>1 DEF Dated
  <2> QED
    BY <1>3, <1>8, <2>1, DatedKeeps
<1>10. /\ r \in Timed' <=> t.pc \in {"record_failure", "finish_job", "read_metadata",
                                    "write_metadata", "over"}
       /\ r \in Thrown' <=> t.caught \/ t.pc = "over"
       /\ r \in Gone' <=> t.pc = "over"
       /\ r \in Thrown <=> run[r].caught
       /\ r \notin Gone
  BY <1>1, <1>3, SetsAfter DEF Thrown, Gone
<1>11. /\ r \in Timed' /\ r \in Thrown'
       /\ r \in (Thrown' \ Thrown) \cup (Gone' \ Gone)
       /\ now' = now \/ (now' = now + 1 /\ r \in Thrown' \ Thrown)
  BY <1>3, <1>4, <1>10
<1>12. t.existing.failures \in {0, run[r].existing.failures, meta.failures}
  BY <1>4, EndsKnown
<1>13. Counted'
  BY <1>2, <1>3, <1>10, <1>11, <1>12, CountKeeps
<1> QED
  BY <1>1, <1>7, <1>9, <1>13, AnswerFaults

LEMMA SettleBounds ==
  ASSUME Types, Types', BoundsInv, NEW r \in Runs, NEW ack \in Acks, SettleEntry(r, ack)
  PROVE  BoundsInv'
<1> USE DEF BoundsInv
<1>1. /\ Answer(r, ack) /\ UNCHANGED <<run, job, meta, now>>
      /\ unsettled' = [unsettled EXCEPT ![r] = @ - 1]
      /\ entries' = IF Applied(ack) THEN [entries EXCEPT ![r] = @ + 1] ELSE entries
  BY DEF SettleEntry
<1>2. \A q \in Runs : Logged(q)' <= Logged(q) /\ Logged(q) \in Nat /\ Logged(q)' \in Nat
  BY <1>1 DEF Logged, Types
<1>3. \A q \in Runs : run[q].dropped \in Nat
  BY DEF Types, RunType
<1>4. Shapes'
  BY <1>1, <1>2, <1>3, RunsFinite DEF Shapes, ShapeOf
<1>5. Dated' /\ Counted'
  BY <1>1 DEF Dated, Counted, Writes, Timed, Thrown, Gone
<1> QED
  BY <1>1, <1>4, <1>5, AnswerFaults

LEMMA DieBounds ==
  ASSUME Types, Types', BoundsInv, NEW r \in Runs, Die(r)
  PROVE  BoundsInv'
<1> USE DEF BoundsInv
<1>1. /\ run' = [run EXCEPT ![r] = Over] /\ unsettled' = [unsettled EXCEPT ![r] = 0]
      /\ FaultsLeft /\ faults' = [faults EXCEPT !.crash = @ + 1]
      /\ UNCHANGED <<job, entries, meta, now>>
  BY DEF Die
<1>2. Over.pc = "over" /\ Over.caught = FALSE /\ Over.dropped = 0
      /\ Over.existing.failures = 0 /\ Over.existing.completedAt = 0
  BY StatesTyped, EndsKnown
<1>3. /\ unsettled'[r] = 0 /\ entries[r] \in Nat /\ unsettled[r] \in Nat
      /\ \A q \in Runs \ {r} : UNCHANGED unsettled[q]
  BY <1>1 DEF Types
<1>4. ShapeOf(run[r], job[r], entries[r] + unsettled[r])
  BY DEF Shapes, Logged
<1>5. ShapeOf(Over, job'[r], entries'[r] + unsettled'[r])
  BY <1>1, <1>2, <1>3, <1>4, RunsFinite DEF ShapeOf
<1>6. Shapes'
  BY <1>1, <1>3, <1>5, ShapesKeep
<1>7. Dated'
  <2>1. 0 < now
    BY DEF Dated, Types, SnapshotType
  <2>2. \A q \in Runs : job'[q].finishedAt < now
    BY <1>1 DEF Dated
  <2>3. Over.existing.completedAt < now /\ meta'.completedAt < now /\ now' \in {now, now + 1}
    BY <1>1, <1>2, <2>1 DEF Dated
  <2> QED
    BY <1>1, <2>2, <2>3, DatedKeeps
<1>8. Counted'
  <2>1. r \in Timed' /\ r \in Thrown' /\ r \in Gone'
    BY <1>1, <1>2, SetsAfter
  <2>2. Over.existing.failures \in {0, run[r].existing.failures, meta.failures}
    BY <1>2
  <2> QED
    BY <1>1, <2>1, <2>2, CountKeeps
<1>9. FaultsBounded'
  BY <1>1, RunsFinite DEF FaultsBounded, FaultsLeft
<1> QED
  BY <1>6, <1>7, <1>8, <1>9

LEMMA BoundsNext == RecordsInv /\ RecordsInv' /\ BoundsInv /\ [Next]_vars => BoundsInv'
<1> SUFFICES ASSUME RecordsInv, RecordsInv', BoundsInv, [Next]_vars PROVE BoundsInv'
  OBVIOUS
<1>1. Types /\ Types' /\ Past
  BY DEF RecordsInv
<1>2. ASSUME NEW r \in Runs, Begin(r) \/ Drop(r) \/ EndDrain(r) \/ DrainThrows(r)
      PROVE  BoundsInv'
  BY <1>1, <1>2, LocalBounds
<1>3. ASSUME NEW r \in Runs, NEW ack \in Acks, DatabaseCall(r, ack)
      PROVE  BoundsInv'
  BY <1>1, <1>3, StartJobBounds, RecordFailureBounds, FinishJobBounds, ReadMetadataBounds,
     WriteMetadataBounds, SettleBounds DEF DatabaseCall
<1>4. ASSUME NEW r \in Runs, Die(r)
      PROVE  BoundsInv'
  BY <1>1, <1>4, DieBounds
<1>5. CASE UNCHANGED vars
  BY <1>5 DEF vars, BoundsInv, Shapes, ShapeOf, Logged, Dated, Counted, Writes, Timed, Thrown,
     Gone, FaultsBounded
<1> QED
  BY <1>2, <1>3, <1>4, <1>5 DEF Next

\* For any number of runs, refused records, overlaps and faults: the tables and the runs
\* stay within their types, and the clock and the count of consecutive failures within
\* twice the number of runs (sync-engine.ts reads the clock at most twice in a run).
THEOREM TypeCorrect == Spec => []TypeOK
<1>1. RecordsInv /\ BoundsInv => TypeOK
  <2> SUFFICES ASSUME RecordsInv, BoundsInv PROVE TypeOK
    OBVIOUS
  <2> USE DEF BoundsInv
  <2>1. Types /\ Past
    BY DEF RecordsInv
  <2>2. /\ {Timed, Thrown, Gone} \subseteq SUBSET Runs
        /\ 1 \in Runs
    BY RunsAssumption DEF Timed, Thrown, Gone, Runs
  <2>3. /\ Cardinality(Timed) \in Nat /\ Cardinality(Thrown) \in Nat /\ Cardinality(Gone) \in Nat
        /\ Cardinality(Timed) <= MaxRuns /\ Cardinality(Thrown) <= MaxRuns
        /\ Cardinality(Gone) <= MaxRuns
    BY <2>2, Grows
  <2>4. /\ now \in Nat /\ now <= 2 * MaxRuns + 1 /\ now >= 1
        /\ Writes \in Nat /\ Writes <= 2 * MaxRuns
    BY <2>1, <2>3, RunsFinite DEF Counted, Writes, Dated, Types, SnapshotType
  <2>5. now \in 1 .. 2 * MaxRuns + 1
    BY <2>4, RunsFinite
  <2>6. \A n \in Nat : n < now => n \in Times \cup {Never}
    BY <2>4, RunsFinite DEF Times, Never
  <2>7. \A n \in Nat : n <= Writes => n \in 0 .. 2 * MaxRuns
    BY <2>4, RunsFinite
  <2>8. \A n \in Nat : n <= MaxDrops => n \in 0 .. MaxDrops
    BY RunsFinite
  <2>a. ASSUME NEW snapshot \in SnapshotType, snapshot.completedAt < now,
               snapshot.lastSuccess < now, snapshot.failures <= Writes
        PROVE  snapshot \in Snapshots
    BY <2>a, <2>6, <2>7 DEF SnapshotType, Snapshots
  <2>9. meta \in Snapshots
    BY <2>1, <2>a DEF Types, Past, Dated, Counted
  <2>10. ASSUME NEW r \in Runs
         PROVE  run[r] \in [pc : PCs, dropped : 0 .. MaxDrops, caught : BOOLEAN,
                            outcome : Outcomes \cup {"none"},
                            finishedAt : Times \cup {Never}, existing : Snapshots]
    <3>1. run[r] \in RunType
      BY <2>1 DEF Types
    <3>2. run[r].existing \in Snapshots
      BY <2>1, <2>a, <3>1 DEF Past, Dated, Counted, RunType
    <3>3. run[r].finishedAt \in Times \cup {Never}
      BY <2>1, <2>6, <3>1 DEF Past, RunType
    <3>4. run[r].dropped \in 0 .. MaxDrops
      BY <2>8, <3>1 DEF Shapes, ShapeOf, RunType
    <3> QED
      BY <3>1, <3>2, <3>3, <3>4 DEF RunType
  <2>11. ASSUME NEW r \in Runs
         PROVE  job[r] \in [outcome : Outcomes \cup {"none", "in_progress"},
                            finishedAt : Times \cup {Never}, failed : 0 .. MaxDrops,
                            thrown : BOOLEAN]
    <3>1. job[r] \in JobType
      BY <2>1 DEF Types
    <3>2. job[r].finishedAt \in Times \cup {Never}
      BY <2>6, <3>1 DEF Dated, JobType
    <3>3. job[r].failed \in 0 .. MaxDrops
      BY <2>8, <3>1 DEF Shapes, ShapeOf, JobType
    <3> QED
      BY <3>1, <3>2, <3>3 DEF JobType
  <2>12. \A r \in Runs : entries[r] \in 0 .. MaxDrops /\ unsettled[r] \in 0 .. MaxDrops
    BY <2>1, RunsFinite DEF Shapes, ShapeOf, Logged, Types
  <2>13. faults \in [storage : 0 .. MaxFaults, crash : 0 .. MaxFaults]
    BY RunsFinite DEF FaultsBounded
  <2>14. run \in [Runs -> [pc : PCs, dropped : 0 .. MaxDrops, caught : BOOLEAN,
                           outcome : Outcomes \cup {"none"},
                           finishedAt : Times \cup {Never}, existing : Snapshots]]
    BY <2>1, <2>10 DEF Types
  <2>15. job \in [Runs -> [outcome : Outcomes \cup {"none", "in_progress"},
                           finishedAt : Times \cup {Never}, failed : 0 .. MaxDrops,
                           thrown : BOOLEAN]]
    BY <2>1, <2>11 DEF Types
  <2>16. entries \in [Runs -> 0 .. MaxDrops] /\ unsettled \in [Runs -> 0 .. MaxDrops]
    BY <2>1, <2>12 DEF Types
  <2> QED
    BY <2>1, <2>5, <2>9, <2>13, <2>14, <2>15, <2>16 DEF TypeOK, Types, PCs
<1> QED
  BY <1>1, RecordsAlways, BoundsInit, BoundsNext, PTL DEF Spec

(***************************************************************************)
(* The count of failures                                                   *)
(***************************************************************************)

\* From the catch block or the end of the drain on, a run knows when it ended.
Ending == {"record_failure", "finish_job", "read_metadata", "write_metadata"}

\* The failure of the run is in its job row and not yet in the metadata.
Pending(s) == s.pc \in {"read_metadata", "write_metadata"} /\ s.outcome # "success"

\* How far the count may be off, above and below.
NotOver(n)  == meta.failures <= Cardinality(FailedSince) + faults.storage - n
NotUnder(n) == meta.failures >= Cardinality(FailedSince) - faults.storage - faults.crash - n

\* The count while a run is alone.  What its job row already says of it the row of the
\* metadata has still to learn, unless a failed call lost the answer and not the write;
\* and the run ends after every run that is on record.
Account(r) ==
  /\ NotOver(IF r \in FailedSince THEN 1 ELSE 0)
  /\ NotUnder(IF Pending(run[r]) THEN 1 ELSE 0)
  /\ Pending(run[r]) => r \in FailedSince
  /\ run[r].pc \in Ending =>
       /\ meta.lastSuccess < run[r].finishedAt
       /\ \A q \in Runs : job[q].finishedAt <= run[r].finishedAt

Accounts ==
  ~overlapped =>
    /\ Active = {} => NotOver(0) /\ NotUnder(0)
    /\ \A r \in Active : Account(r)

\* The numbers that are compared are numbers.
LEMMA RunsCounted ==
  ASSUME NEW S \in SUBSET Runs
  PROVE  Cardinality(S) \in Nat
  BY RunsFinite, FS_Subset, FS_CardinalityType

LEMMA Sizes ==
  ASSUME Types, FaultsBounded
  PROVE  /\ Cardinality(FailedSince) \in Nat /\ FailedSince \in SUBSET Runs
         /\ meta.failures \in Nat /\ faults.storage \in Nat /\ faults.crash \in Nat
<1>1. FailedSince \in SUBSET Runs
  BY DEF FailedSince
<1>2. Cardinality(FailedSince) \in Nat
  BY <1>1, RunsCounted
<1> QED
  BY <1>1, <1>2 DEF Types, SnapshotType, FaultsBounded

\* A run that is alone.
LEMMA Alone ==
  ASSUME RecordsInv, Accounts, ~overlapped, NEW r \in Active
  PROVE  Active = {r} /\ r \in Runs /\ Account(r) /\ InOrder(run[r], meta)
  BY DEF RecordsInv, Turns, Accounts, Active

\* A step of a run that is alone, or that begins, and that leaves the row of the metadata:
\* its failure may come on record, and where one on record stays out of the count, a fault
\* has happened.
LEMMA AccountMoves ==
  ASSUME Types, Types', FaultsBounded, FaultsBounded', NEW r \in Runs, NEW t,
         run' = [run EXCEPT ![r] = t], UNCHANGED meta, Active \subseteq {r},
         NotOver(IF r \in FailedSince THEN 1 ELSE 0),
         NotUnder(IF Pending(run[r]) THEN 1 ELSE 0),
         Pending(run[r]) => r \in FailedSince,
         \A q \in Runs \ {r} : q \in FailedSince' <=> q \in FailedSince,
         r \in FailedSince => r \in FailedSince',
         Pending(t) => r \in FailedSince',
         t.pc \in Ending => /\ meta.lastSuccess < t.finishedAt
                            /\ \A q \in Runs : job'[q].finishedAt <= t.finishedAt,
         faults.storage <= faults'.storage, faults.crash <= faults'.crash,
         /\ Pending(run[r]) \/ r \in FailedSince' \ FailedSince
         /\ ~Pending(t)
         => faults.storage + faults.crash < faults'.storage + faults'.crash
  PROVE  Accounts'
<1>1. run'[r] = t /\ \A q \in Runs \ {r} : run'[q] = run[q]
  BY DEF Types
<1>2. Active' \subseteq {r}
  BY <1>1 DEF Active
<1>3. /\ Cardinality(FailedSince) \in Nat /\ FailedSince \in SUBSET Runs
      /\ meta.failures \in Nat /\ faults.storage \in Nat /\ faults.crash \in Nat
  BY Sizes
<1>4. /\ Cardinality(FailedSince') \in Nat /\ FailedSince' \in SUBSET Runs
      /\ faults'.storage \in Nat /\ faults'.crash \in Nat
  <2>1. FailedSince' \in SUBSET Runs
    BY DEF FailedSince
  <2> QED
    BY <2>1, RunsCounted DEF FaultsBounded
<1>5. Cardinality(FailedSince') =
        Cardinality(FailedSince) + (IF r \in FailedSince' \ FailedSince THEN 1 ELSE 0)
  BY <1>3, <1>4, Grows
<1>6. NotOver(IF r \in FailedSince THEN 1 ELSE 0)'
  <2>1. meta.failures <= Cardinality(FailedSince) + faults.storage
                           - (IF r \in FailedSince THEN 1 ELSE 0)
    BY DEF NotOver
  <2>2. meta'.failures <= Cardinality(FailedSince') + faults'.storage
                            - (IF r \in FailedSince' THEN 1 ELSE 0)
    BY <1>3, <1>4, <1>5, <2>1
  <2> QED
    BY <2>2 DEF NotOver
<1>7. NotUnder(IF Pending(run[r]) THEN 1 ELSE 0)'
  <2>1. /\ meta.failures >= Cardinality(FailedSince) - faults.storage - faults.crash - 1
        /\ ~Pending(run[r]) =>
             meta.failures >= Cardinality(FailedSince) - faults.storage - faults.crash
    BY <1>3 DEF NotUnder
  <2>2. Cardinality(FailedSince') <= Cardinality(FailedSince) + 1
    BY <1>3, <1>5
  <2>3. r \notin FailedSince' \ FailedSince => Cardinality(FailedSince') = Cardinality(FailedSince)
    BY <1>3, <1>5
  <2>4. Pending(run[r]) => r \notin FailedSince' \ FailedSince
    OBVIOUS
  <2>5. meta'.failures = meta.failures
    OBVIOUS
  <2>6. CASE Pending(t)
    <3>1. meta'.failures >= Cardinality(FailedSince') - faults'.storage - faults'.crash - 1
      <4>1. CASE Pending(run[r])
        BY <1>3, <1>4, <2>1, <2>3, <2>4, <2>5, <4>1
      <4>2. CASE ~Pending(run[r])
        BY <1>3, <1>4, <2>1, <2>2, <2>5, <4>2
      <4> QED
        BY <4>1, <4>2
    <3>2. Pending(run[r])'
      BY <1>1, <2>6 DEF Pending
    <3> QED
      BY <3>1, <3>2 DEF NotUnder
  <2>7. CASE ~Pending(t)
    <3>1. ~Pending(run[r])'
      BY <1>1, <2>7 DEF Pending
    <3>2. meta'.failures >= Cardinality(FailedSince') - faults'.storage - faults'.crash
      <4>1. CASE Pending(run[r])
        <5>1. faults.storage + faults.crash < faults'.storage + faults'.crash
          BY <2>7, <4>1
        <5> QED
          BY <1>3, <1>4, <2>1, <2>3, <2>4, <2>5, <4>1, <5>1
      <4>2. CASE r \in FailedSince' \ FailedSince
        <5>1. faults.storage + faults.crash < faults'.storage + faults'.crash
          BY <2>7, <4>2
        <5> QED
          BY <1>3, <1>4, <2>1, <2>2, <2>4, <2>5, <4>2, <5>1
      <4>3. CASE ~Pending(run[r]) /\ r \notin FailedSince' \ FailedSince
        BY <1>3, <1>4, <2>1, <2>3, <2>5, <4>3
      <4> QED
        BY <4>1, <4>2, <4>3
    <3>3. meta'.failures >= Cardinality(FailedSince') - faults'.storage - faults'.crash - 0
      BY <1>4, <3>2
    <3> QED
      BY <3>1, <3>3 DEF NotUnder
  <2> QED
    BY <2>6, <2>7
<1>8. NotOver(0)'
  BY <1>3, <1>4, <1>6 DEF NotOver
<1>9. r \notin Active' => NotUnder(0)'
  <2>1. r \notin Active' => ~Pending(run[r])'
    BY <1>1 DEF Active, Pending
  <2> QED
    BY <1>7, <2>1
<1>10. Account(r)'
  <2>1. Pending(run[r])' => (r \in FailedSince)'
    BY <1>1 DEF Pending
  <2>2. (run[r].pc \in Ending)' =>
          /\ meta'.lastSuccess < run'[r].finishedAt
          /\ \A q \in Runs : job'[q].finishedAt <= run'[r].finishedAt
    BY <1>1 DEF Ending
  <2> QED
    BY <1>6, <1>7, <2>1, <2>2 DEF Account
<1> QED
  BY <1>2, <1>8, <1>9, <1>10 DEF Accounts

\* A step that touches no active run, no job row and no row of the metadata.
LEMMA AccountsLoosen ==
  ASSUME Types, Types', FaultsBounded, FaultsBounded', Accounts, Active' = Active,
         \A q \in Active : UNCHANGED run[q], UNCHANGED <<job, meta, overlapped>>,
         faults.storage <= faults'.storage, faults.crash <= faults'.crash
  PROVE  Accounts'
<1>1. FailedSince' = FailedSince
  BY DEF FailedSince
<1>2. /\ Cardinality(FailedSince) \in Nat
      /\ meta.failures \in Nat /\ faults.storage \in Nat /\ faults.crash \in Nat
  BY Sizes
<1>3. faults'.storage \in Nat /\ faults'.crash \in Nat
  BY DEF FaultsBounded
<1>4. ASSUME NEW n \in {0, 1}
      PROVE  (NotOver(n) => NotOver(n)') /\ (NotUnder(n) => NotUnder(n)')
  BY <1>1, <1>2, <1>3, <1>4 DEF NotOver, NotUnder
<1>5. ASSUME NEW r \in Active, Account(r)
      PROVE  Account(r)'
  <2>1. run'[r] = run[r]
    OBVIOUS
  <2>2. NotOver(IF r \in FailedSince THEN 1 ELSE 0)'
    BY <1>1, <1>4, <1>5 DEF Account
  <2>3. NotUnder(IF Pending(run[r]) THEN 1 ELSE 0)'
    <3>1. Pending(run[r])' <=> Pending(run[r])
      BY <2>1 DEF Pending
    <3> QED
      BY <1>4, <1>5, <3>1 DEF Account
  <2>4. /\ (Pending(run[r]) => r \in FailedSince)'
        /\ (run[r].pc \in Ending =>
              /\ meta.lastSuccess < run[r].finishedAt
              /\ \A q \in Runs : job[q].finishedAt <= run[r].finishedAt)'
    BY <1>1, <1>5, <2>1 DEF Account, Pending, Ending
  <2> QED
    BY <2>2, <2>3, <2>4 DEF Account
<1> QED
  BY <1>4, <1>5 DEF Accounts

\* Where no row of job_history changes outcome or end, neither do the runs to be counted.
LEMMA RecordStands ==
  ASSUME UNCHANGED meta, NEW r \in Runs, \A q \in Runs \ {r} : UNCHANGED job[q],
         job[r].outcome \notin Outcomes \ {"success"}, job'[r].outcome \notin Outcomes \ {"success"}
  PROVE  FailedSince' = FailedSince /\ r \notin FailedSince
  BY DEF FailedSince

\* A database call of a run that is alone, and that leaves the row of the metadata.
LEMMA CallAccounts ==
  ASSUME RecordsInv, RecordsInv', BoundsInv, FaultsBounded', Accounts, ~overlapped,
         NEW r \in Active, NEW ack \in Acks, NEW a \in Acks, NEW s,
         Answer(r, a), Continue(r, ack, s), UNCHANGED meta,
         \A q \in Runs \ {r} : q \in FailedSince' <=> q \in FailedSince,
         r \in FailedSince => r \in FailedSince',
         ack = "ok" /\ Pending(s) => r \in FailedSince',
         s.pc \in Ending => /\ run[r].pc \in Ending /\ s.finishedAt = run[r].finishedAt
                            /\ \A q \in Runs : job'[q].finishedAt <= s.finishedAt,
         \A q \in Runs : job'[q].finishedAt < now,
         Pending(run[r]) \/ r \in FailedSince' \ FailedSince =>
           a = ack /\ (ack = "ok" => Pending(s))
  PROVE  Accounts'
<1>1. /\ Types /\ Types' /\ Past /\ FaultsBounded
      /\ Active = {r} /\ r \in Runs /\ Account(r)
  BY Alone DEF RecordsInv, BoundsInv
<1>2. /\ faults'.crash = faults.crash /\ faults.crash \in Nat /\ faults.storage \in Nat
      /\ faults'.storage = faults.storage + (IF a = "ok" THEN 0 ELSE 1)
  BY <1>1, AnswerFaults DEF FaultsBounded
<1>3. Over.pc = "over" /\ Caught(r).pc = "record_failure" /\ Caught(r).finishedAt = now
  BY <1>1, StatesTyped, CaughtTyped
<1>4. PICK t \in {s, Over, Caught(r)} :
        /\ run' = [run EXCEPT ![r] = t]
        /\ \/ t = s /\ ack = "ok"
           \/ t \in {Over, Caught(r)} /\ ack # "ok"
  BY <1>1, AfterCall
<1>5. Pending(t) => r \in FailedSince'
  BY <1>3, <1>4 DEF Pending
<1>6. meta.lastSuccess < now /\ \A q \in Runs : job'[q].finishedAt <= now
  BY <1>1 DEF Past, Types, JobType
<1>7. t.pc \in Ending => /\ meta.lastSuccess < t.finishedAt
                         /\ \A q \in Runs : job'[q].finishedAt <= t.finishedAt
  <2>1. CASE t = s
    BY <1>1, <2>1 DEF Account
  <2>2. CASE t = Over
    BY <1>3, <2>2 DEF Ending
  <2>3. CASE t = Caught(r)
    BY <1>3, <1>6, <2>3
  <2> QED
    BY <1>4, <2>1, <2>2, <2>3
<1>8. faults.storage <= faults'.storage /\ faults.crash <= faults'.crash
  BY <1>2
<1>9. ASSUME Pending(run[r]) \/ r \in FailedSince' \ FailedSince, ~Pending(t)
      PROVE  faults.storage + faults.crash < faults'.storage + faults'.crash
  <2>1. a # "ok"
    BY <1>4, <1>9
  <2> QED
    BY <1>2, <2>1
<1>10. /\ NotOver(IF r \in FailedSince THEN 1 ELSE 0)
       /\ NotUnder(IF Pending(run[r]) THEN 1 ELSE 0)
       /\ Pending(run[r]) => r \in FailedSince
  BY <1>1 DEF Account
<1> QED
  BY <1>1, <1>4, <1>5, <1>7, <1>8, <1>9, <1>10, AccountMoves

LEMMA AccountsInit == Init => Accounts
<1> SUFFICES ASSUME Init PROVE Accounts
  OBVIOUS
<1>1. /\ \A r \in Runs : run[r].pc = "unborn" /\ job[r].outcome = "none"
      /\ meta.failures = 0 /\ faults.storage = 0 /\ faults.crash = 0
  BY DEF Init, Unborn, NoJob, NoSnapshot
<1>2. Active = {}
  BY <1>1 DEF Active
<1>3. FailedSince = {}
  BY <1>1 DEF FailedSince, Outcomes
<1> QED
  BY <1>1, <1>2, <1>3, FS_EmptySet DEF Accounts, NotOver, NotUnder

\* The steps of a run that call no database.
LEMMA LocalAccounts ==
  ASSUME RecordsInv, RecordsInv', BoundsInv, FaultsBounded', Accounts, NEW r \in Runs,
         Begin(r) \/ Drop(r) \/ EndDrain(r) \/ DrainThrows(r)
  PROVE  Accounts'
<1> SUFFICES ASSUME ~overlapped'
             PROVE  Accounts'
  BY DEF Accounts
<1>0. /\ UNCHANGED <<job, meta, faults>> /\ FailedSince' = FailedSince
      /\ Types /\ Types' /\ Past /\ FaultsBounded /\ Dated
  BY DEF Begin, Drop, EndDrain, DrainThrows, Catch, FailedSince, RecordsInv, BoundsInv
<1>1. /\ faults.storage <= faults'.storage /\ faults.crash <= faults'.crash
      /\ \A q \in Runs : job'[q].finishedAt <= now
      /\ meta.lastSuccess < now
      /\ run[r] \in RunType /\ ShapeOf(run[r], job[r], Logged(r))
  BY <1>0 DEF FaultsBounded, Dated, Past, Types, JobType, BoundsInv, Shapes
<1>2. run[r].pc \in {"unborn", "drain"} /\ ~overlapped
  <2>1. run[r].pc \in {"unborn", "drain"}
    BY DEF Begin, Drop, EndDrain, DrainThrows
  <2>2. overlapped' = overlapped \/ overlapped' = (overlapped \/ Active # {})
    BY DEF Begin, Drop, EndDrain, DrainThrows
  <2>3. overlapped \in BOOLEAN
    BY <1>0 DEF Types
  <2> QED
    BY <2>1, <2>2, <2>3
<1>3. ~Pending(run[r])
  BY <1>2 DEF Pending
<1>4. Active \subseteq {r} /\ NotOver(IF r \in FailedSince THEN 1 ELSE 0)
      /\ NotUnder(IF Pending(run[r]) THEN 1 ELSE 0)
  <2>1. CASE r \in Active
    BY <1>2, <2>1, Alone DEF Account
  <2>2. CASE r \notin Active
    <3>1. Begin(r)
      BY <1>2, <2>2 DEF Drop, EndDrain, DrainThrows, Active
    <3>2. Active = {} /\ run[r].pc = "unborn"
      BY <3>1 DEF Begin
    <3>3. r \notin FailedSince
      BY <1>1, <3>2, EndsKnown, <1>0 DEF ShapeOf, FailedSince, Outcomes
    <3> QED
      BY <1>2, <1>3, <3>2, <3>3 DEF Accounts
  <2> QED
    BY <2>1, <2>2
<1>a. ASSUME NEW t, run' = [run EXCEPT ![r] = t], ~Pending(t),
             t.pc \in Ending => t.finishedAt = now
      PROVE  Accounts'
  BY <1>0, <1>1, <1>3, <1>4, <1>a, AccountMoves
<1>5. CASE Begin(r)
  <2> DEFINE t == [run[r] EXCEPT !.pc = "start_job"]
  <2>1. run' = [run EXCEPT ![r] = t]
    BY <1>5 DEF Begin
  <2>2. t.pc = "start_job"
    BY <1>1 DEF RunType
  <2> HIDE DEF t
  <2> QED
    BY <1>a, <2>1, <2>2 DEF Pending, Ending
<1>6. CASE Drop(r)
  <2> DEFINE t == [run[r] EXCEPT !.dropped = @ + 1]
  <2>1. run' = [run EXCEPT ![r] = t] /\ run[r].pc = "drain"
    BY <1>6 DEF Drop
  <2>2. t.pc = "drain"
    BY <1>1, <2>1 DEF RunType
  <2> HIDE DEF t
  <2> QED
    BY <1>a, <2>1, <2>2 DEF Pending, Ending
<1>7. CASE EndDrain(r)
  <2>1. PICK upserted \in BOOLEAN :
          run' = [run EXCEPT ![r] = [run[r] EXCEPT !.pc = "finish_job", !.finishedAt = now,
                                                   !.outcome = OutcomeOf(run[r], upserted)]]
    BY <1>7 DEF EndDrain
  <2> DEFINE t == [run[r] EXCEPT !.pc = "finish_job", !.finishedAt = now,
                                 !.outcome = OutcomeOf(run[r], upserted)]
  <2>2. t.pc = "finish_job" /\ t.finishedAt = now
    BY <1>1 DEF RunType
  <2>3. run' = [run EXCEPT ![r] = t]
    BY <2>1
  <2> HIDE DEF t
  <2> QED
    BY <1>a, <2>2, <2>3 DEF Pending
<1>8. CASE DrainThrows(r)
  <2>1. run' = [run EXCEPT ![r] = Caught(r)]
    BY <1>8 DEF DrainThrows, Catch, Caught
  <2>2. Caught(r).pc = "record_failure" /\ Caught(r).finishedAt = now
    BY <1>0, CaughtTyped
  <2> QED
    BY <1>a, <2>1, <2>2 DEF Pending
<1> QED
  BY <1>5, <1>6, <1>7, <1>8

LEMMA StartJobAccounts ==
  ASSUME RecordsInv, RecordsInv', BoundsInv, BoundsInv', Accounts, ~overlapped,
         NEW r \in Runs, NEW ack \in Acks, StartJob(r, ack)
  PROVE  Accounts'
<1> DEFINE s == [run[r] EXCEPT !.pc = "drain"]
<1>1. /\ run[r].pc = "start_job" /\ Answer(r, ack) /\ Continue(r, ack, s) /\ UNCHANGED meta
      /\ job' = IF Applied(ack) THEN [job EXCEPT ![r] = Started] ELSE job
  BY DEF StartJob
<1>2. Types /\ FaultsBounded' /\ Dated /\ ShapeOf(run[r], job[r], Logged(r))
  BY DEF RecordsInv, BoundsInv, Shapes
<1>3. r \in Active /\ s.pc = "drain"
  BY <1>1, <1>2 DEF Active, Types, RunType
<1> HIDE DEF s
<1>4. job[r] = NoJob /\ job'[r] \in {NoJob, Started} /\ \A q \in Runs \ {r} : UNCHANGED job[q]
  BY <1>1, <1>2 DEF ShapeOf, Types
<1>5. FailedSince' = FailedSince
  BY <1>1, <1>2, <1>4, EndsKnown, RecordStands DEF Outcomes
<1>6. \A q \in Runs : job'[q].finishedAt < now
  <2>1. 0 < now
    BY <1>2 DEF Dated, Types, SnapshotType
  <2> QED
    BY <1>2, <1>4, <2>1, EndsKnown DEF Dated
<1>7. ~Pending(s) /\ s.pc \notin Ending /\ ~Pending(run[r])
  BY <1>1, <1>3 DEF Pending, Ending
<1> QED
  BY <1>1, <1>2, <1>3, <1>5, <1>6, <1>7, CallAccounts

LEMMA RecordFailureAccounts ==
  ASSUME RecordsInv, RecordsInv', BoundsInv, BoundsInv', Accounts, ~overlapped,
         NEW r \in Runs, NEW ack \in Acks, RecordFailure(r, ack)
  PROVE  Accounts'
<1> DEFINE s == [run[r] EXCEPT !.pc = "finish_job"]
<1>1. run[r].pc = "record_failure" /\ Answer(r, ack) /\ UNCHANGED <<job, meta>>
  BY DEF RecordFailure
<1>2. Types /\ FaultsBounded' /\ Dated
  BY DEF RecordsInv, BoundsInv
<1>3. r \in Active /\ s.pc = "finish_job" /\ s.finishedAt = run[r].finishedAt
  BY <1>1, <1>2 DEF Active, Types, RunType
<1>4. PICK a \in Acks : Continue(r, a, s)
  <2>1. "failed" \in Acks
    BY DEF Acks
  <2>2. CASE job[r] = NoJob
    BY <2>1, <2>2 DEF RecordFailure, Continue
  <2>3. CASE job[r] # NoJob
    BY <2>3 DEF RecordFailure
  <2> QED
    BY <2>2, <2>3
<1> HIDE DEF s
<1>5. FailedSince' = FailedSince
  BY <1>1 DEF FailedSince
<1>6. \A q \in Runs : job'[q].finishedAt < now
  BY <1>1, <1>2 DEF Dated
<1>7. ~Pending(s) /\ ~Pending(run[r])
  BY <1>1, <1>3 DEF Pending
<1>8. run[r].pc \in Ending /\ \A q \in Runs : job'[q].finishedAt <= s.finishedAt
  BY <1>1, <1>3, Alone DEF Account, Ending
<1> QED
  BY <1>1, <1>2, <1>3, <1>4, <1>5, <1>6, <1>7, <1>8, CallAccounts

\* The row of a run that did not succeed makes it one of the runs to be counted.
LEMMA FinishJobAccounts ==
  ASSUME RecordsInv, RecordsInv', BoundsInv, BoundsInv', Accounts, ~overlapped,
         NEW r \in Runs, NEW ack \in Acks, FinishJob(r, ack)
  PROVE  Accounts'
<1> DEFINE s == [run[r] EXCEPT !.pc = "read_metadata"]
           closed == [outcome |-> run[r].outcome, finishedAt |-> run[r].finishedAt,
                      failed |-> FailedCount(run[r]), thrown |-> run[r].caught]
<1>1. /\ run[r].pc = "finish_job" /\ Answer(r, ack) /\ Continue(r, ack, s) /\ UNCHANGED meta
      /\ job' = IF Applied(ack) THEN [job EXCEPT ![r] = closed] ELSE job
  BY DEF FinishJob
<1>2. /\ Types /\ Past /\ FaultsBounded' /\ Dated /\ ShapeOf(run[r], job[r], Logged(r))
  BY DEF RecordsInv, BoundsInv, Shapes
<1>3. /\ r \in Active /\ s.pc = "read_metadata" /\ s.finishedAt = run[r].finishedAt
      /\ s.outcome = run[r].outcome
  BY <1>1, <1>2 DEF Active, Types, RunType
<1>4. /\ closed.outcome = run[r].outcome /\ closed.finishedAt = run[r].finishedAt
      /\ run[r].outcome \in Outcomes /\ run[r].finishedAt \in Nat /\ run[r].finishedAt < now
  BY <1>1, <1>2 DEF ShapeOf, Past, Types, RunType
<1> HIDE DEF s, closed
<1>5. /\ job'[r] \in {job[r], closed} /\ \A q \in Runs \ {r} : UNCHANGED job[q]
      /\ ack = "ok" => job'[r] = closed
  BY <1>1, <1>2 DEF Types, Applied
<1>6. /\ meta.lastSuccess < run[r].finishedAt
      /\ \A q \in Runs : job[q].finishedAt <= run[r].finishedAt
  BY <1>1, <1>3, Alone DEF Account, Ending
<1>7. /\ \A q \in Runs : job'[q].finishedAt < now
      /\ \A q \in Runs : job'[q].finishedAt <= s.finishedAt
  BY <1>2, <1>3, <1>4, <1>5, <1>6 DEF Dated
<1>8. \A q \in Runs \ {r} : q \in FailedSince' <=> q \in FailedSince
  BY <1>1, <1>5 DEF FailedSince
<1>9. job'[r] = closed => (r \in FailedSince' <=> run[r].outcome # "success")
  BY <1>1, <1>4, <1>6 DEF FailedSince
<1>10. r \in FailedSince => run[r].outcome = "failed"
  BY <1>1, <1>2 DEF ShapeOf, FailedSince
<1>11. r \in FailedSince => r \in FailedSince'
  <2>1. job'[r] = job[r] => (r \in FailedSince => r \in FailedSince')
    BY <1>1 DEF FailedSince
  <2> QED
    BY <1>5, <1>9, <1>10, <2>1
<1>12. ~Pending(run[r]) /\ (Pending(s) <=> run[r].outcome # "success")
  BY <1>1, <1>3 DEF Pending
<1>13. r \in FailedSince' \ FailedSince => Pending(s)
  <2>1. job'[r] = job[r] => (r \in FailedSince' => r \in FailedSince)
    BY <1>1 DEF FailedSince
  <2> QED
    BY <1>5, <1>9, <1>12, <2>1
<1>14. ack = "ok" /\ Pending(s) => r \in FailedSince'
  BY <1>5, <1>9, <1>12
<1> QED
  BY <1>1, <1>2, <1>3, <1>7, <1>8, <1>11, <1>12, <1>13, <1>14, CallAccounts DEF Ending

LEMMA ReadMetadataAccounts ==
  ASSUME RecordsInv, RecordsInv', BoundsInv, BoundsInv', Accounts, ~overlapped,
         NEW r \in Runs, NEW ack \in Acks, ReadMetadata(r, ack)
  PROVE  Accounts'
<1> DEFINE s == [run[r] EXCEPT !.pc = "write_metadata", !.existing = meta]
<1>1. /\ run[r].pc = "read_metadata" /\ Answer(r, ack) /\ Continue(r, ack, s)
      /\ UNCHANGED <<job, meta>>
  BY DEF ReadMetadata
<1>2. Types /\ FaultsBounded' /\ Dated
  BY DEF RecordsInv, BoundsInv
<1>3. /\ r \in Active /\ s.pc = "write_metadata" /\ s.finishedAt = run[r].finishedAt
      /\ s.outcome = run[r].outcome
  BY <1>1, <1>2 DEF Active, Types, RunType
<1> HIDE DEF s
<1>4. FailedSince' = FailedSince
  BY <1>1 DEF FailedSince
<1>5. \A q \in Runs : job'[q].finishedAt < now
  BY <1>1, <1>2 DEF Dated
<1>6. (Pending(s) <=> Pending(run[r])) /\ (Pending(run[r]) => r \in FailedSince)
  BY <1>1, <1>3, Alone DEF Pending, Account
<1>7. run[r].pc \in Ending /\ \A q \in Runs : job'[q].finishedAt <= s.finishedAt
  BY <1>1, <1>3, Alone DEF Account, Ending
<1> QED
  BY <1>1, <1>2, <1>3, <1>4, <1>5, <1>6, <1>7, CallAccounts

\* A success clears the runs to be counted with the count; a failure that was in the job
\* row is in the count, too, and is there twice only if the answer to the write was lost.
LEMMA WriteMetadataAccounts ==
  ASSUME RecordsInv, RecordsInv', BoundsInv, BoundsInv', Accounts, ~overlapped,
         NEW r \in Runs, NEW ack \in Acks, WriteMetadata(r, ack)
  PROVE  Accounts'
<1>1. /\ run[r].pc = "write_metadata" /\ Answer(r, ack) /\ Continue(r, ack, Over)
      /\ UNCHANGED job
  BY DEF WriteMetadata
<1>2. /\ Types /\ Types' /\ Past /\ Past' /\ FaultsBounded /\ FaultsBounded' /\ Dated
      /\ ShapeOf(run[r], job[r], Logged(r))
  BY DEF RecordsInv, BoundsInv, Shapes
<1>3. r \in Active
  BY <1>1 DEF Active
<1>4. Active = {r} /\ Account(r) /\ run[r].existing = meta
  BY <1>1, <1>3, Alone DEF InOrder
<1>5. Over.pc = "over" /\ Caught(r).pc = "record_failure" /\ Caught(r).finishedAt = now
  BY <1>2, StatesTyped, CaughtTyped
<1>6. CASE ack = "failed"
  <2>1. UNCHANGED meta
    BY <1>6 DEF WriteMetadata, Applied
  <2>2. FailedSince' = FailedSince
    BY <1>1, <2>1 DEF FailedSince
  <2>3. ~Pending(Over) /\ Over.pc \notin Ending
    BY <1>5 DEF Pending, Ending
  <2>4. \A q \in Runs : job'[q].finishedAt < now
    BY <1>1, <1>2 DEF Dated
  <2> QED
    BY <1>1, <1>2, <1>3, <1>6, <2>1, <2>2, <2>3, <2>4, CallAccounts
<1>7. CASE ack # "failed"
  <2>1. /\ meta'.lastSuccess = LastSuccessAfter(run[r])
        /\ meta'.failures = FailuresAfter(run[r])
    BY <1>7 DEF WriteMetadata, Applied
  <2>2. /\ Cardinality(FailedSince) \in Nat /\ meta.failures \in Nat
        /\ faults.storage \in Nat /\ faults.crash \in Nat
    BY <1>2, Sizes
  <2>3. /\ faults'.crash = faults.crash
        /\ faults'.storage = faults.storage + (IF ack = "ok" THEN 0 ELSE 1)
    BY <1>1, <1>2, AnswerFaults
  <2>4. PICK t \in {Over, Caught(r)} :
          run' = [run EXCEPT ![r] = t] /\ (t = Caught(r) => ack # "ok" /\ now' = now + 1)
    <3>1. Over # Caught(r)
      BY <1>5
    <3> QED
      BY <1>1, <3>1, AfterCall
  <2>5. run'[r] = t /\ \A q \in Runs \ {r} : run'[q] = run[q]
    BY <1>2, <2>4 DEF Types
  <2>6. Active' \subseteq {r} /\ (t = Over => Active' = {})
    BY <1>4, <1>5, <2>5 DEF Active
  <2>7. ~Pending(run[r])'
    BY <1>5, <2>4, <2>5 DEF Pending
  <2>8. /\ (run[r].pc \in Ending =>
              /\ meta.lastSuccess < run[r].finishedAt
              /\ \A q \in Runs : job[q].finishedAt <= run[r].finishedAt)'
    <3>1. CASE t = Over
      BY <1>5, <2>5, <3>1 DEF Ending
    <3>2. CASE t = Caught(r)
      <4>1. run'[r].finishedAt = now
        BY <1>5, <2>5, <3>2
      <4>2. meta'.lastSuccess < now
        <5>1. run[r].finishedAt < now /\ meta.lastSuccess < now
          BY <1>2 DEF Past
        <5> QED
          BY <1>4, <2>1, <5>1 DEF LastSuccessAfter
      <4>3. \A q \in Runs : job'[q].finishedAt <= now
        BY <1>1, <1>2 DEF Dated, Types, JobType
      <4> QED
        BY <4>1, <4>2, <4>3
    <3> QED
      BY <2>4, <3>1, <3>2
  <2>9. /\ NotOver(IF r \in FailedSince THEN 1 ELSE 0)' \/ t = Over
        /\ NotOver(0)' /\ NotUnder(0)'
    <3>1. CASE run[r].outcome = "success"
      <4>1. meta'.failures = 0 /\ meta'.lastSuccess = run[r].finishedAt
        BY <2>1, <3>1 DEF FailuresAfter, LastSuccessAfter
      <4>2. FailedSince' = {}
        <5>1. \A q \in Runs : job[q].finishedAt <= run[r].finishedAt
          BY <1>1, <1>4 DEF Account, Ending
        <5>2. \A q \in Runs : job[q].finishedAt \in Nat /\ run[r].finishedAt \in Nat
          BY <1>2 DEF Types, RunType, JobType
        <5> QED
          BY <1>1, <4>1, <5>1, <5>2 DEF FailedSince
      <4>3. Cardinality(FailedSince') = 0
        BY <4>2, FS_EmptySet
      <4> QED
        BY <2>2, <2>3, <4>1, <4>2, <4>3 DEF NotOver, NotUnder
    <3>2. CASE run[r].outcome # "success"
      <4>1. meta'.failures = meta.failures + 1 /\ meta'.lastSuccess = meta.lastSuccess
        BY <1>4, <2>1, <3>2 DEF FailuresAfter, LastSuccessAfter
      <4>2. FailedSince' = FailedSince
        BY <1>1, <4>1 DEF FailedSince
      <4>3. Pending(run[r]) /\ r \in FailedSince
        BY <1>1, <1>4, <3>2 DEF Pending, Account
      <4>4. /\ meta.failures <= Cardinality(FailedSince) + faults.storage - 1
            /\ meta.failures >= Cardinality(FailedSince) - faults.storage - faults.crash - 1
        BY <1>4, <4>3 DEF Account, NotOver, NotUnder
      <4>5. /\ meta'.failures <= Cardinality(FailedSince') + faults'.storage
            /\ meta'.failures >= Cardinality(FailedSince') - faults'.storage - faults'.crash
            /\ ack # "ok" =>
                 meta'.failures <= Cardinality(FailedSince') + faults'.storage - 1
        BY <2>2, <2>3, <4>1, <4>2, <4>4
      <4>6. NotOver(0)' /\ NotUnder(0)'
        BY <2>2, <2>3, <4>2, <4>5 DEF NotOver, NotUnder
      <4>7. ack # "ok" => NotOver(IF r \in FailedSince THEN 1 ELSE 0)'
        BY <4>2, <4>3, <4>5 DEF NotOver
      <4> QED
        BY <2>4, <4>6, <4>7
    <3> QED
      BY <3>1, <3>2
  <2>10. r \in Active' => Account(r)'
    <3>1. r \in Active' => NotOver(IF r \in FailedSince THEN 1 ELSE 0)'
      BY <2>6, <2>9
    <3>2. NotUnder(IF Pending(run[r]) THEN 1 ELSE 0)'
      BY <2>7, <2>9
    <3>3. (Pending(run[r]) => r \in FailedSince)'
      BY <2>7
    <3> QED
      BY <2>8, <3>1, <3>2, <3>3 DEF Account
  <2> QED
    BY <2>6, <2>9, <2>10 DEF Accounts
<1> QED
  BY <1>6, <1>7

LEMMA SettleAccounts ==
  ASSUME RecordsInv, RecordsInv', BoundsInv, BoundsInv', Accounts,
         NEW r \in Runs, NEW ack \in Acks, SettleEntry(r, ack)
  PROVE  Accounts'
<1>1. Answer(r, ack) /\ UNCHANGED <<run, job, meta, overlapped>>
  BY DEF SettleEntry
<1>2. Types /\ Types' /\ FaultsBounded /\ FaultsBounded'
  BY DEF RecordsInv, BoundsInv
<1>3. faults.storage <= faults'.storage /\ faults.crash <= faults'.crash
  BY <1>1, <1>2, AnswerFaults DEF FaultsBounded
<1>4. Active' = Active
  BY <1>1 DEF Active
<1> QED
  BY <1>1, <1>2, <1>3, <1>4, AccountsLoosen

\* The process dies between the job row and the row of the metadata: one is missing.
LEMMA DieAccounts ==
  ASSUME RecordsInv, RecordsInv', BoundsInv, BoundsInv', Accounts, ~overlapped,
         NEW r \in Runs, Die(r)
  PROVE  Accounts'
<1>1. /\ run' = [run EXCEPT ![r] = Over] /\ faults' = [faults EXCEPT !.crash = @ + 1]
      /\ r \in Active \/ unsettled[r] > 0
      /\ UNCHANGED <<job, meta, overlapped>>
  BY DEF Die
<1>2. Types /\ Types' /\ FaultsBounded /\ FaultsBounded' /\ ShapeOf(run[r], job[r], Logged(r))
  BY DEF RecordsInv, BoundsInv, Shapes
<1>3. /\ faults.storage <= faults'.storage /\ faults.crash < faults'.crash
      /\ faults.storage \in Nat /\ faults.crash \in Nat
      /\ faults'.storage \in Nat /\ faults'.crash \in Nat
  BY <1>1, <1>2 DEF FaultsBounded
<1>4. Over.pc = "over" /\ ~Pending(Over) /\ Over.pc \notin Ending
  BY StatesTyped DEF Pending, Ending
<1>5. FailedSince' = FailedSince
  BY <1>1 DEF FailedSince
<1>6. CASE r \in Active
  <2>1. Active = {r} /\ Account(r)
    BY <1>6, Alone
  <2>2. /\ NotOver(IF r \in FailedSince THEN 1 ELSE 0)
        /\ NotUnder(IF Pending(run[r]) THEN 1 ELSE 0)
        /\ Pending(run[r]) => r \in FailedSince
    BY <2>1 DEF Account
  <2>3. /\ faults.storage + faults.crash < faults'.storage + faults'.crash
        /\ faults.crash <= faults'.crash
    BY <1>3
  <2> QED
    BY <1>1, <1>2, <1>3, <1>4, <1>5, <2>1, <2>2, <2>3, AccountMoves
<1>7. CASE r \notin Active
  <2>1. run'[r] = Over /\ \A q \in Runs \ {r} : run'[q] = run[q]
    BY <1>1, <1>2 DEF Types
  <2>2. Active' = Active /\ \A q \in Active : UNCHANGED run[q]
    BY <1>4, <1>7, <2>1 DEF Active
  <2>3. faults.crash <= faults'.crash
    BY <1>3
  <2> QED
    BY <1>1, <1>2, <1>3, <2>2, <2>3, AccountsLoosen
<1> QED
  BY <1>6, <1>7

LEMMA AccountsNext ==
  RecordsInv /\ RecordsInv' /\ BoundsInv /\ BoundsInv' /\ Accounts /\ [Next]_vars => Accounts'
<1> SUFFICES ASSUME RecordsInv, RecordsInv', BoundsInv, BoundsInv', Accounts, [Next]_vars
             PROVE  Accounts'
  OBVIOUS
<1>1. FaultsBounded'
  BY DEF BoundsInv
<1>2. ASSUME NEW r \in Runs, Begin(r) \/ Drop(r) \/ EndDrain(r) \/ DrainThrows(r)
      PROVE  Accounts'
  BY <1>1, <1>2, LocalAccounts
<1>3. ASSUME NEW r \in Runs, NEW ack \in Acks, DatabaseCall(r, ack)
      PROVE  Accounts'
  <2>1. overlapped' = overlapped
    BY <1>3 DEF DatabaseCall, StartJob, RecordFailure, FinishJob, ReadMetadata, WriteMetadata,
       SettleEntry
  <2>2. CASE overlapped
    BY <2>1, <2>2 DEF Accounts
  <2>3. CASE ~overlapped
    BY <1>3, <2>3, StartJobAccounts, RecordFailureAccounts, FinishJobAccounts,
       ReadMetadataAccounts, WriteMetadataAccounts, SettleAccounts DEF DatabaseCall
  <2> QED
    BY <2>2, <2>3
<1>4. ASSUME NEW r \in Runs, Die(r)
      PROVE  Accounts'
  <2>1. overlapped' = overlapped
    BY <1>4 DEF Die
  <2>2. CASE overlapped
    BY <2>1, <2>2 DEF Accounts
  <2>3. CASE ~overlapped
    BY <1>4, <2>3, DieAccounts
  <2> QED
    BY <2>2, <2>3
<1>5. CASE UNCHANGED vars
  BY <1>5 DEF vars, Accounts, Account, Active, NotOver, NotUnder, Pending, FailedSince
<1> QED
  BY <1>2, <1>3, <1>4, <1>5 DEF Next

\* For any number of runs, refused records and faults: as long as no two runs have
\* overlapped, consecutiveFailureCount is the number of job rows closed without success
\* since lastSuccessfulSyncAt, but for one for each failed call or dead process
\* (SyncEngine.run closes the row and counts in separate calls, and a call that loses
\* only its answer sends the run to the catch block, where it counts a second time).
THEOREM FailuresAddUp == Spec => []FailuresCounted
<1>1. RecordsInv /\ BoundsInv /\ Accounts => FailuresCounted
  <2> SUFFICES ASSUME RecordsInv, BoundsInv, Accounts, Active = {}, ~overlapped
               PROVE  /\ meta.failures <= Cardinality(FailedSince) + faults.storage
                      /\ meta.failures >= Cardinality(FailedSince) - faults.storage - faults.crash
    BY DEF FailuresCounted
  <2>1. /\ Cardinality(FailedSince) \in Nat /\ meta.failures \in Nat
        /\ faults.storage \in Nat /\ faults.crash \in Nat
    BY Sizes DEF RecordsInv, BoundsInv
  <2> QED
    BY <2>1 DEF Accounts, NotOver, NotUnder
<1> QED
  BY <1>1, RecordsAlways, BoundsInit, BoundsNext, AccountsInit, AccountsNext, PTL DEF Spec
=============================================================================
