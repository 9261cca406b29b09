----------------------------- MODULE RunRecords -----------------------------
(***************************************************************************)
(* What the runs of one (provider, entityType) leave behind about          *)
(* themselves (application/sync/sync-engine.ts and its repositories): the  *)
(* job_history row of a run, its failure_logs entries, and the one         *)
(* sync_metadata row that every run reads and then writes.                 *)
(*                                                                         *)
(* Module SyncEngine has the run itself; here it is a drain that drops and *)
(* stores records and then ends or throws.  In exchange this module has    *)
(* the counters and timestamps, the read and the write of the metadata row *)
(* as two steps, the inserts that nobody awaits, and runs that overlap     *)
(* because a lease ran out under one of them.                              *)
(*                                                                         *)
(* Runs are numbered in the order in which they take the lock.  The clock  *)
(* moves whenever a run reads it for its finishedAt.                       *)
(***************************************************************************)
EXTENDS Integers, FiniteSets

CONSTANTS
  MaxRuns,           \* bound: calls of run() that got the lock
  MaxDrops,          \* bound: records of a run that normalize or validate refuses
  MaxActive,         \* bound: runs active at once; more than one when leases run out under runs
  MaxFaults          \* bound: failed database calls and processes that die or exit

ASSUME RunsAssumption   == {MaxRuns, MaxActive} \subseteq Nat \ {0}
ASSUME BoundsAssumption == {MaxDrops, MaxFaults} \subseteq Nat

VARIABLES
  run,         \* local state of each run
  job,         \* job_history: the row of each run
  entries,     \* failure_logs: record-level entries of each run
  summarized,  \* failure_logs: the runs with a run-level entry
  meta,        \* sync_metadata: the row, NoSnapshot without one
  unsettled,   \* inserts into failure_logs that a run has issued and that are not settled
  now,         \* the clock
  overlapped,  \* history: two runs have been active at once
  hit,         \* history: the runs a failed database call or a dying process has touched
  faults       \* how many faults of each kind have happened

vars == <<run, job, entries, summarized, meta, unsettled, now, overlapped, hit, faults>>

Runs     == 1 .. MaxRuns
Never    == 0
Times    == 1 .. 2 * MaxRuns
Outcomes == {"success", "partial_failure", "failed"}

NoJob      == [outcome |-> "none", finishedAt |-> Never, failed |-> 0, thrown |-> FALSE]
Started    == [NoJob EXCEPT !.outcome = "in_progress"]
NoSnapshot == [status |-> "none", completedAt |-> Never, lastSuccess |-> Never, failures |-> 0]

\* A run that has not begun, and one that is over.
Unborn == [pc |-> "unborn", dropped |-> 0, caught |-> FALSE, outcome |-> "none",
           finishedAt |-> Never, existing |-> NoSnapshot]
Over   == [Unborn EXCEPT !.pc = "over"]

Active == {r \in Runs : run[r].pc \notin {"unborn", "over"}}

Snapshots == [status : Outcomes \cup {"none"}, completedAt : Times \cup {Never},
              lastSuccess : Times \cup {Never}, failures : 0 .. 2 * MaxRuns]

TypeOK ==
  /\ run \in [Runs -> [pc : {"unborn", "start_job", "drain", "record_failure", "finish_job",
                             "read_metadata", "write_metadata", "over"},
                       dropped : 0 .. MaxDrops, caught : BOOLEAN,
                       outcome : Outcomes \cup {"none"},
                       finishedAt : Times \cup {Never}, existing : Snapshots]]
  /\ job \in [Runs -> [outcome : Outcomes \cup {"none", "in_progress"},
                       finishedAt : Times \cup {Never}, failed : 0 .. MaxDrops,
                       thrown : BOOLEAN]]
  /\ entries \in [Runs -> 0 .. MaxDrops]
  /\ summarized \subseteq Runs
  /\ meta \in Snapshots
  /\ unsettled \in [Runs -> 0 .. MaxDrops]
  /\ now \in 1 .. 2 * MaxRuns + 1
  /\ overlapped \in BOOLEAN
  /\ hit \subseteq Runs
  /\ faults \in [storage : 0 .. MaxFaults, crash : 0 .. MaxFaults]

Init ==
  /\ run = [r \in Runs |-> Unborn]
  /\ job = [r \in Runs |-> NoJob]
  /\ entries = [r \in Runs |-> 0]
  /\ summarized = {}
  /\ meta = NoSnapshot
  /\ unsettled = [r \in Runs |-> 0]
  /\ now = 1
  /\ overlapped = FALSE
  /\ hit = {}
  /\ faults = [storage |-> 0, crash |-> 0]

(***************************************************************************)
(* Helpers                                                                 *)
(***************************************************************************)

\* Outcome of an awaited database call, as in module SyncEngine.
Acks == {"ok", "failed", "lost"}
Applied(ack) == ack # "failed"

FaultsLeft == faults.storage + faults.crash < MaxFaults

Answer(r, ack) ==
  /\ ack # "ok" => FaultsLeft
  /\ faults' = [faults EXCEPT !.storage = IF ack = "ok" THEN @ ELSE @ + 1]
  /\ hit' = IF ack = "ok" THEN hit ELSE hit \cup {r}

\* Run r goes to the catch block, which reads the clock.
Catch(r, s) ==
  /\ run' = [run EXCEPT ![r] = [s EXCEPT !.pc = "record_failure", !.caught = TRUE,
                                         !.outcome = "failed", !.finishedAt = now]]
  /\ now' = now + 1

\* An exception: to the catch block, or from there out of run().
Throw(r) ==
  IF run[r].caught
    THEN run' = [run EXCEPT ![r] = Over] /\ UNCHANGED now
    ELSE Catch(r, run[r])

\* Run r goes on as s after a database call that answered ack.
Continue(r, ack, s) ==
  IF ack = "ok" THEN run' = [run EXCEPT ![r] = s] /\ UNCHANGED now ELSE Throw(r)

(***************************************************************************)
(* The steps of a run                                                      *)
(***************************************************************************)

\* tryAcquire and the read of the cursor.  The lock keeps runs apart unless a
\* lease runs out under its run.
Begin(r) ==
  /\ run[r].pc = "unborn"
  /\ \A s \in 1 .. r - 1 : run[s].pc # "unborn"
  /\ Cardinality(Active) < MaxActive
  /\ run' = [run EXCEPT ![r].pc = "start_job"]
  /\ overlapped' = (overlapped \/ Active # {})
  /\ UNCHANGED <<job, entries, summarized, meta, unsettled, now, hit, faults>>

StartJob(r, ack) ==
  /\ run[r].pc = "start_job"
  /\ Answer(r, ack)
  /\ job' = IF Applied(ack) THEN [job EXCEPT ![r] = Started] ELSE job
  /\ Continue(r, ack, [run[r] EXCEPT !.pc = "drain"])
  /\ UNCHANGED <<entries, summarized, meta, unsettled, overlapped>>

\* Mutant of Issue: the branch for a failing normalize() does not log.
IssueNothing(r) == UNCHANGED unsettled

\* recordFailureFireAndForget: the insert is issued and not awaited.
Issue(r) == unsettled' = [unsettled EXCEPT ![r] = @ + 1]

\* normalizeAndValidate refuses a record.
Drop(r) ==
  /\ run[r].pc = "drain"
  /\ run[r].dropped < MaxDrops
  /\ run' = [run EXCEPT ![r].dropped = @ + 1]
  /\ Issue(r)
  /\ UNCHANGED <<job, entries, summarized, meta, now, overlapped, hit, faults>>

\* Whether persistBatch created or updated any row is all the outcome needs to know.
OutcomeOf(s, upserted) ==
  IF s.dropped = 0 THEN "success" ELSE IF upserted THEN "partial_failure" ELSE "failed"

EndDrain(r) ==
  /\ run[r].pc = "drain"
  /\ \E upserted \in BOOLEAN :
       run' = [run EXCEPT ![r] = [run[r] EXCEPT !.pc = "finish_job", !.finishedAt = now,
                                                !.outcome = OutcomeOf(run[r], upserted)]]
  /\ now' = now + 1
  /\ UNCHANGED <<job, entries, summarized, meta, unsettled, overlapped, hit, faults>>

\* A provider error that is not retried, after any number of pages.
DrainThrows(r) ==
  /\ run[r].pc = "drain"
  /\ Catch(r, run[r])
  /\ UNCHANGED <<job, entries, summarized, meta, unsettled, overlapped, hit, faults>>

\* The run-level entry, refused by the foreign key when there is no job row.
RecordFailure(r, ack) ==
  /\ run[r].pc = "record_failure"
  /\ Answer(r, ack)
  /\ IF job[r] = NoJob
       THEN ack = "ok" /\ Throw(r) /\ UNCHANGED summarized
       ELSE /\ summarized' = IF Applied(ack) THEN summarized \cup {r} ELSE summarized
            /\ Continue(r, ack, [run[r] EXCEPT !.pc = "finish_job"])
  /\ UNCHANGED <<job, entries, meta, unsettled, overlapped>>

\* Mutant of FailedCount: the failure that ended the run counts as a record's.
FailedCountOfRun(s) == IF s.caught THEN s.dropped + 1 ELSE s.dropped

\* recordsFailed: the catch block writes zero, whatever the drain had counted.
FailedCount(s) == IF s.caught THEN 0 ELSE s.dropped

FinishJob(r, ack) ==
  /\ run[r].pc = "finish_job"
  /\ Answer(r, ack)
  /\ job' = IF Applied(ack)
              THEN [job EXCEPT ![r] =
                      [outcome |-> run[r].outcome, finishedAt |-> run[r].finishedAt,
                       failed |-> FailedCount(run[r]), thrown |-> run[r].caught]]
              ELSE job
  /\ Continue(r, ack, [run[r] EXCEPT !.pc = "read_metadata"])
  /\ UNCHANGED <<entries, summarized, meta, unsettled, overlapped>>

ReadMetadata(r, ack) ==
  /\ run[r].pc = "read_metadata"
  /\ Answer(r, ack)
  /\ Continue(r, ack, [run[r] EXCEPT !.pc = "write_metadata", !.existing = meta])
  /\ UNCHANGED <<job, entries, summarized, meta, unsettled, overlapped>>

\* Mutant of FailuresAfter: a success does not reset the count.
FailuresKept(s) == IF s.outcome = "success" THEN s.existing.failures ELSE s.existing.failures + 1

FailuresAfter(s) == IF s.outcome = "success" THEN 0 ELSE s.existing.failures + 1

\* Mutant of LastSuccessAfter: a failed run clears it.
LastSuccessForgotten(s) == IF s.outcome = "success" THEN s.finishedAt ELSE Never

LastSuccessAfter(s) ==
  IF s.outcome = "success" THEN s.finishedAt ELSE s.existing.lastSuccess

\* The snapshot is computed from what was read: another run may have written
\* the row in between.
WriteMetadata(r, ack) ==
  /\ run[r].pc = "write_metadata"
  /\ Answer(r, ack)
  /\ meta' = IF Applied(ack)
               THEN [status |-> run[r].outcome, completedAt |-> run[r].finishedAt,
                     lastSuccess |-> LastSuccessAfter(run[r]),
                     failures |-> FailuresAfter(run[r])]
               ELSE meta
  /\ Continue(r, ack, Over)
  /\ UNCHANGED <<job, entries, summarized, unsettled, overlapped>>

\* An insert nobody awaits is done, or fails and is only logged.
SettleEntry(r, ack) ==
  /\ unsettled[r] > 0
  /\ Answer(r, ack)
  /\ unsettled' = [unsettled EXCEPT ![r] = @ - 1]
  /\ entries' = IF Applied(ack) THEN [entries EXCEPT ![r] = @ + 1] ELSE entries
  /\ UNCHANGED <<run, job, summarized, meta, now, overlapped>>

\* The process dies under the run, or exits after it (closeWithGrace waits for
\* the job, not for the inserts): what is not settled is lost.
Die(r) ==
  /\ r \in Active \/ unsettled[r] > 0
  /\ FaultsLeft
  /\ faults' = [faults EXCEPT !.crash = @ + 1]
  /\ hit' = hit \cup {r}
  /\ run' = [run EXCEPT ![r] = Over]
  /\ unsettled' = [unsettled EXCEPT ![r] = 0]
  /\ UNCHANGED <<job, entries, summarized, meta, now, overlapped>>

DatabaseCall(r, ack) ==
  \/ StartJob(r, ack)
  \/ RecordFailure(r, ack)
  \/ FinishJob(r, ack)
  \/ ReadMetadata(r, ack)
  \/ WriteMetadata(r, ack)
  \/ SettleEntry(r, ack)

Next ==
  \/ \E r \in Runs : Begin(r) \/ Drop(r) \/ EndDrain(r) \/ DrainThrows(r)
  \/ \E r \in Runs, ack \in Acks : DatabaseCall(r, ack)
  \/ \E r \in Runs : Die(r)

Spec == Init /\ [][Next]_vars

(***************************************************************************)
(* Properties                                                              *)
(***************************************************************************)

\* The runs recorded as not successful since the last success of the snapshot.
FailedSince == {r \in Runs : /\ job[r].outcome \in Outcomes \ {"success"}
                             /\ job[r].finishedAt > meta.lastSuccess}

\* consecutiveFailureCount is the number of failed runs since the last success:
\* a run is missing from it only where a call failed or a process died, and
\* counted twice only where a call failed, as long as no two runs overlapped.
FailuresCounted ==
  Active = {} /\ ~overlapped =>
    /\ meta.failures <= Cardinality(FailedSince) + faults.storage
    /\ meta.failures >= Cardinality(FailedSince) - faults.storage - faults.crash

\* lastSuccessfulSyncAt goes back only where an overlapping run writes over it
\* what it had read before.
LastSuccessAdvances == [][meta'.lastSuccess < meta.lastSuccess => overlapped]_vars

\* Once a run that nothing hit is over and its inserts have settled, its job row
\* is closed and agrees with the failure log, overlapping or not: a run-level
\* entry for a run that threw, else one entry for every record it failed.
JobRowsTrue ==
  \A r \in Runs : run[r].pc = "over" /\ unsettled[r] = 0 /\ r \notin hit =>
    /\ job[r].outcome \in Outcomes
    /\ IF job[r].thrown THEN r \in summarized ELSE entries[r] = job[r].failed

=============================================================================
