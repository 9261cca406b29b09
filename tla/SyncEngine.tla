----------------------------- MODULE SyncEngine -----------------------------
(***************************************************************************)
(* SyncEngine.run (application/sync/sync-engine.ts) for one (provider,     *)
(* entityType): the lock, the choice of incremental or full sync, the page *)
(* loop with its retries and its fallback to a full backfill, the atomic   *)
(* persistence of a page with the cursor, and the job history, failure log *)
(* and metadata that a run leaves behind.                                  *)
(*                                                                         *)
(* Every awaited call is a step of its own, so crashes, upstream changes   *)
(* and other runs come between any two of them.  Every database call can   *)
(* fail, or take effect and still be reported as failed (see Acks).        *)
(*                                                                         *)
(* The provider is external.  Its change log is a counter, head: change n  *)
(* gives one record the version n.  A cursor is the position in the log up *)
(* to which the provider vouches that a listing was complete: the promise  *)
(* of a Google syncToken, which that adapter passes through.  The adapters *)
(* that make their own cursors are HubSpotSync and StripePayments.         *)
(***************************************************************************)
EXTENDS Integers, FiniteSets

CONSTANTS
  Runs,              \* run slots: calls of run() for this provider/entity
  Keys,              \* source ids of records at the provider
  MaxPages,          \* config.maxPagesPerRun
  MaxAttempts,       \* RetryPolicyConfig.maxAttempts
  PageSize,          \* records per page of the provider
  LeaseCanExpire,    \* TRUE: a lease may run out while its run is still active
  ProviderStalls,    \* TRUE: a page may be empty although there is more to list
  MaxChanges,        \* bound: upstream changes
  MaxProviderFaults, \* bound: failed provider calls
  MaxStorageFaults,  \* bound: failed database calls
  MaxCrashes         \* bound: process crashes

ASSUME PagesAssumption    == MaxPages \in Nat \ {0}
ASSUME AttemptsAssumption == MaxAttempts \in Nat \ {0}
ASSUME PageSizeAssumption == PageSize \in Nat \ {0}
ASSUME BoundsAssumption   ==
  /\ {LeaseCanExpire, ProviderStalls} \subseteq BOOLEAN
  /\ {MaxChanges, MaxProviderFaults, MaxStorageFaults, MaxCrashes} \subseteq Nat

VARIABLES
  head,      \* provider: number of changes so far
  upstream,  \* provider: version of each record, 0 if it does not exist
  bad,       \* provider: whether that version fails normalize or validate
  stored,    \* canonical tables: version of each record, 0 if there is no row
  cursor,    \* sync_cursors: position, or NoCursor
  locked,    \* sync_locks: the row exists
  job,       \* job_history: outcome of the row of each slot's latest run
  logged,    \* failure_logs: that run has a run-level entry
  status,    \* sync_metadata: lastSyncStatus
  run,       \* local state of each run
  faults     \* how many faults of each kind have happened

database == <<stored, cursor, locked, job, logged, status>>
source   == <<head, upstream, bad>>
vars     == <<source, database, run, faults>>

NoCursor  == -1
Positions == 0 .. MaxChanges
Cursors   == Positions \cup {NoCursor}
NoPage    == [k \in Keys |-> 0]

Outcomes == {"success", "partial_failure", "failed"}
Results  == Outcomes \cup {"none", "skipped", "threw", "crashed"}

(***************************************************************************)
(* SyncProviderError subclasses by the flags the engine looks at; an error *)
(* that is not a SyncProviderError is rethrown like the unflagged ones.    *)
(***************************************************************************)
Retryable          == {"RATE_LIMITED", "PROVIDER_TIMEOUT", "PROVIDER_UNAVAILABLE"}
RequiresFullResync == {"STALE_CURSOR", "INVALID_CURSOR"}
Unflagged          == {"AUTHENTICATION_EXPIRED", "MALFORMED_RESPONSE", "UNEXPECTED_ERROR"}
ErrorCodes         == Retryable \cup RequiresFullResync \cup Unflagged

\* Outcome of an awaited database call: done, not done and reported as failed,
\* or done although the caller sees an error (the connection broke after COMMIT).
Acks == {"ok", "failed", "lost"}
Applied(ack) == ack # "failed"

PCs == {"idle", "get_cursor", "start_job", "fetch", "clear_cursor", "persist",
        "finish_job", "metadata", "record_failure", "release"}

RunStates ==
  [pc : PCs, mode : {"incremental", "full"}, from : Positions, asOf : Cursors,
   todo : SUBSET Keys, page : [Keys -> Positions], nextCursor : Cursors,
   pages : 0 .. MaxPages, attempts : 0 .. MaxAttempts - 1, rejected : BOOLEAN,
   upserted : BOOLEAN, caught : BOOLEAN, outcome : Results]

\* A run that is not executing, with the result of the previous call.
Idle(result) ==
  [pc |-> "idle", mode |-> "incremental", from |-> 0, asOf |-> NoCursor,
   todo |-> {}, page |-> NoPage, nextCursor |-> NoCursor, pages |-> 0,
   attempts |-> 0, rejected |-> FALSE, upserted |-> FALSE, caught |-> FALSE,
   outcome |-> result]

TypeOK ==
  /\ head \in Positions
  /\ upstream \in [Keys -> Positions]
  /\ bad \in [Keys -> BOOLEAN]
  /\ stored \in [Keys -> Positions]
  /\ cursor \in Cursors
  /\ locked \in BOOLEAN
  /\ job \in [Runs -> Outcomes \cup {"none", "in_progress"}]
  /\ logged \in [Runs -> BOOLEAN]
  /\ status \in Outcomes \cup {"none"}
  /\ run \in [Runs -> RunStates]
  /\ faults \in [provider : 0 .. MaxProviderFaults, storage : 0 .. MaxStorageFaults,
                 crash : 0 .. MaxCrashes]

Init ==
  /\ head = 0
  /\ upstream = NoPage
  /\ bad = [k \in Keys |-> FALSE]
  /\ stored = NoPage
  /\ cursor = NoCursor
  /\ locked = FALSE
  /\ job = [r \in Runs |-> "none"]
  /\ logged = [r \in Runs |-> FALSE]
  /\ status = "none"
  /\ run = [r \in Runs |-> Idle("none")]
  /\ faults = [provider |-> 0, storage |-> 0, crash |-> 0]

(***************************************************************************)
(* Helpers                                                                 *)
(***************************************************************************)

\* One unit of the storage budget is used by every call that is not "ok".
Answer(ack) ==
  /\ ack \in Acks
  /\ ack # "ok" => faults.storage < MaxStorageFaults
  /\ faults' = [faults EXCEPT !.storage = IF ack = "ok" THEN @ ELSE @ + 1]

\* Mutant of Thrown: no catch block.
NotCaught(s) == [s EXCEPT !.pc = "release", !.outcome = "threw"]

\* Where an exception takes a run: from the try block to the catch block, from
\* the catch block out of run() by way of the finally block.
Thrown(s) ==
  IF s.caught
    THEN [s EXCEPT !.pc = "release", !.outcome = "threw"]
    ELSE [s EXCEPT !.pc = "record_failure", !.caught = TRUE, !.outcome = "failed"]

\* Mutant of Continue: errors of database calls are swallowed.
ContinueAnyway(r, ack, s) == run' = [run EXCEPT ![r] = s]

\* Run r continues as s after an awaited database call that answered ack.
Continue(r, ack, s) ==
  run' = [run EXCEPT ![r] = IF ack = "ok" THEN s ELSE Thrown(run[r])]

AllIdle == \A r \in Runs : run[r].pc = "idle"

\* Mutant of LockFree: an upsert without its WHERE clause.
TakeOver == TRUE

\* Whether tryAcquire gets the row: it is missing or its lease has run out.  A
\* row nobody works under runs out in time (module SyncLock has the clock).
LockFree == ~locked \/ AllIdle \/ LeaseCanExpire

(***************************************************************************)
(* The steps of run()                                                      *)
(***************************************************************************)

\* tryAcquire comes before the try block: when it fails, run() throws.
TryAcquire(r, ack) ==
  /\ run[r].pc = "idle"
  /\ LockFree
  /\ Answer(ack)
  /\ locked' = (locked \/ Applied(ack))
  /\ run' = [run EXCEPT ![r] =
               IF ack = "ok" THEN [Idle("none") EXCEPT !.pc = "get_cursor"]
                             ELSE Idle("threw")]
  /\ job' = [job EXCEPT ![r] = "none"]
  /\ logged' = [logged EXCEPT ![r] = FALSE]
  /\ UNCHANGED <<source, stored, cursor, status>>

Skip(r) ==
  /\ run[r].pc = "idle"
  /\ ~LockFree
  /\ run' = [run EXCEPT ![r] = Idle("skipped")]
  /\ job' = [job EXCEPT ![r] = "none"]
  /\ logged' = [logged EXCEPT ![r] = FALSE]
  /\ UNCHANGED <<source, stored, cursor, locked, status, faults>>

\* A cursor that exists may be stale or expired by the clock: then it is kept
\* in the table and not used.
GetCursor(r, ack) ==
  /\ run[r].pc = "get_cursor"
  /\ Answer(ack)
  /\ \E usable \in BOOLEAN :
       /\ usable => cursor # NoCursor
       /\ Continue(r, ack,
            [run[r] EXCEPT !.pc = "start_job",
                           !.mode = IF usable THEN "incremental" ELSE "full",
                           !.from = IF usable THEN cursor ELSE 0])
  /\ UNCHANGED <<source, database>>

StartJob(r, ack) ==
  /\ run[r].pc = "start_job"
  /\ Answer(ack)
  /\ job' = IF Applied(ack) THEN [job EXCEPT ![r] = "in_progress"] ELSE job
  /\ Continue(r, ack, [run[r] EXCEPT !.pc = "fetch"])
  /\ UNCHANGED <<source, stored, cursor, locked, logged, status>>

\* Page token null: the provider opens a listing as of now.
Opening(s) == s.asOf = NoCursor
ListedAsOf(s) == IF Opening(s) THEN head ELSE s.asOf
StillToList(s) == IF Opening(s) THEN {k \in Keys : upstream[k] > s.from} ELSE s.todo

\* Records that fail normalize or validate are counted and left out of the batch.
Accepted(ks) == {k \in ks : ~bad[k]}

\* A page: at most PageSize of the records still to list, none only if there
\* is nothing left or the provider stalls.  The last page carries the cursor,
\* which an adapter may leave out of a listing without records.
FetchPage(r) ==
  LET s == run[r]  due == StillToList(s) IN
  /\ s.pc = "fetch"
  /\ \E ks \in SUBSET due, vouched \in BOOLEAN :
       /\ Cardinality(ks) <= PageSize
       /\ ks = {} => due = {} \/ ProviderStalls
       /\ ~vouched => Opening(s) /\ due = {}
       /\ run' = [run EXCEPT ![r] =
            [s EXCEPT !.pc = "persist",
                      !.asOf = ListedAsOf(s),
                      !.todo = due \ ks,
                      !.page = [k \in Keys |-> IF k \in Accepted(ks) THEN upstream[k] ELSE 0],
                      !.nextCursor = IF due = ks /\ vouched THEN ListedAsOf(s) ELSE NoCursor,
                      !.pages = @ + 1,
                      !.attempts = 0,
                      !.rejected = @ \/ Accepted(ks) # ks]]
  /\ UNCHANGED <<source, database, faults>>

\* Mutant of AfterFetchError: one attempt too many.
OneRetryMore(s, code) ==
  IF code \in Retryable /\ s.attempts + 1 <= MaxAttempts
    THEN [s EXCEPT !.attempts = @ + 1]
    ELSE Thrown(s)

\* What RetryPolicy.execute and the catch in drain() make of a provider error:
\* another attempt, the fallback to a full backfill, or a failed run.
AfterFetchError(s, code) ==
  IF code \in Retryable /\ s.attempts + 1 < MaxAttempts
    THEN [s EXCEPT !.attempts = @ + 1]
  ELSE IF s.mode = "incremental" /\ code \in RequiresFullResync
    THEN [s EXCEPT !.pc = "clear_cursor", !.attempts = 0]
  ELSE Thrown(s)

FetchError(r, code) ==
  /\ run[r].pc = "fetch"
  /\ faults.provider < MaxProviderFaults
  /\ faults' = [faults EXCEPT !.provider = @ + 1]
  /\ run' = [run EXCEPT ![r] = AfterFetchError(run[r], code)]
  /\ UNCHANGED <<source, database>>

\* The fallback: clear the rejected cursor and list everything from the start.
\* The attempt does not count as a page.
ClearCursor(r, ack) ==
  /\ run[r].pc = "clear_cursor"
  /\ Answer(ack)
  /\ cursor' = IF Applied(ack) THEN NoCursor ELSE cursor
  /\ Continue(r, ack, [run[r] EXCEPT !.pc = "fetch", !.mode = "full", !.from = 0,
                                     !.asOf = NoCursor, !.todo = {}])
  /\ UNCHANGED <<source, stored, locked, job, logged, status>>

\* created or updated rather than unchanged: the version in the row differs.
Changes(page) == \E k \in Keys : page[k] # 0 /\ page[k] # stored[k]

OutcomeOf(s) ==
  IF ~s.rejected THEN "success" ELSE IF s.upserted THEN "partial_failure" ELSE "failed"

\* Mutant of AfterPage: `pages--` on every way around the loop.
PagesNotCounted(s) ==
  IF s.todo # {} /\ s.pages < MaxPages
    THEN [s EXCEPT !.pc = "fetch", !.pages = @ - 1]
    ELSE [s EXCEPT !.pc = "finish_job", !.outcome = OutcomeOf(s)]

\* The loop condition, and the outcome when the loop ends.
AfterPage(s) ==
  IF s.todo # {} /\ s.pages < MaxPages
    THEN [s EXCEPT !.pc = "fetch"]
    ELSE [s EXCEPT !.pc = "finish_job", !.outcome = OutcomeOf(s)]

\* Mutants of CursorWith: a cursor saved outside the transaction; one saved with
\* every page of a listing.
CursorApart(s, ack) == IF s.nextCursor # NoCursor THEN s.nextCursor ELSE cursor
CursorEarly(s, ack) == IF Applied(ack) THEN s.asOf ELSE cursor

\* The page that ends a listing brings a cursor, the others bring null.
CursorWith(s, ack) ==
  IF Applied(ack) /\ s.nextCursor # NoCursor THEN s.nextCursor ELSE cursor

\* One transaction: the upserts of the batch, unconditional, and the cursor.
PersistBatch(r, ack) ==
  LET s == run[r] IN
  /\ s.pc = "persist"
  /\ Answer(ack)
  /\ stored' = IF Applied(ack)
                 THEN [k \in Keys |-> IF s.page[k] # 0 THEN s.page[k] ELSE stored[k]]
                 ELSE stored
  /\ cursor' = CursorWith(s, ack)
  /\ Continue(r, ack,
       AfterPage([s EXCEPT !.upserted = @ \/ Changes(s.page), !.page = NoPage]))
  /\ UNCHANGED <<source, locked, job, logged, status>>

\* The catch block: failure_logs.job_id references job_history, so the insert
\* is refused when the job row was never written.
RecordFailure(r, ack) ==
  /\ run[r].pc = "record_failure"
  /\ Answer(ack)
  /\ IF job[r] = "none"
       THEN /\ ack = "ok"
            /\ logged' = logged
            /\ run' = [run EXCEPT ![r] = Thrown(run[r])]
       ELSE /\ logged' = [logged EXCEPT ![r] = @ \/ Applied(ack)]
            /\ Continue(r, ack, [run[r] EXCEPT !.pc = "finish_job"])
  /\ UNCHANGED <<source, stored, cursor, locked, job, status>>

\* jobHistoryRepository.finish, from the try block or from the catch block.
FinishJob(r, ack) ==
  /\ run[r].pc = "finish_job"
  /\ Answer(ack)
  /\ job' = IF Applied(ack) THEN [job EXCEPT ![r] = run[r].outcome] ELSE job
  /\ Continue(r, ack, [run[r] EXCEPT !.pc = "metadata"])
  /\ UNCHANGED <<source, stored, cursor, locked, logged, status>>

\* upsertMetadataSnapshot, from the try block or from the catch block.  What it
\* reads before it writes only feeds the counters, which are not modelled.
WriteMetadata(r, ack) ==
  /\ run[r].pc = "metadata"
  /\ Answer(ack)
  /\ status' = IF Applied(ack) THEN run[r].outcome ELSE status
  /\ Continue(r, ack, [run[r] EXCEPT !.pc = "release"])
  /\ UNCHANGED <<source, stored, cursor, locked, job, logged>>

\* The finally block deletes the lock row, whoever wrote it; when the DELETE
\* fails its exception replaces the result.
ReleaseLock(r, ack) ==
  /\ run[r].pc = "release"
  /\ Answer(ack)
  /\ locked' = (locked /\ ~Applied(ack))
  /\ run' = [run EXCEPT ![r] = Idle(IF ack = "ok" THEN run[r].outcome ELSE "threw")]
  /\ UNCHANGED <<source, stored, cursor, job, logged, status>>

(***************************************************************************)
(* The environment                                                         *)
(***************************************************************************)

Crash(r) ==
  /\ run[r].pc # "idle"
  /\ faults.crash < MaxCrashes
  /\ faults' = [faults EXCEPT !.crash = @ + 1]
  /\ run' = [run EXCEPT ![r] = Idle("crashed")]
  /\ UNCHANGED <<source, database>>

\* A record is created or modified at the provider.
Change(k) ==
  /\ head < MaxChanges
  /\ head' = head + 1
  /\ upstream' = [upstream EXCEPT ![k] = head + 1]
  /\ \E b \in BOOLEAN : bad' = [bad EXCEPT ![k] = b]
  /\ UNCHANGED <<database, run, faults>>

Step(r) ==
  \/ \E ack \in Acks : TryAcquire(r, ack)
  \/ Skip(r)
  \/ \E ack \in Acks : GetCursor(r, ack)
  \/ \E ack \in Acks : StartJob(r, ack)
  \/ FetchPage(r)
  \/ \E code \in ErrorCodes : FetchError(r, code)
  \/ \E ack \in Acks : ClearCursor(r, ack)
  \/ \E ack \in Acks : PersistBatch(r, ack)
  \/ \E ack \in Acks : RecordFailure(r, ack)
  \/ \E ack \in Acks : FinishJob(r, ack)
  \/ \E ack \in Acks : WriteMetadata(r, ack)
  \/ \E ack \in Acks : ReleaseLock(r, ack)

Next ==
  \/ \E r \in Runs : Step(r)
  \/ \E r \in Runs : Crash(r)
  \/ \E k \in Keys : Change(k)

Spec == Init /\ [][Next]_vars

\* The scheduler keeps triggering runs and a run that is executing goes on:
\* awaited calls settle (an answer or an error), nothing waits for another run.
FairSpec == Spec /\ \A r \in Runs : WF_vars(Step(r))

(***************************************************************************)
(* Properties                                                              *)
(***************************************************************************)

\* ADR 0003: the cursor never points past data that was not persisted.  Every
\* record last changed at or before the cursor is stored in its current
\* version, unless that version was rejected by normalize or validate.
CursorSafe ==
  \A k \in Keys : 0 < upstream[k] /\ upstream[k] <= cursor /\ ~bad[k]
                    => stored[k] = upstream[k]

\* Run after run, the cursor only moves forward, save that the fallback may drop it,
\* and no canonical row is overwritten with an older version of its record.
NothingRegresses ==
  [][/\ cursor' < cursor => cursor' = NoCursor
     /\ \A k \in Keys : stored'[k] >= stored[k]]_vars

\* A run about to return a result has recorded that same result in its job row
\* and in the metadata snapshot, and a failure it caught in the failure log.
ReportedAsRecorded ==
  \A r \in Runs : run[r].pc = "release" /\ run[r].outcome # "threw" =>
    /\ job[r] = run[r].outcome
    /\ status = run[r].outcome
    /\ run[r].caught => logged[r]

\* "Never throws out of run()" as far as it goes: whatever the provider does
\* and wherever the process dies, only a failed database call makes run() throw.
ThrowsOnlyOnStorageFault ==
  (\E r \in Runs : run[r].outcome = "threw") => faults.storage > 0

Port == INSTANCE ExclusiveRun WITH running <- {r \in Runs : run[r].pc # "idle"}

\* As long as no lease runs out under its run, the engine keeps what the lock
\* port promises: of the runs of one provider and entity only one is executing.
ImplementsPort == Port!Spec

\* maxPagesPerRun: a provider that says hasMore for ever, the fallback and the
\* retries cannot keep a run from ending.
RunTerminates == \A r \in Runs : run[r].pc # "idle" ~> run[r].pc = "idle"

\* A page that brings nothing of what there is to list.
Stalls(r) ==
  /\ run[r].pc = "fetch" /\ run'[r].pc = "persist"
  /\ StillToList(run[r]) # {} /\ run'[r].todo = StillToList(run[r])

CaughtUp == \A k \in Keys : ~bad[k] => stored[k] = upstream[k]

\* Once upstream is quiet, the faults have ceased and the provider no longer
\* stalls, the store ends up holding every valid record in its current version,
\* and keeps doing so.
CatchesUp == <>[][\A r \in Runs : ~Stalls(r)]_vars => <>[]CaughtUp

=============================================================================
