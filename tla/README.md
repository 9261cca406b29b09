# Verification of the unified sync platform

TLA+ models of the synchronisation core of this repository, model-checked with TLC on small
instances, and theorems about every model checked by TLAPS for every value of their constants. Paths
below are relative to the repository root.

The platform copies contacts, deals, calendar events and payments from HubSpot, Google Calendar
and Stripe into canonical tables. What it promises is written in `README.md`, `docs/` and the
doc comments: runs of one (provider, entity type) never overlap, a cursor never passes data that
was not persisted, a webhook may arrive twice or not at all, a client may repeat its trigger. The
modules state those promises and check how far the code keeps them.

## 1. The system

| Component | State it keeps | Operations | Behaves badly when |
| --- | --- | --- | --- |
| Sync lock `src/infrastructure/repositories/prisma-sync-lock.ts` | `sync_locks`, one row per (provider, entity type), aged by the database clock | `tryAcquire` (one conditional upsert), `release` (unconditional delete) | the holder dies; the holder outlives its lease |
| Sync engine `src/application/sync/sync-engine.ts` | nothing between runs; a run has its mode, page token, page count, attempts, flags | `run`, `drain`, `runMany` | any awaited call fails, takes effect and still reports an error, or never returns; records change between pages |
| Retry policy and error classes `src/application/sync/retry-policy.ts`, `src/domain/errors/`, `src/integrations/shared/` | attempts | `execute` | a retry outlasts the lease; an error class sends the run the wrong way |
| Persistence and cursor store `prisma-sync-persistence.repository.ts`, `prisma-sync-cursor.repository.ts` | canonical tables, `sync_cursors` | `persistBatch` (one transaction), `get`, `clear` | the rows and the cursor part ways; an older page is written last |
| Job history, failure log, metadata | `job_history`, `failure_logs`, `sync_metadata` | `start`, `finish`, `record`, `get`, `upsert` | one of them fails after the others were written; overlapping runs read and write the metadata row in turn; an insert nobody awaits is lost |
| Provider adapters `src/integrations/` | none: a listing's state is in the page token | `fetchIncremental`, `fetchFull`, `fetchOne`, `normalize`, `validate` | a record changes behind an open listing; timestamps tie |
| Webhook ingestion `src/application/webhooks/`, `webhooks.routes.ts` | `webhook_events`, one row per idempotency key | `ingest` and its five ledger calls | deliveries race, repeat or stop; the process dies between the effect and its mark |
| Sync trigger and worker `sync.routes.ts`, `prisma-idempotency-key.repository.ts`, `src/workers/sync-worker.ts` | `idempotency_keys` | `claim`, `complete`, `release` around `runMany` | a client repeats its request; the process dies with the key claimed |
| Revenue report, status mapping | a mapping cached by each process at start, `payment_status_mappings` | `calculate` (two queries), `refresh`, `map` | rows change between the two queries; the table is edited; a month ends |
| Provider registry | the units whose credentials are given | `register`, `all`, `get` | a filter matches nothing |
| HTTP plumbing, queue, logging, metrics, schema | configuration | start-up, read-only routes | (no state changes) |

How they interact: the worker's recurring job and `POST /sync/trigger` call `runMany`, which awaits
one `run` per registered provider; a Google push notification calls `run` directly. A run takes the
lock row, reads the cursor, writes the job row, alternates between the adapter and `persistBatch`,
finishes the job row and the metadata, and deletes the lock row in its `finally` block. Stripe and
HubSpot webhooks call `persistBatch` **without** the lock and without a cursor, concurrently with
any run. Everything shared is in PostgreSQL; the processes share no memory, and every `await` is a
point where another process, or a crash, may come in between.

## 2. Modules

| Module | Models | Shared or abstracted |
| --- | --- | --- |
| `ExclusiveRun` | what `SyncLockPort` promises: at most one run inside | abstract specification |
| `SyncLock` | the lease row with its clock, crashes and late releases | refines `ExclusiveRun` until a run outlives its lease |
| `SyncEngine` | `run` and `drain`, one action per awaited call | refines `ExclusiveRun` while no lease runs out under its run |
| `RunRecords` | what a run leaves about itself: job row, failure log with its un-awaited inserts, metadata counters | the run of `SyncEngine` reduced to drops and its end; runs may overlap |
| `WebhookIngestion` | the ledger, `ingest`, the three routes | one slot per request, one ingest per event |
| `SyncTrigger` | the callers of `runMany`, the registry they filter and one idempotency key | a run returns or throws (shown in `SyncEngine`) |
| `HubSpotSync` | search by watermark, full listing, webhook fetch-then-write | the engine reduced to page, transaction, fallback, failure |
| `StripePayments` | polling by creation time next to webhook writes | as above |
| `CalendarSync` | syncToken listings, tombstones and their purge, the 410 fallback, push notifications that start runs | as above |
| `RevenueReport` | the status mapping in every process, the rows it leads to, the report of two queries and its buckets | any process writes any status at any time |
| `SyncEngine_proofs`, `RunRecords_proofs`, `WebhookIngestion_proofs`, `HubSpotSync_proofs`, `StripePayments_proofs`, `CalendarSync_proofs`, `RevenueReport_proofs` | theorems about the module they are named after | |
| `ExclusionRows_proofs` | theorems about `SyncTrigger` and `SyncLock`, the two rows that keep executions apart | extends both, which is why the specification of `SyncLock` is called `LockSpec` |
| `MC...` | instances for TLC | |

**SyncLock.** `held`, `rowAge` are the row and `now() - locked_at`; `active`, `age` the runs between
`tryAcquire` and the end of `finally`. `TryAcquire` is the whole upsert with its `WHERE`; `Release`
deletes the row whoever wrote it, as the statement does; `EndWithoutRelease` is a crash or a failed
delete. Ages are counted to `Lease + 1`, which stands for every later age. `writer`,
`lateReleases` and `overran` are history variables, read by no guard; under the mapping to
`ExclusiveRun` the port's `running` is `active` until some run has outlived its lease, from where on
the port promises nothing.

**SyncEngine.** `stored`, `cursor`, `locked`, `job`, `logged`, `status` are the tables; `run[r]` the
locals of a call, whose `pc` is the awaited call it is at (the read and the write of the metadata
snapshot count as one, since the read only feeds its counters). An awaited database call answers `ok`,
`failed`, or `lost` (committed, but the connection broke before the answer); `Thrown` sends an
exception to the catch block or out of `run` by way of `finally`. A record is its version: `head`
counts changes at the provider, and a cursor is a position in that count. `FetchPage` is a listing
opened as of now that returns records in their current version in any order, as a Google
syncToken listing does; the last page carries the cursor, or none if the listing is empty.
`FetchError` covers every error class by the flags the code branches on. `LockFree` stands for
`SyncLock`: a row without a running holder expires in time, and a row with one does when
`LeaseCanExpire`.

**RunRecords.** The clock `now` moves when a run reads it for its `finishedAt`; `unsettled[r]` are the
inserts of `recordFailureFireAndForget` that are issued and not settled, which survive the run but
not its process. `ReadMetadata` and `WriteMetadata` are the two calls of `upsertMetadataSnapshot`.
`Begin` lets up to `MaxActive` runs in: more than one stands for leases that ran out. `hit` (the runs
a failed call or a dying process touched) and `overlapped` are history.

**WebhookIngestion.** `ledger` is `processing_status`; `at[q][e]` the place of request `q` in `ingest`
of event `e`; a HubSpot batch runs its ingests side by side and a rejection answers 500 while the
others go on (`Promise.all`). `effect` is what `process()` has durably done. Signature checks come
before any state change and are left out. A batch is what one request brings: two events, as
HubSpot sends them, or one.

**SyncTrigger.** `key` is the row of one idempotency key; `Claim`, `ReadKey`, `Complete`,
`ReleaseKey` are the repository's statements, each of which may report an error after or without its
write. Callers without a key and the worker share the code of `runMany` and do not meet the row.
`Registry` is what `buildCompositionRoot` registers for the credentials given, `Matching` the filter
of `runTrigger`; a filter that matches nothing is a 404, which releases the key.

**HubSpotSync.** `watermark` is the token in `sync_cursors`; a clock so coarse that changes share a
stamp; `SearchPage` sorted by stamp from `>= watermark`, `ListPage` in any order with the running
maximum that travels in the page token. `WebhookFetch` and `WebhookPersist` are the two awaits of
`processHubSpotEvent`. `raced` is history.

**StripePayments.** Payments numbered by creation; `FetchPage` lists newest first behind
`startingAfter`; an event carries a copy of the payment and is delivered in any order, late, or lost.
`changes` counts the transitions for the bound on them; `overtaken` is history.

**CalendarSync.** Google numbers its changes; `token` is a position among them and `oldest` the first
position whose token it still accepts. `Cancel` leaves a tombstone with or without times, `Purge`
removes it. `HandlePoke` is the ingest of a notification whose `process` awaits `syncEngine.run`;
`SkipPoke` the one whose run was skipped. Of the run, the steps that meet Google or these tables are
kept. `unserved` and `missed` are history.

**RevenueReport.** Instants are hours; the calendar is written out (`FirstOf`, `YearMonth`), since the
start of a bucket is computed by PostgreSQL's `date_trunc` and its end by JavaScript's `Date.UTC`.
`Loads` are the caches `refresh` may build: `findMany` has no order, so of two spellings that fold to
one key either may win. `Aggregate` and `FindUnknown` are the two queries in either order, with
writes in between. `loadedAt`, `asOf` and `touched` are history.

### Abstractions to keep in mind

- A record is its version. `Changes` (created or updated rather than unchanged) equates a version
  with its `sourceUpdatedAt`, which the code compares.
- Metrics, log lines, `recordsFetched` and `recordsUpserted` are left out; `SyncEngine` keeps only the
  last status of the metadata row, whose counters and times are in `RunRecords`.
- In `RunRecords` the end of a drain picks whether any row was created or updated.
- A group of payments stands for its sum and count; all payments have one provider and currency.
- The report assumes that the database session and the `TIMESTAMP(3)` columns are in UTC.
- A usable cursor may be treated as stale at any time (`GetCursor`, `OpenFull`): no clock of days.
- Retry delays are not modelled; nothing waits for them but the lease, which may expire at any time
  where `LeaseCanExpire` says so.
- `CursorRepository.save` has no caller outside tests and is left out.
- A HubSpot search that continues is assumed not to lose its place, and archived objects to stay.
- Each of `HubSpotSync`, `StripePayments`, `CalendarSync` has one run at a time: what the lock gives
  while leases last.
- `maxPagesPerRun` is in `SyncEngine` only. In the three adapter modules a capped run leaves what a run
  leaves that fails between two pages, so their safety properties cover it; their liveness properties
  hold for listings within the cap, and `SyncEngine_cap` shows what happens beyond it.
- A Google notification without a configured calendar is processed without a run
  (`webhooks.routes.ts:173-182`): `HandlePoke` and a `Fail` before anything is fetched.

## 3. What is checked

| Run | Instance | Shows |
| --- | --- | --- |
| `SyncLock` | 3 runs, lease 2 | `OverlapBounded`: leases overlap only as often as a run released late. `HolderOwnsRow`: until then a holder inside its lease has its own row. `TakeoverRobsNobody`: at any time, a standing row is taken over only when nobody is inside a lease. `OrphanRecovered`: a dead run's row is taken over. `ImplementsPort`: until a run outlives its lease the row is the port's lock. |
| `SyncEngine_safety` | 2 runs, 2 records, 2 changes, pages of 1, 2 pages, 2 attempts, 2 provider errors, 1 database fault, 1 crash | `CursorSafe` (ADR 0003), `NothingRegresses`, `ReportedAsRecorded`, `ThrowsOnlyOnStorageFault`, `ImplementsPort`. |
| `SyncEngine_live` | 1 run, same faults, a provider that may stall | `RunTerminates`; `CatchesUp`: once faults, changes and stalls cease, every valid record is stored in its current version. |
| `RunRecords` | 3 runs, 2 of them at once, 1 refused record each, 1 database fault or dying process | `JobRowsTrue`: a job row agrees with the failure log. `FailuresCounted`: the failure counter drifts only by faults, unless runs overlapped. `LastSuccessAdvances`: unless they did. |
| `WebhookIngestion` | a batch of 2 events and one of 1 of them, 2 requests, 1 duplicate, 1 rejection, 1 ledger fault, 1 crash | `ProcessedMeansHandled`, `AckedIsAccountedFor`, `EventuallyAccountedFor`. |
| `SyncTrigger` | 2 requests with a key, 1 without, the worker; no credentials or HubSpot's; 1 throw, 2 repository faults, 1 crash | `OneExecution`, `ExecutedOnce`, `RetryGetsResult`. |
| `HubSpotSync` | 2 objects of 2 versions, 3 stamps, 1 handler, 1 failure | `LostOnlyToRaces`, `WatermarkNeverRegresses`, `CatchesUp`: the search and its ties lose nothing; two races do. |
| `StripePayments` | 3 payments in 2 seconds, 1 transition, 1 lost event, 1 failure | `NewPaymentsSafe`, `EveryPaymentArrives`, `StaleOnlyWithCause`. |
| `CalendarSync` | 2 events, pages of 1, 3 changes, 2 failures | `ZombieRowsExplained`: why a deleted event can keep its row. `PokesServed`: a processed notification was acted on unless its run was skipped or failed. `EventuallyReflected`: the ticks bring the rows level. |
| `RevenueReport` | 3 payments around a year's end, a leap day and a month's end, 3 spellings, 2 processes, 2 writes, 1 edit, 3 queries, 4 granularities | `AccountedOnce`: each payment nobody touched is in one bucket, in the warnings or in neither, and buckets do not overlap. `StaleOnlyAfterEdit`: rows differ from the mapping table only after an edit their writer had not loaded. |

Two runs end in a counterexample, each against a sentence of the repository:

| Run | Property | The code does | The text says |
| --- | --- | --- | --- |
| `SyncEngine_cap` | `CatchesUp` | a listing longer than `maxPagesPerRun` ends as a success without a cursor and starts over on every run | "without ever losing data" (`README.md:31-34`) |
| `HubSpotSync_lost` | `WatermarkComplete` | an object modified behind an open full listing is older than the watermark that listing leaves | "no third case where the cursor advanced but the data didn't" (`docs/adr/0003-cursor-persistence-ownership.md:29`) |

Other differences between text and code that the models contain, without a run of their own:

- Two runs that overlap, because one outlived its lease, write an old version of a record over a newer
  one behind the cursor: with `LeaseCanExpire = TRUE` TLC refutes `CursorSafe`. ADR 0003 has "no
  third case where the cursor advanced but the data didn't".
- A rejected `process()` is answered 200, so there is no redelivery and nothing in the code retries the
  row, although the redelivery "is the retry that's supposed to make progress"
  (`webhook-ingestion.service.ts:24-26`). `AckedIsAccountedFor` says what is left: the row stands as
  failed.
- `sync-lock.port.ts:6-9` describes an advisory lock and runs that never race; the lease lock's
  `release` deletes the row of whoever holds it (`prisma-sync-lock.ts:34`). `OverlapBounded` says
  exactly how far that goes.
- "Never throws out of `run()`" (`sync-engine.ts:58`, `docs/architecture.md:102-103`): a database
  call outside the `try`, in the `catch` or in the `finally` does. `ThrowsOnlyOnStorageFault` is what
  holds. In `SyncTrigger`, a run that throws keeps the rest of the providers from being run.
- The job history is an "append-only audit trail"; when the metadata write fails, the catch block
  rewrites the same row from success to failed (`sync-engine.ts:222`).
- "Every webhook route always returns 200" (`docs/api.md:81`): it answers 500 when a ledger call
  fails.
- `markProcessed` overwrites unconditionally: a slower concurrent delivery can turn `processed` into
  `failed`. `ProcessedMeansHandled` is the direction that holds.
- An idempotency key whose process died stays claimed (`sync.routes.ts:57-60`): every retry gets 409.
- A poll, or an event delivered late, writes an older payment status over a newer one; the cause
  named `overtaken` in `StaleOnlyWithCause`.
- Unknown payments are "always excluded from `buckets`" (`revenue-report.ts:18`): the two queries of a
  report have snapshots of their own, and a payment whose row changes in between can be in a bucket
  and in the warnings, or in neither. `AccountedOnce` leaves out just those.
- The mapper is to be refreshed "whenever an operator edits the mapping table"
  (`configurable-payment-status-mapper.ts:14-15`): `refresh` is called at start only, and the rows
  already stored keep the status of their time.
- A notification is marked processed when its run was skipped or failed; the change waits for the next
  tick (`PokesServed`, `EventuallyReflected`).
- A calendar event whose tombstone was purged before a run saw it, or that carried no time, stays a
  confirmed row for good: the full listing after a 410 removes nothing (`ZombieRowsExplained`).
- A dead run's job row says `in_progress` for good. When a run throws, `finish` writes zero failed
  records whatever the drain had logged, so the row then agrees with the run-level entry only
  (`JobRowsTrue`).
- A key sent again with another body gets the result stored for the first one.

### Bounds

Every bound is a constant of the module, declared as such. Two runs and two records are the least
with which one run can work behind the other's back and one record change behind a listing of the
other; with pages of one record a full listing takes two pages, so that a page cap, a crash or a
change can come between pages. Two attempts show both answers of the retry policy, and two provider
errors a fallback after a retry, or two fallbacks. Two changes, one per record or both to one,
separate older from newer; a third would only repeat a pair. One database fault or crash suffices to
separate any two writes (in `RunRecords` the third run is what a drifted counter needs to show in a
later read), and in `SyncTrigger` two repository faults make a release fail after a failed
completion. Three lock runs are the least with which a late release lets a third run join. Two
requests over a batch of two are the least in which ingests interleave within and across requests.
Three stamps put one change before, on and after a watermark. Three changes are an event put,
cancelled and one more change that a token can pass; a third event would meet the same listing
states. The three payments sit on the last hour of a year, the first of a leap day and the first of
March, the two ends of a range among them. Deadlock is checked except in `WebhookIngestion`, which
stops when every batch is acknowledged and the duplicates are used up, and in `RunRecords`, which
stops when all runs are over. `SYMMETRY` is used in `SyncEngine_safety` only, a run without
liveness.

### Fairness

- `SyncEngine`, `HubSpotSync`, `StripePayments`, `CalendarSync`: weak fairness of a run's own steps together
  with its next start. Awaited calls settle (the HTTP client has timeouts, the database answers or
  fails), and the recurring job starts runs for ever. Faults, crashes, changes and stalls are never
  fair; `CatchesUp` of `SyncEngine` assumes that stalling stops, nothing else is bounded but by its
  constant. Nothing is assumed of webhooks in `HubSpotSync`, `StripePayments` and
  `CalendarSync`. `RunRecords` and `RevenueReport` have safety properties only.
- `SyncLock`: time passes, and somebody keeps trying to acquire.
- `WebhookIngestion`: ingests, replies and their ends are weakly fair. A delivery is strongly fair
  because a slot may be taken by another delivery again and again; a provider that retries
  what it has no 200 for gets through in the end.
- `SyncTrigger`: a handler goes on, and a client repeats a request without a result.

## 4. What is proved

All theorems hold for every value of the constants under the `ASSUME`s of the modules: positive page
sizes, page cap and attempts; a HubSpot and a Stripe clock that end at or after the second they
start in; a natural-number lease; payment times, ranges and bounds that are natural numbers;
finitely many lock runs, and finitely many Stripe payments. `Runs` and `Keys` of the engine, and the
events, objects, handlers, requests, callers, reported payments and processes elsewhere, are
arbitrary sets. TLC evaluates the assumptions in each run, and has checked every inductive invariant
below on the instances of section 3.

Every safety property and action property that a passing run checks is a theorem. Hardly any is
inductive as it stands; what had to be added is the reason why the code keeps it, and is told here
module by module.

**`ExclusionRows_proofs`**, the lease: `OverlapIsBounded`, `TakeoversRobNobody`, `HolderKeepsRow`,
`LockImplementsPort`. The types of the lease (`LockTypeOK`) are a lemma there, no property of a run:
the model keeps them by its own bounds, and no change of the code could break them.

- A takeover needs to know that nobody inside a lease has an older row. The invariant adds to
  `OverlapBounded` that the row is at least as young as every run inside its lease, and one less run
  for a row that is gone. Cardinality facts come from `FiniteSetTheorems`. `TakeoversRobNobody` is the
  first half by itself: an expired row is the youngest, so every lease has run out. It holds after
  late releases too, which `HolderOwnsRow` excludes.
- `LockImplementsPort` is the refinement of `ExclusiveRun`; its invariant says that, until a run has
  outlived its lease, an active run is alone, inside its lease, and owns a row of its own age.

**`ExclusionRows_proofs`**, the idempotency key: `TypeCorrect`, `KeyExcludes` (`OneExecution`),
`RetriesAreSafe` (`ExecutedOnce`), for any callers, deployments and filters.

- While a request executes, the row stands, so nobody else can claim (`RowStands`; the converse is
  false, a claimed row outlives a request that died). For `ExecutedOnce`, `Room` keeps the balance:
  whoever can still bring the sync to its end, the executing request or the next one to claim a free
  key, has a failed repository call in hand for every time it has ended before.

**`SyncEngine_proofs`**

- `TypeCorrect`. A page counter stays below the cap only because a run is in the fetch state only with
  pages left, and an outcome is one of three only where a run records it. `ProperRuns` adds both.
- `ThrowsOnlyAfterFault`: `[]ThrowsOnlyOnStorageFault`, whether leases expire or not. The catch block
  may leave `run()` without any call failing in it, when it has no job row to refer to; `Excused` says
  that this takes an earlier failed call, and that a run past `start_job` has its row.
- `RunsTakeTurns`: while no lease runs out under its run (`~LeaseCanExpire`), the engine implements
  `ExclusiveRun`, because whoever executes has the row, and is the only one (`Exclusive`).
- `CursorSafeWithoutOverlap`: `[]CursorSafe` from `[]OneAtATime`. What the data needs is not the lease
  but that no two runs execute at once: a lease that runs out does no harm unless another run comes
  in. The invariant `SafeInv` follows a listing through its pages: nothing is ahead of the provider
  (`NotAhead`); what precedes the cursor the listing started from is stored (`BaseSafe`); of what
  existed when it was opened, all is stored, in the page in hand, or still to list (`Accounted`); the
  page is no older than the rows it will replace, and a cursor comes only when nothing is left to
  list (`PageSafe`). A second run could replace rows behind the first one's back, and TLC finds a
  counterexample then. `ForwardWithoutOverlap`, for `NothingRegresses`, follows from the same
  invariant.
- `RecordedWithoutOverlap`: `[]ReportedAsRecorded` from the same premise. `Recorded` says step by step
  what a run has written on the way to its result; the premise is needed because the metadata row has
  one status for all runs. `JobRowsTellResults` is the part of it that needs no premise: the job row
  and the failure log of a run are written by no other run (`OwnRecordInv`).
- `CursorNeverPassesData`, `NothingGoesBack` and `ResultsAreOnRecord` put the two ends together: while
  no lease runs out under its run, `OneRun` discharges the premise, and the lock alone gives the three
  properties.

**`RunRecords_proofs`**, for any number of runs, drops, overlaps and faults:

- `TypeCorrect`. `TypeOK` bounds the clock and the failure counter, and neither guard nor assignment
  does: `Counted` bounds them by what runs have done, since a run reads the clock at most twice and
  writes the metadata row at most twice.
- `JobRowsAgree`: `[]JobRowsTrue`, which speaks of runs that are over. `Books` says what an untouched
  run has logged on the way there: entries and pending inserts together equal the records it dropped,
  a run that reaches `finish` from the catch block has its run-level entry, and a job row exists once
  the drain began, which is why the foreign key refuses no untouched run.
- `LastSuccessStands`: `LastSuccessAdvances`, from `Past` (no stored or held time is later than the
  clock) and `Turns`: without an overlap the one active run ended after the last success, and what it
  read of the metadata row is still there when it writes.
- `FailuresAddUp`: `[]FailuresCounted`, which speaks of moments when no run is active. `Accounts` says
  how far the counter may be off while a run is: its job row is closed before the counter is raised
  (one below), and a call that lost its answer sends a run to the catch block after its row or its
  count was written (the fault that allows it is in hand). A success sets the counter to zero, and
  `FailedSince` is empty then, because every job row on record ended no later than this run.

**`WebhookIngestion_proofs`**: `TypeCorrect`, `LedgerNeverLies` (`ProcessedMeansHandled`),
`AcknowledgedIsSafe` (`AckedIsAccountedFor`), for any events, batches and number of requests.

- The two properties speak of the ledger and of answered requests; `IngestInv` adds what an ingest
  under way vouches for: one about to call `markProcessed` has its effect behind it, and one that has
  returned, processed, rejected or duplicate, leaves an event that took effect or stands as failed.
  The slots of a request hold the events of its batch and no others, so an answer speaks for all.

**`HubSpotSync_proofs`**: `TypeCorrect`, `OnlyRacesLose` (`LostOnlyToRaces`), `WatermarkHolds`
(`WatermarkNeverRegresses`), for any account, page size, clock and number of deliveries.

- `RaceInv` says when an object is settled (its row is current, or it is among `raced`): all that a
  search has returned in its present version, all that an unfinished listing has returned, all behind
  the cursor of the last page once that page is saved, and all behind the watermark. A search, unlike
  a listing, returns what changed behind it again: the stamp of a change is at least that of every
  page fetched before, and a cursor is the largest stamp returned, compared with `>=`.
- `WatermarkHolds` needs that the watermark is the stamp of something that exists (`Attained`): a full
  listing's running maximum has reached it, or an object at or above it is still to be listed
  (`AheadInv`). The largest element of a page exists by a well-founded minimum.

**`StripePayments_proofs`**: `TypeCorrect`, `PaymentsArrive` (`NewPaymentsSafe`), `StatusesExplained`
(`StaleOnlyWithCause`), `WatermarkHolds`, for any number of payments, page size, clock and number of
transitions, lost events and failures.

- `TypeCorrect`: the version of a payment is bounded by the transitions of all (`TransitionsCounted`).
- `PaymentsArrive`: payments are numbered as they are created (`PaymentOrder`). A listing comes down
  from the top, and of what it has passed, and of what was created above it meanwhile, only a payment no
  earlier than its running maximum may lack a row (`PaymentsBrought`). What `created[gte]` leaves out
  was behind the watermark and has one. A page is a cut off the top, and not empty while anything
  is left (`PageIsTop`), so the last page leaves nothing earlier than the cursor it brings.
- `WatermarkHolds`: a full listing starts its maximum at 0, but the payment that brought the watermark
  where it is is still there, in what is passed or in what is still to list (`PollAhead`).
- `StatusesExplained` needs only that no row or event is ahead of its payment (`PaymentBounds`). The
  watermark plays no part in it: the property holds of every payment, polled or not.

**`CalendarSync_proofs`**: `TypeCorrect`, `NotificationsServed` (`PokesServed`), `ZombiesExplained`
(`ZombieRowsExplained`), `TokenNeverPassesData`, `NothingGoesBackwards`, for any calendar, page size
and number of changes and failures.

- `TokenInv`: nothing the engine holds is ahead of the calendar, and an open listing is no older than
  the token, than the message behind its run and than every message served before. So the token that
  its last page brings covers them all.
- `RowInv`: of every change that normalize can read, a tombstone or not: up to the token it is in its
  row in its present version; an open listing has shown every one that it is not yet to show, as it
  is now, and an incremental one leaves out only what was behind its token; a purged event has
  nothing more to come, and its row was cancelled unless it was missed.
- `TokenNeverPassesData` is ADR 0003 for the calendar: an event that takes place and changed up to the
  token is in its row in just that version. `NothingGoesBackwards`: the token only moves on or is
  dropped by the fallback, and no page takes a row back, since nothing but the run writes it and
  nothing in hand is older than its row (`Versions`). No run states these two; TLC has checked their
  invariants on the instance of section 3.

**`RevenueReport_proofs`**, for any spellings, table, processes, payments, times and queries:

- `RowsFollowTheTable`: `[]StaleOnlyAfterEdit`. The invariant adds that a process which has seen every
  edit holds a load of the present table (`CachesFresh`), from which a row it writes gets its status
  (`RowsFresh`).
- `ReportsAddUp`: `[]AccountedOnce`. It rests on the calendar: days grow with months and years
  (`MonthsApart`), every day is in one month of one year (`YearOfDay`, `MonthOfDay`), so that the
  `CHOOSE` in `YearMonth` has one witness (`YearMonthFinds`). Hence a bucket begun by `date_trunc` and
  ended by `computeBucketEnd` covers the payments it groups (`BucketCovers`), and two buckets with
  different starts lie apart (`BucketsApart`), for every granularity and year. `ReportInv` says what each
  query's answer holds of the payments nobody has touched since the report began.
- `TypeCorrect` follows from the same invariant. A range and a bucket may begin before 1970 (a range is
  30 days by default, and the week of 1970-01-01 begins in 1969), so the type of both is `Int`.

Only model-checked: every liveness property (`OrphanRecovered`, `RunTerminates`, both `CatchesUp`,
`EventuallyAccountedFor`, `RetryGetsResult`, `EveryPaymentArrives`, `EventuallyReflected`), since
fairness and `ENABLED` are beyond the prover. The refinements of `ExclusiveRun` are proved and
model-checked both. The four theorems on the engine with the premise `~LeaseCanExpire` say nothing of
runs that overlap; `SyncLock`'s say how far runs may.

## 5. Plan

Done, in this order: the lock and its abstract specification; the engine over it; webhook
ingestion; the trigger; the HubSpot and Stripe watermarks; proofs of the lock and the engine; the
records of runs; the calendar and its notifications; the revenue report; proofs of the safety of
ingestion, trigger, HubSpot, calendar, records and report, and of what the engine returns; proofs of
the payments, and of what the calendar's token stands for.

What could come next: one module that runs the engine against the adapters' own listings, in place of
`SyncEngine`'s abstract provider, and shows each of them to keep what that provider promises or, for
HubSpot's full listing, to fail it; and what an overlap of two runs costs, stated as a property that
holds with `LeaseCanExpire = TRUE`.

## 6. Not modelled

HTTP plumbing apart from the error answers, configuration, queue, logging and metrics, migrations,
seed and scripts. They hold no state that a step of the core depends on; BullMQ appears as a caller
of `runMany`. Signature verification and API keys decide whether a request starts at all and change
nothing. Of the retry policy, the delays are left out: nothing waits for them but the lease, which
may run out at any time where a module lets it. `Money` only carries amounts to the database, which
does the sums. Deletions of HubSpot objects have no code to model.
