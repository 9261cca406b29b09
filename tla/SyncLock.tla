------------------------------ MODULE SyncLock ------------------------------
(***************************************************************************)
(* The lease lock that keeps two syncs of one (provider, entityType) apart *)
(* (infrastructure/repositories/prisma-sync-lock.ts), as the sync engine   *)
(* uses it: a run takes the lock before its try block and deletes the row  *)
(* in its finally block.                                                   *)
(*                                                                         *)
(* The database has at most one row per (provider, entityType).  Time is   *)
(* the database clock (both statements use now()); only the ages of the    *)
(* row and of the runs matter, so an age is counted up to Lease + 1, which *)
(* stands for every age past the lease.  The column lock_owner is written  *)
(* and never read by any statement: `writer` records the same thing at the *)
(* grain of a run, for the properties only.                                *)
(***************************************************************************)
EXTENDS Integers, FiniteSets

CONSTANTS
  Runs,   \* run slots: calls of SyncEngine.run for this provider/entity, in any process
  Lease   \* leaseDurationMs, in clock units

ASSUME RunsAssumption  == IsFiniteSet(Runs)
ASSUME LeaseAssumption == Lease \in Nat

VARIABLES
  held,          \* the sync_locks row exists
  rowAge,        \* now() - locked_at of the row
  active,        \* the runs between a successful tryAcquire and their end
  age,           \* age[r]: time since run r acquired the lock
  writer,        \* history: the run that last wrote the row
  lateReleases,  \* history: releases issued by a run older than its lease
  overran        \* history: some run was active longer than its lease

lockVars == <<held, rowAge, active, age, writer, lateReleases, overran>>

Ages == 0 .. Lease + 1

Expired(a) == a > Lease

\* The runs that may rightly believe they hold the lock.
InLease == {r \in active : ~Expired(age[r])}

RowLive == held /\ ~Expired(rowAge)

LockInit ==
  /\ held = FALSE
  /\ rowAge = 0
  /\ active = {}
  /\ age = [r \in Runs |-> 0]
  /\ writer \in Runs
  /\ lateReleases = 0
  /\ overran = FALSE

(***************************************************************************)
(* Operations                                                              *)
(***************************************************************************)

\* Mutants of Acquirable: a takeover one unit early; no takeover at all; the row
\* is overwritten whatever its age.
AcquirableEarly  == ~held \/ rowAge >= Lease
AcquirableNever  == ~held
AcquirableAlways == TRUE

\* The WHERE clause of the upsert: no row to conflict with, or an expired one.
Acquirable == ~held \/ Expired(rowAge)

\* Mutant of TryAcquire: the SET of the upsert writes lock_owner and not locked_at.
TryAcquireUndated(r) ==
  /\ r \notin active
  /\ Acquirable
  /\ held' = TRUE
  /\ rowAge' = IF held THEN rowAge ELSE 0
  /\ active' = active \cup {r}
  /\ age' = [age EXCEPT ![r] = 0]
  /\ writer' = r
  /\ UNCHANGED <<lateReleases, overran>>

\* INSERT .. ON CONFLICT DO UPDATE: one atomic statement.  When the row is live
\* the statement returns no row and run() answers 'skipped': no state changes.
TryAcquire(r) ==
  /\ r \notin active
  /\ Acquirable
  /\ held' = TRUE
  /\ rowAge' = 0
  /\ active' = active \cup {r}
  /\ age' = [age EXCEPT ![r] = 0]
  /\ writer' = r
  /\ UNCHANGED <<lateReleases, overran>>

CountLate(r) ==
  IF Expired(age[r]) /\ lateReleases < Cardinality(Runs)
    THEN lateReleases + 1 ELSE lateReleases

\* DELETE .. WHERE provider and entity_type match: whoever wrote the row.
Release(r) ==
  /\ r \in active
  /\ held' = FALSE
  /\ active' = active \ {r}
  /\ lateReleases' = CountLate(r)
  /\ UNCHANGED <<rowAge, age, writer, overran>>

\* The process dies, or the DELETE itself fails: the row stays.
EndWithoutRelease(r) ==
  /\ r \in active
  /\ active' = active \ {r}
  /\ UNCHANGED <<held, rowAge, age, writer, lateReleases, overran>>

\* An age past the lease is as good as any other.
Older(a) == IF Expired(a) THEN a ELSE a + 1

\* The database clock advances.
Tick ==
  /\ rowAge' = Older(rowAge)
  /\ age' = [r \in Runs |-> Older(age[r])]
  /\ overran' = (overran \/ \E r \in active : Expired(Older(age[r])))
  /\ UNCHANGED <<held, active, writer, lateReleases>>

LockNext ==
  \/ \E r \in Runs : TryAcquire(r)
  \/ \E r \in Runs : Release(r)
  \/ \E r \in Runs : EndWithoutRelease(r)
  \/ Tick

LockSpec == LockInit /\ [][LockNext]_lockVars

\* Time passes, and the recurring worker tick keeps attempting the lock.
LockFairness == WF_lockVars(Tick) /\ WF_lockVars(\E r \in Runs : TryAcquire(r))

LockFairSpec == LockSpec /\ LockFairness

(***************************************************************************)
(* Properties                                                              *)
(***************************************************************************)

\* Two runs inside their leases can coexist only because some run released the
\* lock after its own lease had ended, and no more of them than there were such
\* releases: expiry and takeover alone never put two runs inside a lease.
OverlapBounded == Cardinality(InLease) <= 1 + lateReleases

\* Until a run releases late, a run inside its lease is the one whose row is in
\* the table: nobody has taken over or deleted the lock it relies on.
HolderOwnsRow ==
  lateReleases = 0 => \A r \in InLease : held /\ writer = r /\ rowAge = age[r]

\* A run that gets in although the row stands robs nobody: no run is inside its lease
\* then, the one that wrote the row or any that had the lock before it.  It needs no
\* timely releases: they can delete the row of a run inside its lease, but expiry
\* and takeover never touch it (the WHERE and the SET of the upsert together).
TakeoverRobsNobody ==
  [][held /\ active' \ active # {} => InLease = {}]_lockVars

\* A row whose run ended without deleting it does not block the entity for ever.
Orphaned == held /\ writer \notin active

OrphanRecovered == Orphaned ~> ~Orphaned

Port == INSTANCE ExclusiveRun WITH running <- IF overran THEN {} ELSE active

\* Until a run outlives its lease (the timing assumption of ADR 0006) the lease row
\* implements the port's promise: an abstract lock that only one run can be in.
ImplementsPort == Port!Spec

=============================================================================
