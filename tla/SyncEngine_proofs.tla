-------------------------- MODULE SyncEngine_proofs --------------------------
(***************************************************************************)
(* Proofs about SyncEngine, for every set of runs and records, every page  *)
(* size, page cap and retry limit, and any number of faults: the state is  *)
(* well typed; run() throws only after a database call failed; and, as long *)
(* as no lease runs out under its run, one run at a time is executing, cursor *)
(* and rows are safe, and what run() returns is what the tables say of it. *)
(***************************************************************************)
EXTENDS SyncEngine, TLAPS

\* The assumptions on the constants, one by one.
LEMMA ConstantTypes ==
  /\ MaxPages \in Nat /\ MaxPages > 0
  /\ MaxAttempts \in Nat /\ MaxAttempts > 0
  /\ PageSize \in Nat
  /\ MaxChanges \in Nat
  /\ MaxProviderFaults \in Nat
  /\ MaxStorageFaults \in Nat
  /\ MaxCrashes \in Nat
BY PagesAssumption, AttemptsAssumption, PageSizeAssumption, BoundsAssumption
   DEF PagesAssumption, AttemptsAssumption, PageSizeAssumption, BoundsAssumption

\* Where counters, cursors and pages start from.
LEMMA InitialTypes ==
  0 \in Positions /\ NoCursor \in Cursors /\ NoPage \in [Keys -> Positions]
BY ConstantTypes DEF Positions, Cursors, NoPage

USE ConstantTypes

-----------------------------------------------------------------------------
\* A run that may still fetch has not used up its pages, as the loop condition of
\* drain() guarantees, and a run about to record an outcome has one.
ProperRuns ==
  {s \in RunStates :
     /\ s.pc \in {"get_cursor", "start_job", "fetch", "clear_cursor"} => s.pages < MaxPages
     /\ s.pc \in {"record_failure", "finish_job", "metadata"} => s.outcome \in Outcomes}

TypeInv == TypeOK /\ run \in [Runs -> ProperRuns]

\* An exception leaves a run in a state of the right type.
LEMMA ThrownType ==
  ASSUME NEW s \in ProperRuns
  PROVE  Thrown(s) \in ProperRuns
BY DEF Thrown, ProperRuns, RunStates, PCs, Results, Outcomes

\* A run without a page keeps the type.
LEMMA IdleType ==
  ASSUME NEW result \in Results
  PROVE  Idle(result) \in ProperRuns
BY DEF Idle, ProperRuns, RunStates, PCs, Positions, Cursors, NoCursor, NoPage

\* The initial state is well typed.
LEMMA InitType == Init => TypeInv
<1> SUFFICES ASSUME Init
             PROVE  TypeInv
  OBVIOUS
<1>2. Idle("none") \in ProperRuns
  BY IdleType DEF Results
<1>3. run \in [Runs -> ProperRuns]
  BY <1>2 DEF Init
<1>4. faults \in [provider : 0 .. MaxProviderFaults, storage : 0 .. MaxStorageFaults,
                  crash : 0 .. MaxCrashes]
  BY DEF Init
<1> QED  BY <1>3, <1>4, InitialTypes DEF Init, TypeOK, TypeInv, ProperRuns

\* A database call that answers ack leaves run r in s or in the catch block.
LEMMA ContinueType ==
  ASSUME TypeInv, NEW r \in Runs, NEW ack, NEW s \in ProperRuns, Continue(r, ack, s)
  PROVE  run' \in [Runs -> ProperRuns]
BY ThrownType DEF Continue, TypeInv

\* An answer of the database keeps the fault counters in their bounds.
LEMMA AnswerType ==
  ASSUME TypeInv, NEW ack, Answer(ack)
  PROVE  faults' \in [provider : 0 .. MaxProviderFaults, storage : 0 .. MaxStorageFaults,
                      crash : 0 .. MaxCrashes]
BY DEF Answer, TypeInv, TypeOK

\* A persisted page leaves its run in a state of the right type.
LEMMA AfterPageType ==
  ASSUME NEW s \in ProperRuns
  PROVE  AfterPage(s) \in ProperRuns
<1>1. OutcomeOf(s) \in Outcomes
  BY DEF OutcomeOf, Outcomes
<1>2. AfterPage(s) \in RunStates
  BY <1>1 DEF AfterPage, ProperRuns, RunStates, PCs, Results
<1> QED  BY <1>1, <1>2 DEF AfterPage, ProperRuns, RunStates

\* A failed fetch leaves its run in a state of the right type.
LEMMA AfterFetchErrorType ==
  ASSUME NEW s \in ProperRuns, s.pc = "fetch", NEW code
  PROVE  AfterFetchError(s, code) \in ProperRuns
<1>1. CASE code \in Retryable /\ s.attempts + 1 < MaxAttempts
  <2>1. s.attempts + 1 \in 0 .. MaxAttempts - 1
    BY <1>1 DEF ProperRuns, RunStates
  <2> QED  BY <1>1, <2>1 DEF AfterFetchError, ProperRuns, RunStates
<1>2. CASE ~(code \in Retryable /\ s.attempts + 1 < MaxAttempts)
  <2>0. s \in RunStates
    BY DEF ProperRuns
  <2>1. [s EXCEPT !.pc = "clear_cursor", !.attempts = 0] \in RunStates
    BY <2>0, 0 \in 0 .. MaxAttempts - 1 DEF RunStates, PCs
  <2>2. [s EXCEPT !.pc = "clear_cursor", !.attempts = 0] \in ProperRuns
    BY <2>1 DEF ProperRuns, RunStates
  <2> QED  BY <1>2, <2>2, ThrownType DEF AfterFetchError
<1> QED  BY <1>1, <1>2

\* Every step keeps the state well typed.
LEMMA TypeNext == TypeInv /\ [Next]_vars => TypeInv'
<1> SUFFICES ASSUME TypeInv, [Next]_vars
             PROVE  TypeInv'
  OBVIOUS
<1> DEFINE Faults == [provider : 0 .. MaxProviderFaults, storage : 0 .. MaxStorageFaults,
                      crash : 0 .. MaxCrashes]
<1>0. TypeOK /\ \A r \in Runs : run[r] \in ProperRuns /\ run[r] \in RunStates
  BY DEF TypeInv, ProperRuns
<1>1. ASSUME NEW r \in Runs, NEW ack \in Acks, TryAcquire(r, ack)
      PROVE  TypeInv'
  <2>1. Idle("threw") \in ProperRuns /\ Idle("none") \in ProperRuns
    BY IdleType DEF Results
  <2>2. [Idle("none") EXCEPT !.pc = "get_cursor"] \in ProperRuns
    BY <2>1 DEF Idle, ProperRuns, RunStates, PCs
  <2>3. run' \in [Runs -> ProperRuns]
    BY <1>0, <1>1, <2>1, <2>2 DEF TryAcquire, TypeInv
  <2>4. faults' \in Faults
    BY <1>1, AnswerType DEF TryAcquire
  <2> QED  BY <1>1, <2>3, <2>4 DEF TryAcquire, TypeInv, TypeOK, ProperRuns, source
<1>2. ASSUME NEW r \in Runs, Skip(r)
      PROVE  TypeInv'
  <2>1. Idle("skipped") \in ProperRuns
    BY IdleType DEF Results
  <2> QED  BY <1>2, <2>1 DEF Skip, TypeInv, TypeOK, ProperRuns, source
<1>3. ASSUME NEW r \in Runs, NEW ack \in Acks, GetCursor(r, ack)
      PROVE  TypeInv'
  <2>1. PICK usable \in BOOLEAN :
          /\ usable => cursor # NoCursor
          /\ Continue(r, ack,
               [run[r] EXCEPT !.pc = "start_job",
                              !.mode = IF usable THEN "incremental" ELSE "full",
                              !.from = IF usable THEN cursor ELSE 0])
    BY <1>3 DEF GetCursor
  <2>2. (IF usable THEN cursor ELSE 0) \in Positions
    BY <1>0, <2>1 DEF TypeOK, Cursors, Positions
  <2> DEFINE s == [run[r] EXCEPT !.pc = "start_job",
                                 !.mode = IF usable THEN "incremental" ELSE "full",
                                 !.from = IF usable THEN cursor ELSE 0]
  <2>a. s \in RunStates /\ s.pc = "start_job" /\ s.pages = run[r].pages
    BY <1>0, <2>2 DEF RunStates, PCs
  <2>3. s \in ProperRuns
    BY <1>0, <1>3, <2>a DEF GetCursor, ProperRuns
  <2>4. run' \in [Runs -> ProperRuns] /\ faults' \in Faults
    BY <1>3, <2>1, <2>3, ContinueType, AnswerType DEF GetCursor
  <2> QED  BY <1>3, <2>4 DEF GetCursor, TypeInv, TypeOK, ProperRuns, source, database
<1>4. ASSUME NEW r \in Runs, NEW ack \in Acks, StartJob(r, ack)
      PROVE  TypeInv'
  <2>1. [run[r] EXCEPT !.pc = "fetch"] \in ProperRuns
    BY <1>0, <1>4 DEF StartJob, ProperRuns, RunStates, PCs
  <2>2. run' \in [Runs -> ProperRuns] /\ faults' \in Faults
    BY <1>4, <2>1, ContinueType, AnswerType DEF StartJob
  <2> QED  BY <1>4, <2>2 DEF StartJob, TypeInv, TypeOK, ProperRuns, source
<1>5. ASSUME NEW r \in Runs, FetchPage(r)
      PROVE  TypeInv'
  <2> DEFINE t == run[r]  due == StillToList(t)
  <2>1. PICK ks \in SUBSET due, vouched \in BOOLEAN :
          run' = [run EXCEPT ![r] =
            [t EXCEPT !.pc = "persist",
                      !.asOf = ListedAsOf(t),
                      !.todo = due \ ks,
                      !.page = [k \in Keys |-> IF k \in Accepted(ks) THEN upstream[k] ELSE 0],
                      !.nextCursor = IF due = ks /\ vouched THEN ListedAsOf(t) ELSE NoCursor,
                      !.pages = @ + 1,
                      !.attempts = 0,
                      !.rejected = @ \/ Accepted(ks) # ks]]
    BY <1>5 DEF FetchPage
  <2>2. due \in SUBSET Keys /\ ListedAsOf(t) \in Cursors
    BY <1>0 DEF StillToList, ListedAsOf, ProperRuns, RunStates, TypeOK, Cursors
  <2>3. [k \in Keys |-> IF k \in Accepted(ks) THEN upstream[k] ELSE 0] \in [Keys -> Positions]
    BY <1>0 DEF TypeOK, Positions
  <2>4. t.pages + 1 \in 0 .. MaxPages
    BY <1>0, <1>5 DEF FetchPage, ProperRuns, RunStates
  <2>5. run'[r] \in RunStates /\ run'[r].pc = "persist"
    <3>1. 0 \in 0 .. MaxAttempts - 1 /\ due \ ks \in SUBSET Keys
      BY <2>2
    <3>2. (IF due = ks /\ vouched THEN ListedAsOf(t) ELSE NoCursor) \in Cursors
      BY <2>2 DEF Cursors
    <3>3. t \in RunStates /\ run'[r] = [t EXCEPT !.pc = "persist",
                      !.asOf = ListedAsOf(t),
                      !.todo = due \ ks,
                      !.page = [k \in Keys |-> IF k \in Accepted(ks) THEN upstream[k] ELSE 0],
                      !.nextCursor = IF due = ks /\ vouched THEN ListedAsOf(t) ELSE NoCursor,
                      !.pages = @ + 1,
                      !.attempts = 0,
                      !.rejected = @ \/ Accepted(ks) # ks]
      BY <1>0, <2>1 DEF TypeOK
    <3>4. run'[r].rejected \in BOOLEAN
      BY <3>3 DEF RunStates
    <3> QED  BY <2>2, <2>3, <2>4, <3>1, <3>2, <3>3, <3>4 DEF RunStates, PCs
  <2>6. run'[r] \in ProperRuns
    BY <2>5 DEF ProperRuns
  <2>7. run' \in [Runs -> ProperRuns]
    BY <2>1, <2>6 DEF TypeInv
  <2> QED  BY <1>5, <2>7 DEF FetchPage, TypeInv, TypeOK, ProperRuns, source, database
<1>6. ASSUME NEW r \in Runs, NEW code \in ErrorCodes, FetchError(r, code)
      PROVE  TypeInv'
  <2>1. faults' \in Faults
    BY <1>0, <1>6 DEF FetchError, TypeOK
  <2> QED  BY <1>0, <1>6, <2>1, AfterFetchErrorType DEF FetchError, TypeInv, TypeOK, ProperRuns, source, database
<1>7. ASSUME NEW r \in Runs, NEW ack \in Acks, ClearCursor(r, ack)
      PROVE  TypeInv'
  <2> DEFINE s == [run[r] EXCEPT !.pc = "fetch", !.mode = "full", !.from = 0,
                                 !.asOf = NoCursor, !.todo = {}]
  <2>a. s \in RunStates /\ s.pc = "fetch" /\ s.pages = run[r].pages
    BY <1>0, InitialTypes DEF RunStates, PCs
  <2>1. s \in ProperRuns
    BY <1>0, <1>7, <2>a DEF ClearCursor, ProperRuns
  <2>2. run' \in [Runs -> ProperRuns] /\ faults' \in Faults
    BY <1>7, <2>1, ContinueType, AnswerType DEF ClearCursor
  <2> QED  BY <1>7, <2>2 DEF ClearCursor, TypeInv, TypeOK, ProperRuns, source, Cursors
<1>8. ASSUME NEW r \in Runs, NEW ack \in Acks, PersistBatch(r, ack)
      PROVE  TypeInv'
  <2> DEFINE s == [run[r] EXCEPT !.upserted = @ \/ Changes(run[r].page), !.page = NoPage]
  <2>0. Changes(run[r].page) \in BOOLEAN
    BY DEF Changes
  <2>a. s \in RunStates /\ s.pc = run[r].pc
    BY <1>0, <2>0, InitialTypes DEF RunStates
  <2>1. s \in ProperRuns
    BY <1>8, <2>a DEF PersistBatch, ProperRuns
  <2>2. run' \in [Runs -> ProperRuns] /\ faults' \in Faults
    BY <1>8, <2>1, AfterPageType, ContinueType, AnswerType DEF PersistBatch
  <2>3. stored' \in [Keys -> Positions]
    BY <1>0, <1>8 DEF PersistBatch, TypeOK, ProperRuns, RunStates
  <2>4. cursor' \in Cursors
    BY <1>0, <1>8 DEF PersistBatch, CursorWith, TypeOK, ProperRuns, RunStates
  <2> QED  BY <1>8, <2>2, <2>3, <2>4 DEF PersistBatch, TypeInv, TypeOK, ProperRuns, source
<1>9. ASSUME NEW r \in Runs, NEW ack \in Acks, RecordFailure(r, ack)
      PROVE  TypeInv'
  <2>1. [run[r] EXCEPT !.pc = "finish_job"] \in ProperRuns /\ Thrown(run[r]) \in ProperRuns
    BY <1>0, <1>9, ThrownType DEF RecordFailure, ProperRuns, RunStates, PCs
  <2>2. faults' \in Faults
    BY <1>9, AnswerType DEF RecordFailure
  <2>3. run' \in [Runs -> ProperRuns]
    BY <1>0, <1>9, <2>1, ContinueType DEF RecordFailure, TypeInv
  <2>4. logged' \in [Runs -> BOOLEAN]
    BY <1>0, <1>9 DEF RecordFailure, TypeOK
  <2> QED  BY <1>9, <2>2, <2>3, <2>4 DEF RecordFailure, TypeInv, TypeOK, ProperRuns, source
<1>10. ASSUME NEW r \in Runs, NEW ack \in Acks, FinishJob(r, ack)
       PROVE  TypeInv'
  <2>0. run[r].outcome \in Outcomes
    BY <1>0, <1>10 DEF FinishJob, ProperRuns
  <2>1. [run[r] EXCEPT !.pc = "metadata"] \in ProperRuns
    BY <1>0, <2>0 DEF ProperRuns, RunStates, PCs
  <2>2. run' \in [Runs -> ProperRuns] /\ faults' \in Faults
    BY <1>10, <2>1, ContinueType, AnswerType DEF FinishJob
  <2> QED  BY <1>10, <2>0, <2>2 DEF FinishJob, TypeInv, TypeOK, ProperRuns, source
<1>11. ASSUME NEW r \in Runs, NEW ack \in Acks, WriteMetadata(r, ack)
       PROVE  TypeInv'
  <2>0. run[r].outcome \in Outcomes
    BY <1>0, <1>11 DEF WriteMetadata, ProperRuns
  <2>1. [run[r] EXCEPT !.pc = "release"] \in ProperRuns
    BY <1>0, <2>0 DEF ProperRuns, RunStates, PCs
  <2>2. run' \in [Runs -> ProperRuns] /\ faults' \in Faults
    BY <1>11, <2>1, ContinueType, AnswerType DEF WriteMetadata
  <2> QED  BY <1>11, <2>0, <2>2 DEF WriteMetadata, TypeInv, TypeOK, ProperRuns, source
<1>12. ASSUME NEW r \in Runs, NEW ack \in Acks, ReleaseLock(r, ack)
       PROVE  TypeInv'
  <2>1. Idle(IF ack = "ok" THEN run[r].outcome ELSE "threw") \in ProperRuns
    BY <1>0, IdleType DEF ProperRuns, RunStates, Results
  <2>2. faults' \in Faults
    BY <1>12, AnswerType DEF ReleaseLock
  <2> QED  BY <1>12, <2>1, <2>2 DEF ReleaseLock, TypeInv, TypeOK, ProperRuns, source
<1>13. ASSUME NEW r \in Runs, Crash(r)
       PROVE  TypeInv'
  <2>1. Idle("crashed") \in ProperRuns
    BY IdleType DEF Results
  <2>2. faults' \in Faults
    BY <1>0, <1>13 DEF Crash, TypeOK
  <2> QED  BY <1>13, <2>1, <2>2 DEF Crash, TypeInv, TypeOK, ProperRuns, source, database
<1>14. ASSUME NEW k \in Keys, Change(k)
       PROVE  TypeInv'
  <2>1. head' \in Positions /\ upstream' \in [Keys -> Positions]
    BY <1>0, <1>14 DEF Change, TypeOK, Positions
  <2> QED  BY <1>14, <2>1 DEF Change, TypeInv, TypeOK, ProperRuns, database
<1>15. CASE UNCHANGED vars
  BY <1>15 DEF vars, source, database, TypeInv, TypeOK
<1> QED
  BY <1>1, <1>2, <1>3, <1>4, <1>5, <1>6, <1>7, <1>8, <1>9, <1>10, <1>11, <1>12,
     <1>13, <1>14, <1>15 DEF Next, Step

\* The tables, the provider and every run keep their types.
THEOREM TypeCorrect == Spec => []TypeOK
<1>1. TypeInv => TypeOK
  BY DEF TypeInv
<1> QED  BY <1>1, InitType, TypeNext, PTL DEF Spec

-----------------------------------------------------------------------------
\* Run r is between its lock row and its release.
Executing(r) == run[r].pc # "idle"

\* While a run executes the lock row exists, and no other run executes.
Exclusive ==
  \A r \in Runs : Executing(r) => locked /\ \A q \in Runs : Executing(q) => q = r

\* No two runs execute at once, whatever has become of the lock row.
OneAtATime == \A r, q \in Runs : Executing(r) /\ Executing(q) => q = r

\* A step of a run, or its crash, leaves the other runs as they are.
LEMMA OthersUntouched ==
  ASSUME NEW r \in Runs, Step(r) \/ Crash(r), NEW q \in Runs, q # r, TypeOK
  PROVE  run'[q] = run[q]
BY DEF Step, Crash, TryAcquire, Skip, GetCursor, StartJob, FetchPage, FetchError, ClearCursor,
       PersistBatch, RecordFailure, FinishJob, WriteMetadata, ReleaseLock, Continue, TypeOK

\* A run that gets the lock row finds no run executing.
LEMMA AcquireAlone ==
  ASSUME ~LeaseCanExpire, Exclusive, LockFree
  PROVE  AllIdle
BY DEF Exclusive, LockFree, AllIdle, Executing

\* Runs take turns: no step lets a second run in, or leaves a run without its row.
LEMMA ExclusiveNext ==
  ASSUME ~LeaseCanExpire, TypeInv, Exclusive, [Next]_vars
  PROVE  Exclusive'
<1> USE DEF Executing
<1>0. TypeOK
  BY DEF TypeInv
<1>1. ASSUME NEW r \in Runs, NEW ack \in Acks, TryAcquire(r, ack)
      PROVE  Exclusive'
  <2>1. AllIdle
    BY <1>1, AcquireAlone DEF TryAcquire
  <2>2. ack = "ok" => locked'
    BY <1>1 DEF TryAcquire, Applied
  <2>3. ack # "ok" => run'[r].pc = "idle"
    BY <1>0, <1>1 DEF TryAcquire, TypeOK, Idle
  <2>4. \A q \in Runs : q # r => run'[q].pc = "idle"
    BY <1>0, <1>1, <2>1, OthersUntouched DEF Step, AllIdle
  <2> QED  BY <2>2, <2>3, <2>4 DEF Exclusive
<1>2. ASSUME NEW r \in Runs, Step(r) \/ Crash(r), Executing(r),
             run'[r].pc = "idle" \/ locked' = locked
      PROVE  Exclusive'
  <2>1. \A q \in Runs : q # r => run'[q].pc = "idle"
    BY <1>0, <1>2, OthersUntouched DEF Exclusive
  <2> QED  BY <1>2, <2>1 DEF Exclusive
<1>3. ASSUME NEW r \in Runs, Skip(r)
      PROVE  Exclusive'
  <2>1. run'[r].pc = "idle" /\ locked' = locked
    BY <1>0, <1>3 DEF Skip, TypeOK, Idle
  <2> QED  BY <1>0, <1>3, <2>1, OthersUntouched DEF Step, Exclusive
<1>4. ASSUME NEW r \in Runs, NEW ack \in Acks, ReleaseLock(r, ack)
      PROVE  Exclusive'
  BY <1>0, <1>2, <1>4 DEF ReleaseLock, Step, TypeOK, Idle
<1>5. ASSUME NEW r \in Runs, Crash(r)
      PROVE  Exclusive'
  BY <1>0, <1>2, <1>5 DEF Crash, TypeOK, Idle
<1>6. ASSUME NEW r \in Runs, Step(r),
             ~(\E ack \in Acks : TryAcquire(r, ack)), ~Skip(r),
             ~(\E ack \in Acks : ReleaseLock(r, ack))
      PROVE  Exclusive'
  <2>1. Executing(r) /\ locked' = locked
    BY <1>6 DEF Step, GetCursor, StartJob, FetchPage, FetchError, ClearCursor, PersistBatch,
                RecordFailure, FinishJob, WriteMetadata, database
  <2> QED  BY <1>2, <1>6, <2>1
<1>7. CASE (\E k \in Keys : Change(k)) \/ UNCHANGED vars
  BY <1>7 DEF Change, vars, database, Exclusive
<1> QED  BY <1>1, <1>3, <1>4, <1>5, <1>6, <1>7 DEF Next

\* At first no run is executing.
LEMMA ExclusiveInit == Init => Exclusive
BY DEF Init, Exclusive, Executing, Idle

\* Without leases that run out no two runs execute at once.
LEMMA OneRun == ~LeaseCanExpire => (Spec => []OneAtATime)
<1> SUFFICES ASSUME ~LeaseCanExpire
             PROVE  Spec => []OneAtATime
  OBVIOUS
<1>1. TypeInv /\ Exclusive /\ [Next]_vars => Exclusive'
  BY ExclusiveNext
<1>2. Exclusive => OneAtATime
  BY DEF Exclusive, OneAtATime
<1> QED
  BY <1>1, <1>2, InitType, TypeNext, ExclusiveInit, PTL DEF Spec

\* While no lease runs out under its run, the engine is a refinement of the lock
\* port: of the runs of one provider and entity only one is executing.
THEOREM RunsTakeTurns == ~LeaseCanExpire => (Spec => ImplementsPort)
<1> SUFFICES ASSUME ~LeaseCanExpire
             PROVE  Spec => ImplementsPort
  OBVIOUS
<1> DEFINE running == {r \in Runs : run[r].pc # "idle"}
<1>1. Init => Port!Init
  BY DEF Init, Port!Init, Idle
<1>2. ASSUME TypeInv, Exclusive, [Next]_vars
      PROVE  [Port!Next]_running
  <2>0. TypeOK
    BY <1>2 DEF TypeInv
  <2>1. ASSUME NEW r \in Runs, Step(r) \/ Crash(r)
        PROVE  [Port!Next]_running
    <3>1. \A q \in Runs : q # r => run'[q] = run[q]
      BY <2>0, <2>1, OthersUntouched
    <3>2. CASE run[r].pc = "idle" /\ run'[r].pc # "idle"
      <4>1. PICK ack \in Acks : TryAcquire(r, ack)
        BY <2>0, <2>1, <3>2 DEF Step, Crash, Skip, GetCursor, StartJob, FetchPage, FetchError,
             ClearCursor, PersistBatch, RecordFailure, FinishJob, WriteMetadata, ReleaseLock,
             TypeOK, Idle
      <4>2. AllIdle
        BY <1>2, <4>1, AcquireAlone DEF TryAcquire
      <4>3. running = {} /\ running' = {r}
        BY <3>1, <3>2, <4>2 DEF AllIdle
      <4> QED  BY <4>3 DEF Port!Next, Port!Enter
    <3>3. CASE run[r].pc # "idle" /\ run'[r].pc = "idle"
      <4>1. r \in running /\ running' = running \ {r}
        BY <3>1, <3>3
      <4> QED  BY <4>1 DEF Port!Next, Port!Leave
    <3>4. CASE (run[r].pc = "idle") <=> (run'[r].pc = "idle")
      <4>1. running' = running
        BY <3>1, <3>4
      <4> QED  BY <4>1
    <3> QED  BY <3>2, <3>3, <3>4
  <2>2. CASE (\E k \in Keys : Change(k)) \/ UNCHANGED vars
    BY <2>2 DEF Change, vars
  <2> QED  BY <1>2, <2>1, <2>2 DEF Next
<1>3. TypeInv /\ Exclusive /\ [Next]_vars => Exclusive'
  BY ExclusiveNext
<1> QED
  BY <1>1, <1>2, <1>3, ExclusiveInit, InitType, TypeNext, PTL
     DEF Spec, ImplementsPort, Port!Spec

-----------------------------------------------------------------------------
\* Cursor and rows are never ahead of the provider.
NotAhead ==
  /\ cursor <= head
  /\ \A k \in Keys : stored[k] <= upstream[k] /\ upstream[k] <= head

\* The provider has record k and the mapper accepts it.
Valid(k) == 0 < upstream[k] /\ ~bad[k]

\* Up to the position its listing starts from, the store has what there is.
BaseSafe(s) ==
  /\ s.from <= head
  /\ \A k \in Keys : Valid(k) /\ upstream[k] <= s.from => stored[k] = upstream[k]

\* Of what there was when the listing was opened, the records that the rows and
\* the page in hand lack are still to be listed.
Accounted(s) ==
  /\ cursor <= s.asOf /\ s.asOf <= head
  /\ \A k \in Keys : Valid(k) /\ upstream[k] <= s.asOf /\ k \notin s.todo =>
       upstream[k] = IF s.page[k] = 0 THEN stored[k] ELSE s.page[k]

\* The page in hand is no older than the rows it will replace, and its cursor
\* comes with the end of the listing.
PageSafe(s) ==
  /\ \A k \in Keys : s.page[k] # 0 =>
       k \notin s.todo /\ stored[k] <= s.page[k] /\ s.page[k] <= upstream[k]
  /\ s.nextCursor # NoCursor => s.nextCursor = s.asOf /\ s.todo = {}

\* What a run in state s must be able to rely on where it stands.
RunSafe(s) ==
  /\ s.pc = "start_job" => BaseSafe(s)
  /\ s.pc \in {"get_cursor", "start_job"} => Opening(s)
  /\ s.pc = "fetch" => s.page = NoPage /\ IF Opening(s) THEN BaseSafe(s) ELSE Accounted(s)
  /\ s.pc = "persist" => ~Opening(s) /\ Accounted(s) /\ PageSafe(s)
  /\ s.pc \in {"get_cursor", "start_job", "clear_cursor"} => s.page = NoPage

\* The inductive invariant behind CursorSafe.
SafeInv == NotAhead /\ CursorSafe /\ \A r \in Runs : RunSafe(run[r])

\* At first no data is stored and the cursor is before all data.
LEMMA SafeInit == Init => SafeInv
BY DEF Init, SafeInv, NotAhead, CursorSafe, RunSafe, Idle, NoPage, NoCursor, Positions

\* An exception leaves a run in a state that promises nothing of the data.
LEMMA ThrownSafe ==
  ASSUME NEW s \in RunStates
  PROVE  RunSafe(Thrown(s))
BY DEF RunSafe, Thrown, RunStates

\* A step of run r that writes neither rows nor the cursor has only to be safe
\* for r itself.
LEMMA QuietStep ==
  ASSUME TypeOK, SafeInv, UNCHANGED <<source, stored, cursor>>,
         NEW r \in Runs, Step(r) \/ Crash(r), RunSafe(run'[r])
  PROVE  SafeInv'
<1>1. NotAhead' /\ CursorSafe'
  BY DEF SafeInv, NotAhead, CursorSafe, source
<1>2. ASSUME NEW q \in Runs
      PROVE  RunSafe(run[q])'
  <2>1. RunSafe(run'[q])
    BY OthersUntouched DEF SafeInv
  <2> QED  BY <2>1 DEF RunSafe, BaseSafe, Accounted, PageSafe, Valid, Opening, source
<1> QED  BY <1>1, <1>2 DEF SafeInv

\* A page leaves every record of its listing fetched, stored or still to list.
LEMMA FetchPageSafe ==
  ASSUME TypeInv, SafeInv, NEW r \in Runs, FetchPage(r)
  PROVE  RunSafe(run'[r])
<1> DEFINE t == run[r]  due == StillToList(t)
<1>0. TypeOK /\ t \in RunStates /\ run'[r].pc = "persist"
  BY DEF TypeInv, TypeOK, FetchPage
<1>1. PICK ks \in SUBSET due, vouched \in BOOLEAN :
        run' = [run EXCEPT ![r] =
          [t EXCEPT !.pc = "persist",
                    !.asOf = ListedAsOf(t),
                    !.todo = due \ ks,
                    !.page = [k \in Keys |-> IF k \in Accepted(ks) THEN upstream[k] ELSE 0],
                    !.nextCursor = IF due = ks /\ vouched THEN ListedAsOf(t) ELSE NoCursor,
                    !.pages = @ + 1,
                    !.attempts = 0,
                    !.rejected = @ \/ Accepted(ks) # ks]]
  BY DEF FetchPage
<1> DEFINE s == run'[r]
<1>2. /\ s.asOf = ListedAsOf(t)
      /\ s.todo = due \ ks
      /\ s.page = [k \in Keys |-> IF k \in Accepted(ks) THEN upstream[k] ELSE 0]
      /\ s.nextCursor = IF due = ks /\ vouched THEN ListedAsOf(t) ELSE NoCursor
  BY <1>0, <1>1 DEF TypeOK, RunStates
<1>3. t.pc = "fetch" /\ RunSafe(t)
  BY DEF FetchPage, SafeInv
<1>4. /\ ListedAsOf(t) \in Positions /\ cursor <= ListedAsOf(t) /\ ListedAsOf(t) <= head
      /\ \A k \in Keys : Valid(k) /\ upstream[k] <= ListedAsOf(t) /\ k \notin due =>
           stored[k] = upstream[k]
  <2>1. CASE Opening(t)
    BY <1>0, <1>3, <2>1
       DEF RunSafe, BaseSafe, ListedAsOf, StillToList, SafeInv, NotAhead, TypeOK, Positions,
           Cursors, NoCursor, RunStates
  <2>2. CASE ~Opening(t)
    BY <1>0, <1>3, <2>2
       DEF RunSafe, Accounted, ListedAsOf, StillToList, Opening, NoPage, RunStates, Cursors
  <2> QED  BY <2>1, <2>2
<1>5. ~Opening(s)
  BY <1>2, <1>4 DEF Opening, Positions, NoCursor
<1>6. Accounted(s)
  BY <1>0, <1>2, <1>4 DEF Accounted, Accepted, Valid, TypeOK, Positions
<1>7. PageSafe(s)
  BY <1>0, <1>2 DEF PageSafe, Accepted, SafeInv, NotAhead, TypeOK, Positions
<1> QED  BY <1>0, <1>5, <1>6, <1>7 DEF RunSafe

\* The transaction of a page keeps rows and cursor safe, and the rest of the
\* listing accounted for.
LEMMA PersistSafe ==
  ASSUME TypeInv, OneAtATime, SafeInv,
         NEW r \in Runs, NEW ack \in Acks, PersistBatch(r, ack)
  PROVE  SafeInv' /\ (cursor' = cursor \/ cursor <= cursor')
                  /\ \A k \in Keys : stored[k] <= stored'[k]
<1> DEFINE t == run[r]
<1>0. TypeOK /\ t \in RunStates /\ Step(r)
  BY DEF TypeInv, TypeOK, Step
<1>1. t.pc = "persist" /\ ~Opening(t) /\ Accounted(t) /\ PageSafe(t)
  BY DEF PersistBatch, SafeInv, RunSafe
<1>2. /\ UNCHANGED <<head, upstream, bad>>
      /\ \A k \in Keys :
           stored'[k] = IF Applied(ack) /\ t.page[k] # 0 THEN t.page[k] ELSE stored[k]
      /\ cursor' = CursorWith(t, ack)
  BY <1>0 DEF PersistBatch, source, TypeOK
<1>3. \A k \in Keys : /\ stored[k] \in Nat /\ stored'[k] \in Nat /\ upstream[k] \in Nat
                      /\ t.page[k] \in Nat
                      /\ stored[k] <= stored'[k] /\ stored'[k] <= upstream[k]
  BY <1>0, <1>1, <1>2 DEF PageSafe, SafeInv, NotAhead, TypeOK, RunStates, Positions
<1>4. cursor' = cursor \/ (Applied(ack) /\ cursor' = t.asOf /\ t.todo = {})
  BY <1>1, <1>2 DEF CursorWith, PageSafe
<1>5. cursor \in Int /\ t.asOf \in Int /\ head \in Int /\ cursor <= t.asOf /\ t.asOf <= head
  BY <1>0, <1>1 DEF Accounted, TypeOK, RunStates, Cursors, Positions, NoCursor
<1>6. \A k \in Keys : Valid(k) /\ stored[k] = upstream[k] => stored'[k] = upstream[k]
  BY <1>3 DEF Valid
<1>7. \A k \in Keys : Applied(ack) /\ Valid(k) /\ upstream[k] <= t.asOf /\ k \notin t.todo =>
        stored'[k] = upstream[k]
  BY <1>1, <1>2 DEF Accounted
<1>8. NotAhead'
  BY <1>2, <1>3, <1>4, <1>5 DEF SafeInv, NotAhead
<1>9. CursorSafe'
  <2>1. CASE cursor' = cursor
    BY <1>2, <1>6, <2>1 DEF SafeInv, CursorSafe, Valid
  <2>2. CASE Applied(ack) /\ cursor' = t.asOf /\ t.todo = {}
    BY <1>2, <1>7, <2>2 DEF CursorSafe, Valid
  <2> QED  BY <1>4, <2>1, <2>2
<1>10. RunSafe(run[r])'
  <2>1. CASE run'[r].pc = "fetch"
    <3>1. /\ Applied(ack) /\ t.todo # {}
          /\ run'[r].asOf = t.asOf /\ run'[r].todo = t.todo /\ run'[r].page = NoPage
      BY <1>0, <2>1 DEF PersistBatch, Continue, AfterPage, Thrown, Applied, Acks, TypeOK, RunStates
    <3>2. cursor' = cursor
      BY <1>4, <3>1
    <3>3. Accounted(run[r])'
      BY <1>2, <1>5, <1>7, <3>1, <3>2 DEF Accounted, Valid, NoPage
    <3> QED  BY <1>1, <2>1, <3>1, <3>3 DEF RunSafe, Opening
  <2>2. CASE run'[r].pc # "fetch"
    <3>1. run'[r].pc \in {"finish_job", "record_failure", "release"}
      BY <1>0, <2>2 DEF PersistBatch, Continue, AfterPage, Thrown, TypeOK, RunStates
    <3> QED  BY <3>1 DEF RunSafe
  <2> QED  BY <2>1, <2>2
<1>11. ASSUME NEW q \in Runs, q # r
       PROVE  RunSafe(run[q])'
  <2>1. run'[q].pc = "idle"
    BY <1>0, <1>1, <1>11, OthersUntouched DEF OneAtATime, Executing
  <2> QED  BY <2>1 DEF RunSafe
<1>12. SafeInv'
  BY <1>8, <1>9, <1>10, <1>11 DEF SafeInv
<1> QED  BY <1>3, <1>4, <1>5, <1>12

\* The fallback drops the cursor, and its listing starts from nothing.
LEMMA ClearCursorSafe ==
  ASSUME TypeInv, OneAtATime, SafeInv,
         NEW r \in Runs, NEW ack \in Acks, ClearCursor(r, ack)
  PROVE  SafeInv' /\ (cursor' = cursor \/ cursor' = NoCursor)
<1>0. TypeOK /\ run[r] \in RunStates /\ Step(r)
  BY DEF TypeInv, TypeOK, Step
<1>1. cursor' = cursor \/ cursor' = NoCursor
  BY DEF ClearCursor
<1>2. /\ run[r].pc = "clear_cursor" /\ run[r].page = NoPage
      /\ UNCHANGED <<head, upstream, bad, stored>>
  BY DEF ClearCursor, SafeInv, RunSafe, source
<1>3. NotAhead' /\ CursorSafe'
  BY <1>0, <1>1, <1>2
     DEF SafeInv, NotAhead, CursorSafe, TypeOK, Positions, NoCursor
<1>4. RunSafe(run[r])'
  <2>1. CASE run'[r].pc = "fetch"
    <3>1. run'[r].asOf = NoCursor /\ run'[r].from = 0 /\ run'[r].page = NoPage
      BY <1>0, <1>2, <2>1 DEF ClearCursor, Continue, Thrown, TypeOK, RunStates
    <3>2. BaseSafe(run[r])'
      BY <1>0, <1>2, <3>1 DEF BaseSafe, Valid, TypeOK, Positions
    <3> QED  BY <2>1, <3>1, <3>2 DEF RunSafe, Opening
  <2>2. CASE run'[r].pc # "fetch"
    <3>1. run'[r].pc \in {"record_failure", "release"}
      BY <1>0, <2>2 DEF ClearCursor, Continue, Thrown, TypeOK, RunStates
    <3> QED  BY <3>1 DEF RunSafe
  <2> QED  BY <2>1, <2>2
<1>5. ASSUME NEW q \in Runs, q # r
      PROVE  RunSafe(run[q])'
  <2>1. run'[q].pc = "idle"
    BY <1>0, <1>2, <1>5, OthersUntouched DEF OneAtATime, Executing
  <2> QED  BY <2>1 DEF RunSafe
<1> QED  BY <1>1, <1>3, <1>4, <1>5 DEF SafeInv

\* A change at the provider is beyond every cursor and every open listing.
LEMMA ChangeSafe ==
  ASSUME TypeOK, SafeInv, NEW k \in Keys, Change(k)
  PROVE  SafeInv'
<1>1. /\ head' = head + 1
      /\ upstream'[k] = head'
      /\ \A j \in Keys : j # k => upstream'[j] = upstream[j] /\ bad'[j] = bad[j]
      /\ UNCHANGED <<stored, cursor, run>>
  BY DEF Change, database, TypeOK
<1>2. /\ head \in Nat /\ cursor \in Int
      /\ \A j \in Keys : upstream[j] \in Nat /\ stored[j] \in Nat
  BY DEF TypeOK, Positions, Cursors, NoCursor
<1>3. NotAhead' /\ CursorSafe'
  BY <1>1, <1>2 DEF SafeInv, NotAhead, CursorSafe
<1>4. ASSUME NEW q \in Runs
      PROVE  RunSafe(run[q])'
  <2> DEFINE s == run[q]
  <2>1. RunSafe(s) /\ s \in RunStates /\ s' = s
    BY <1>1 DEF SafeInv, TypeOK
  <2>2. s.from \in Nat /\ s.asOf \in Int /\ \A j \in Keys : s.page[j] \in Nat
    BY <2>1 DEF RunStates, Positions, Cursors, NoCursor
  <2>3. BaseSafe(s) => BaseSafe(s)'
    BY <1>1, <1>2, <2>1, <2>2 DEF BaseSafe, Valid
  <2>4. Accounted(s) => Accounted(s)'
    BY <1>1, <1>2, <2>1, <2>2 DEF Accounted, Valid
  <2>5. PageSafe(s) => PageSafe(s)'
    BY <1>1, <1>2, <2>1, <2>2 DEF PageSafe, SafeInv, NotAhead
  <2>6. (s.pc)' = s.pc /\ (s.page)' = s.page /\ (s.asOf)' = s.asOf
    BY <2>1
  <2> QED  BY <2>1, <2>3, <2>4, <2>5, <2>6 DEF RunSafe, Opening
<1> QED  BY <1>3, <1>4 DEF SafeInv

\* Every step keeps rows and cursor safe.
LEMMA SafeNext ==
  ASSUME TypeInv, OneAtATime, SafeInv, [Next]_vars
  PROVE  SafeInv'
<1>0. TypeOK /\ \A r \in Runs : run[r] \in RunStates
  BY DEF TypeInv, TypeOK
<1>1. ASSUME NEW r \in Runs, NEW ack \in Acks, TryAcquire(r, ack)
      PROVE  SafeInv'
  <2>1. RunSafe(run'[r])
    BY <1>0, <1>1 DEF TryAcquire, RunSafe, Idle, Opening, TypeOK
  <2> QED  BY <1>0, <1>1, <2>1, QuietStep DEF TryAcquire, Step
<1>2. ASSUME NEW r \in Runs, Skip(r)
      PROVE  SafeInv'
  <2>1. RunSafe(run'[r])
    BY <1>0, <1>2 DEF Skip, RunSafe, Idle, TypeOK
  <2> QED  BY <1>0, <1>2, <2>1, QuietStep DEF Skip, Step
<1>3. ASSUME NEW r \in Runs, NEW ack \in Acks, GetCursor(r, ack)
      PROVE  SafeInv'
  <2>1. PICK usable \in BOOLEAN :
          /\ usable => cursor # NoCursor
          /\ Continue(r, ack,
               [run[r] EXCEPT !.pc = "start_job",
                              !.mode = IF usable THEN "incremental" ELSE "full",
                              !.from = IF usable THEN cursor ELSE 0])
    BY <1>3 DEF GetCursor
  <2> DEFINE s == [run[r] EXCEPT !.pc = "start_job",
                                 !.mode = IF usable THEN "incremental" ELSE "full",
                                 !.from = IF usable THEN cursor ELSE 0]
  <2>2. /\ s.pc = "start_job" /\ s.from = IF usable THEN cursor ELSE 0
        /\ s.asOf = NoCursor /\ s.page = NoPage
    BY <1>0, <1>3 DEF GetCursor, SafeInv, RunSafe, Opening, RunStates
  <2>3. BaseSafe(s)
    BY <1>0, <2>2 DEF BaseSafe, SafeInv, NotAhead, CursorSafe, Valid, TypeOK, Positions
  <2>4. RunSafe(s)
    BY <2>2, <2>3 DEF RunSafe, Opening
  <2>5. RunSafe(run'[r])
    BY <1>0, <2>1, <2>4, ThrownSafe DEF Continue, TypeOK
  <2> QED  BY <1>0, <1>3, <2>5, QuietStep DEF GetCursor, Step, database
<1>4. ASSUME NEW r \in Runs, NEW ack \in Acks, StartJob(r, ack)
      PROVE  SafeInv'
  <2>1. RunSafe([run[r] EXCEPT !.pc = "fetch"])
    BY <1>0, <1>4 DEF StartJob, SafeInv, RunSafe, BaseSafe, Opening, RunStates
  <2>2. RunSafe(run'[r])
    BY <1>0, <1>4, <2>1, ThrownSafe DEF StartJob, Continue, TypeOK
  <2> QED  BY <1>0, <1>4, <2>2, QuietStep DEF StartJob, Step
<1>5. ASSUME NEW r \in Runs, FetchPage(r)
      PROVE  SafeInv'
  BY <1>0, <1>5, FetchPageSafe, QuietStep DEF FetchPage, Step, database
<1>6. ASSUME NEW r \in Runs, NEW code \in ErrorCodes, FetchError(r, code)
      PROVE  SafeInv'
  <2>1. run[r].pc = "fetch" /\ RunSafe(run[r])
    BY <1>6 DEF FetchError, SafeInv
  <2>2. RunSafe(AfterFetchError(run[r], code))
    BY <1>0, <2>1, ThrownSafe
       DEF AfterFetchError, RunSafe, BaseSafe, Accounted, Opening, RunStates
  <2>3. RunSafe(run'[r])
    BY <1>0, <1>6, <2>2 DEF FetchError, TypeOK
  <2> QED  BY <1>0, <1>6, <2>3, QuietStep DEF FetchError, Step, database
<1>7. ASSUME NEW r \in Runs, NEW ack \in Acks, ClearCursor(r, ack)
      PROVE  SafeInv'
  BY <1>7, ClearCursorSafe
<1>8. ASSUME NEW r \in Runs, NEW ack \in Acks, PersistBatch(r, ack)
      PROVE  SafeInv'
  BY <1>8, PersistSafe
<1>9. ASSUME NEW r \in Runs, NEW ack \in Acks, RecordFailure(r, ack)
      PROVE  SafeInv'
  <2>1. RunSafe([run[r] EXCEPT !.pc = "finish_job"])
    BY <1>0 DEF RunSafe, RunStates
  <2>2. RunSafe(run'[r])
    BY <1>0, <1>9, <2>1, ThrownSafe DEF RecordFailure, Continue, TypeOK
  <2> QED  BY <1>0, <1>9, <2>2, QuietStep DEF RecordFailure, Step
<1>10. ASSUME NEW r \in Runs, NEW ack \in Acks, FinishJob(r, ack)
       PROVE  SafeInv'
  <2>1. RunSafe([run[r] EXCEPT !.pc = "metadata"])
    BY <1>0 DEF RunSafe, RunStates
  <2>2. RunSafe(run'[r])
    BY <1>0, <1>10, <2>1, ThrownSafe DEF FinishJob, Continue, TypeOK
  <2> QED  BY <1>0, <1>10, <2>2, QuietStep DEF FinishJob, Step
<1>11. ASSUME NEW r \in Runs, NEW ack \in Acks, WriteMetadata(r, ack)
       PROVE  SafeInv'
  <2>1. RunSafe([run[r] EXCEPT !.pc = "release"])
    BY <1>0 DEF RunSafe, RunStates
  <2>2. RunSafe(run'[r])
    BY <1>0, <1>11, <2>1, ThrownSafe DEF WriteMetadata, Continue, TypeOK
  <2> QED  BY <1>0, <1>11, <2>2, QuietStep DEF WriteMetadata, Step
<1>12. ASSUME NEW r \in Runs, NEW ack \in Acks, ReleaseLock(r, ack)
       PROVE  SafeInv'
  <2>1. RunSafe(run'[r])
    BY <1>0, <1>12 DEF ReleaseLock, RunSafe, Idle, TypeOK
  <2> QED  BY <1>0, <1>12, <2>1, QuietStep DEF ReleaseLock, Step
<1>13. ASSUME NEW r \in Runs, Crash(r)
       PROVE  SafeInv'
  <2>1. RunSafe(run'[r])
    BY <1>0, <1>13 DEF Crash, RunSafe, Idle, TypeOK
  <2> QED  BY <1>0, <1>13, <2>1, QuietStep DEF Crash, database
<1>14. ASSUME NEW k \in Keys, Change(k)
       PROVE  SafeInv'
  BY <1>0, <1>14, ChangeSafe
<1>15. CASE UNCHANGED vars
  BY <1>15 DEF vars, source, database, SafeInv, NotAhead, CursorSafe, RunSafe, BaseSafe,
               Accounted, PageSafe, Valid, Opening
<1> QED
  BY <1>1, <1>2, <1>3, <1>4, <1>5, <1>6, <1>7, <1>8, <1>9, <1>10, <1>11, <1>12,
     <1>13, <1>14, <1>15 DEF Next, Step

\* As long as no two runs execute at once, be it under a lease that has run out, the
\* cursor never points past data that was not persisted: whatever fails, whatever
\* changes at the provider meanwhile, and wherever runs die.
THEOREM CursorSafeWithoutOverlap == Spec => ([]OneAtATime => []CursorSafe)
<1>1. TypeInv /\ OneAtATime /\ SafeInv /\ [Next]_vars => SafeInv'
  BY SafeNext
<1>2. SafeInv => CursorSafe
  BY DEF SafeInv
<1> QED
  BY <1>1, <1>2, InitType, TypeNext, SafeInit, PTL DEF Spec

\* The same, by the lock alone: while no lease runs out under its run, the cursor
\* never points past data that was not persisted.
THEOREM CursorNeverPassesData == ~LeaseCanExpire => (Spec => []CursorSafe)
BY OneRun, CursorSafeWithoutOverlap, PTL

\* As long as no two runs execute at once neither a row nor the cursor ever goes back, except
\* that the fallback drops the cursor.
LEMMA ForwardStep ==
  ASSUME TypeInv, OneAtATime, SafeInv, [Next]_vars
  PROVE  /\ cursor' < cursor => cursor' = NoCursor
         /\ \A k \in Keys : stored'[k] >= stored[k]
<1>0. /\ cursor \in Int /\ \A k \in Keys : stored[k] \in Nat
      /\ cursor' \in Int
  BY TypeNext DEF TypeInv, TypeOK, Cursors, Positions, NoCursor
<1>1. ASSUME NEW r \in Runs, NEW ack \in Acks, PersistBatch(r, ack)
      PROVE  (cursor' = cursor \/ cursor' >= cursor) /\ \A k \in Keys : stored'[k] >= stored[k]
  BY <1>1, PersistSafe
<1>2. ASSUME NEW r \in Runs, NEW ack \in Acks, ClearCursor(r, ack)
      PROVE  (cursor' = cursor \/ cursor' = NoCursor) /\ stored' = stored
  BY <1>2 DEF ClearCursor
<1>3. \/ \E r \in Runs, ack \in Acks : PersistBatch(r, ack) \/ ClearCursor(r, ack)
      \/ UNCHANGED <<stored, cursor>>
  BY DEF Next, Step, TryAcquire, Skip, GetCursor, StartJob, FetchPage, FetchError,
         RecordFailure, FinishJob, WriteMetadata, ReleaseLock, Crash, Change, vars, database
<1>4. CASE \E r \in Runs, ack \in Acks : PersistBatch(r, ack)
  BY <1>0, <1>1, <1>4
<1>5. CASE \E r \in Runs, ack \in Acks : ClearCursor(r, ack)
  BY <1>0, <1>2, <1>5
<1>6. CASE UNCHANGED <<stored, cursor>>
  BY <1>0, <1>6
<1> QED  BY <1>3, <1>4, <1>5, <1>6

\* As long as no two runs execute at once, the stored cursor and the stored rows only
\* move forward, run after run, save for the fallback that drops the cursor.
THEOREM ForwardWithoutOverlap == Spec => ([]OneAtATime => NothingRegresses)
<1>1. TypeInv /\ OneAtATime /\ SafeInv /\ [Next]_vars => SafeInv'
  BY SafeNext
<1>2. TypeInv /\ OneAtATime /\ SafeInv /\ [Next]_vars
        => [/\ cursor' < cursor => cursor' = NoCursor
            /\ \A k \in Keys : stored'[k] >= stored[k]]_vars
  BY ForwardStep
<1> QED
  BY <1>1, <1>2, InitType, TypeNext, SafeInit, PTL DEF Spec, NothingRegresses

\* The same, by the lock alone: while no lease runs out under its run, neither the
\* cursor nor a row goes back.
THEOREM NothingGoesBack == ~LeaseCanExpire => (Spec => NothingRegresses)
BY OneRun, ForwardWithoutOverlap, PTL

-----------------------------------------------------------------------------
\* What makes a run in state s throw, when its job row reads row and n database
\* calls have failed: nothing but such a call, directly or because it left the
\* catch block without a job row to refer to.
Excused(s, row, n) ==
  /\ s.outcome = "threw" => n > 0
  /\ s.pc \in {"get_cursor", "start_job", "fetch", "clear_cursor", "persist"} => ~s.caught
  /\ s.pc \in {"fetch", "clear_cursor", "persist"} => row # "none"
  /\ s.pc = "record_failure" /\ row = "none" => n > 0

ThrowInv == \A r \in Runs : Excused(run[r], job[r], faults.storage)

\* A step of one run leaves the books of the others alone, and no failure is undone.
LEMMA BooksApart ==
  ASSUME TypeOK, NEW r \in Runs, Step(r) \/ Crash(r)
  PROVE  /\ \A q \in Runs \ {r} : job'[q] = job[q] /\ logged'[q] = logged[q]
         /\ faults.storage \in Nat /\ faults'.storage \in Nat
         /\ faults.storage <= faults'.storage
<1>1. \A q \in Runs \ {r} : job'[q] = job[q] /\ logged'[q] = logged[q]
  BY DEF Step, Crash, TryAcquire, Skip, GetCursor, StartJob, FetchPage, FetchError, ClearCursor,
         PersistBatch, RecordFailure, FinishJob, WriteMetadata, ReleaseLock, database, TypeOK
<1>2. \/ \E ack : Answer(ack)
      \/ UNCHANGED faults
      \/ faults' = [faults EXCEPT !.provider = @ + 1]
      \/ faults' = [faults EXCEPT !.crash = @ + 1]
  BY DEF Step, Crash, TryAcquire, Skip, GetCursor, StartJob, FetchPage, FetchError, ClearCursor,
         PersistBatch, RecordFailure, FinishJob, WriteMetadata, ReleaseLock
<1>3. faults.storage \in Nat
  BY DEF TypeOK
<1>4. faults'.storage \in {faults.storage, faults.storage + 1}
  BY <1>2 DEF Answer, TypeOK
<1> QED  BY <1>1, <1>3, <1>4

\* A database call that fails is counted.
LEMMA FailureCounts ==
  ASSUME TypeOK, NEW ack, Answer(ack), ack # "ok"
  PROVE  faults'.storage > 0
<1>1. faults.storage \in Nat /\ faults'.storage = faults.storage + 1
  BY DEF Answer, TypeOK
<1> QED  BY <1>1

\* After a failed call a run is excused wherever the exception takes it.
LEMMA ThrownExcused ==
  ASSUME NEW s \in RunStates, NEW row, NEW n \in Nat,
         n > 0 \/ (~s.caught /\ row # "none")
  PROVE  Excused(Thrown(s), row, n)
BY DEF Excused, Thrown, RunStates

LEMMA CallExcused ==
  ASSUME TypeInv, NEW r \in Runs, NEW ack, NEW s, Answer(ack), Continue(r, ack, s),
         ack = "ok" => Excused(s, job'[r], faults'.storage), faults'.storage \in Nat
  PROVE  Excused(run'[r], job'[r], faults'.storage)
<1>0. TypeOK /\ run[r] \in RunStates
  BY DEF TypeInv, TypeOK
<1>1. CASE ack = "ok"
  BY <1>0, <1>1 DEF Continue, TypeOK
<1>2. CASE ack # "ok"
  <2>1. run'[r] = Thrown(run[r])
    BY <1>0, <1>2 DEF Continue, TypeOK
  <2> QED  BY <1>0, <1>2, <2>1, FailureCounts, ThrownExcused
<1> QED  BY <1>1, <1>2

\* No step of a run makes it throw, or ready to throw, without a failed call.
LEMMA StepExcused ==
  ASSUME TypeInv, ThrowInv, NEW r \in Runs, Step(r) \/ Crash(r)
  PROVE  Excused(run'[r], job'[r], faults'.storage)
<1> DEFINE t == run[r]  n == faults.storage
<1>0. TypeOK /\ t \in RunStates /\ t \in ProperRuns
  BY DEF TypeInv, TypeOK
<1>1. n \in Nat /\ faults'.storage \in Nat /\ n <= faults'.storage
  BY <1>0, BooksApart
<1>2. Excused(t, job[r], n)
  BY DEF ThrowInv
<1>3. t.outcome = "threw" => faults'.storage > 0
  BY <1>1, <1>2 DEF Excused
<1>4. ASSUME NEW ack \in Acks, TryAcquire(r, ack)
      PROVE  Excused(run'[r], job'[r], faults'.storage)
  <2>1. CASE ack = "ok"
    BY <1>0, <1>4, <2>1 DEF TryAcquire, Excused, Idle, TypeOK
  <2>2. CASE ack # "ok"
    <3>1. faults'.storage > 0
      BY <1>0, <1>4, <2>2, FailureCounts DEF TryAcquire
    <3> QED  BY <1>0, <1>4, <2>2, <3>1 DEF TryAcquire, Excused, Idle, TypeOK
  <2> QED  BY <2>1, <2>2
<1>5. CASE Skip(r)
  BY <1>0, <1>5 DEF Skip, Excused, Idle, TypeOK
<1>6. ASSUME NEW ack \in Acks, GetCursor(r, ack)
      PROVE  Excused(run'[r], job'[r], faults'.storage)
  <2>1. PICK usable \in BOOLEAN :
          Continue(r, ack,
            [t EXCEPT !.pc = "start_job",
                      !.mode = IF usable THEN "incremental" ELSE "full",
                      !.from = IF usable THEN cursor ELSE 0])
    BY <1>6 DEF GetCursor
  <2>2. Excused([t EXCEPT !.pc = "start_job",
                          !.mode = IF usable THEN "incremental" ELSE "full",
                          !.from = IF usable THEN cursor ELSE 0], job'[r], faults'.storage)
    BY <1>0, <1>2, <1>3, <1>6 DEF GetCursor, Excused, RunStates
  <2> QED  BY <1>1, <1>6, <2>1, <2>2, CallExcused DEF GetCursor
<1>7. ASSUME NEW ack \in Acks, StartJob(r, ack)
      PROVE  Excused(run'[r], job'[r], faults'.storage)
  <2>1. ack = "ok" => job'[r] = "in_progress"
    BY <1>0, <1>7 DEF StartJob, Applied, TypeOK
  <2>2. ack = "ok" => Excused([t EXCEPT !.pc = "fetch"], job'[r], faults'.storage)
    BY <1>0, <1>2, <1>3, <1>7, <2>1 DEF StartJob, Excused, RunStates
  <2> QED  BY <1>1, <1>7, <2>2, CallExcused DEF StartJob
<1>8. CASE FetchPage(r)
  <2>1. t.pc = "fetch" /\ run'[r].pc = "persist" /\ UNCHANGED <<job, faults>>
        /\ run'[r].outcome = t.outcome /\ run'[r].caught = t.caught
    BY <1>0, <1>8 DEF FetchPage, database, TypeOK, RunStates
  <2> QED  BY <1>2, <2>1 DEF Excused
<1>9. ASSUME NEW code \in ErrorCodes, FetchError(r, code)
      PROVE  Excused(run'[r], job'[r], faults'.storage)
  <2>1. /\ t.pc = "fetch" /\ ~t.caught /\ job'[r] = job[r] /\ job[r] # "none"
        /\ run'[r] = AfterFetchError(t, code)
    BY <1>0, <1>2, <1>9 DEF FetchError, database, Excused, TypeOK
  <2>2. Excused(Thrown(t), job'[r], faults'.storage)
    BY <1>0, <1>1, <2>1, ThrownExcused
  <2>3. Excused([t EXCEPT !.attempts = @ + 1], job'[r], faults'.storage)
    BY <1>0, <1>3, <2>1 DEF Excused, RunStates
  <2>4. Excused([t EXCEPT !.pc = "clear_cursor", !.attempts = 0], job'[r], faults'.storage)
    BY <1>0, <1>3, <2>1 DEF Excused, RunStates
  <2> QED  BY <2>1, <2>2, <2>3, <2>4 DEF AfterFetchError
<1>10. ASSUME NEW ack \in Acks, ClearCursor(r, ack)
       PROVE  Excused(run'[r], job'[r], faults'.storage)
  <2>1. Excused([t EXCEPT !.pc = "fetch", !.mode = "full", !.from = 0,
                          !.asOf = NoCursor, !.todo = {}], job'[r], faults'.storage)
    BY <1>0, <1>2, <1>3, <1>10 DEF ClearCursor, Excused, RunStates
  <2> QED  BY <1>1, <1>10, <2>1, CallExcused DEF ClearCursor
<1>11. ASSUME NEW ack \in Acks, PersistBatch(r, ack)
       PROVE  Excused(run'[r], job'[r], faults'.storage)
  <2> DEFINE s == [t EXCEPT !.upserted = @ \/ Changes(t.page), !.page = NoPage]
  <2>1. s.outcome = t.outcome /\ s.caught = t.caught /\ ~t.caught
        /\ job'[r] = job[r] /\ job[r] # "none" /\ s \in RunStates
    <3>1. Changes(t.page) \in BOOLEAN
      BY DEF Changes
    <3> QED  BY <1>0, <1>2, <1>11, <3>1, InitialTypes DEF PersistBatch, Excused, RunStates
  <2> HIDE DEF s
  <2>2. AfterPage(s).pc \in {"fetch", "finish_job"} /\ AfterPage(s).caught = s.caught
    BY <2>1 DEF AfterPage, RunStates
  <2>3. AfterPage(s).outcome \in {s.outcome} \cup Outcomes
    BY <2>1 DEF AfterPage, OutcomeOf, Outcomes, RunStates
  <2>4. Excused(AfterPage(s), job'[r], faults'.storage)
    BY <1>3, <2>1, <2>2, <2>3 DEF Excused, Outcomes
  <2>5. Continue(r, ack, AfterPage(s)) /\ Answer(ack)
    BY <1>11 DEF PersistBatch, s
  <2> QED  BY <1>1, <2>4, <2>5, CallExcused
<1>12. ASSUME NEW ack \in Acks, RecordFailure(r, ack)
       PROVE  Excused(run'[r], job'[r], faults'.storage)
  <2>1. CASE job[r] = "none"
    <3>1. run'[r] = Thrown(t) /\ n > 0 /\ faults'.storage > 0
      BY <1>0, <1>1, <1>2, <1>12, <2>1 DEF RecordFailure, Excused, TypeOK
    <3> QED  BY <1>0, <1>1, <3>1, ThrownExcused
  <2>2. CASE job[r] # "none"
    <3>1. Excused([t EXCEPT !.pc = "finish_job"], job'[r], faults'.storage)
      BY <1>0, <1>3 DEF Excused, RunStates
    <3> QED  BY <1>1, <1>12, <2>2, <3>1, CallExcused DEF RecordFailure
  <2> QED  BY <2>1, <2>2
<1>13. ASSUME NEW ack \in Acks, FinishJob(r, ack)
       PROVE  Excused(run'[r], job'[r], faults'.storage)
  <2>1. Excused([t EXCEPT !.pc = "metadata"], job'[r], faults'.storage)
    BY <1>0, <1>3 DEF Excused, RunStates
  <2> QED  BY <1>1, <1>13, <2>1, CallExcused DEF FinishJob
<1>14. ASSUME NEW ack \in Acks, WriteMetadata(r, ack)
       PROVE  Excused(run'[r], job'[r], faults'.storage)
  <2>1. Excused([t EXCEPT !.pc = "release"], job'[r], faults'.storage)
    BY <1>0, <1>3 DEF Excused, RunStates
  <2> QED  BY <1>1, <1>14, <2>1, CallExcused DEF WriteMetadata
<1>15. ASSUME NEW ack \in Acks, ReleaseLock(r, ack)
       PROVE  Excused(run'[r], job'[r], faults'.storage)
  <2>1. run'[r] = Idle(IF ack = "ok" THEN t.outcome ELSE "threw")
    BY <1>0, <1>15 DEF ReleaseLock, TypeOK
  <2>2. ack # "ok" => faults'.storage > 0
    BY <1>0, <1>15, FailureCounts DEF ReleaseLock
  <2> QED  BY <1>3, <2>1, <2>2 DEF Excused, Idle
<1>16. CASE Crash(r)
  BY <1>0, <1>16 DEF Crash, Excused, Idle, TypeOK
<1> QED
  BY <1>4, <1>5, <1>6, <1>7, <1>8, <1>9, <1>10, <1>11, <1>12, <1>13, <1>14, <1>15, <1>16
     DEF Step

LEMMA ThrowNext == TypeInv /\ ThrowInv /\ [Next]_vars => ThrowInv'
<1> SUFFICES ASSUME TypeInv, ThrowInv, [Next]_vars
             PROVE  ThrowInv'
  OBVIOUS
<1>1. ASSUME NEW r \in Runs, Step(r) \/ Crash(r)
      PROVE  ThrowInv'
  <2>0. TypeOK
    BY DEF TypeInv
  <2>1. Excused(run'[r], job'[r], faults'.storage)
    BY <1>1, StepExcused
  <2>2. ASSUME NEW q \in Runs, q # r
        PROVE  Excused(run'[q], job'[q], faults'.storage)
    <3>1. run'[q] = run[q] /\ job'[q] = job[q]
      BY <1>1, <2>0, <2>2, OthersUntouched, BooksApart
    <3>2. /\ faults.storage \in Nat /\ faults'.storage \in Nat
          /\ faults.storage <= faults'.storage
      BY <1>1, <2>0, BooksApart
    <3>3. Excused(run[q], job[q], faults.storage)
      BY DEF ThrowInv
    <3> QED  BY <3>1, <3>2, <3>3 DEF Excused
  <2> QED  BY <2>1, <2>2 DEF ThrowInv
<1>2. CASE (\E k \in Keys : Change(k)) \/ UNCHANGED vars
  BY <1>2 DEF Change, vars, database, ThrowInv, Excused
<1> QED  BY <1>1, <1>2 DEF Next

\* For any provider behaviour and any crashes: run() throws only after a database
\* call failed (the comment on SyncEngine.run says that it never throws).
THEOREM ThrowsOnlyAfterFault == Spec => []ThrowsOnlyOnStorageFault
<1>1. Init => ThrowInv
  BY DEF Init, ThrowInv, Excused, Idle
<1>2. ThrowInv => ThrowsOnlyOnStorageFault
  BY DEF ThrowInv, Excused, ThrowsOnlyOnStorageFault
<1> QED  BY <1>1, <1>2, InitType, TypeNext, ThrowNext, PTL DEF Spec

-----------------------------------------------------------------------------
\* What a run in state s has recorded on the way to its result, when its job row
\* reads row, the failure log has an entry of it or not, and the metadata row reads
\* snapshot.
Recorded(s, row, entry, snapshot) ==
  /\ s.pc \in {"finish_job", "metadata"} /\ s.caught => entry
  /\ s.pc = "metadata" => row = s.outcome
  /\ s.pc = "release" /\ s.outcome # "threw" =>
       row = s.outcome /\ snapshot = s.outcome /\ (s.caught => entry)

RecordInv == \A r \in Runs : Recorded(run[r], job[r], logged[r], status)

\* The part of it that belongs to the run alone: all but the metadata row.
OwnRecordInv == \A r \in Runs : Recorded(run[r], job[r], logged[r], run[r].outcome)

\* An exception takes a run to where it has nothing on record yet, or out of run().
LEMMA ThrownRecorded ==
  ASSUME NEW s \in RunStates, NEW row, NEW entry, NEW snapshot
  PROVE  Recorded(Thrown(s), row, entry, snapshot)
BY DEF Recorded, Thrown, RunStates

LEMMA CallRecorded ==
  ASSUME TypeInv, NEW r \in Runs, NEW ack, NEW s, Continue(r, ack, s),
         ack = "ok" => Recorded(s, job'[r], logged'[r], status')
  PROVE  Recorded(run'[r], job'[r], logged'[r], status')
<1>0. TypeOK /\ run[r] \in RunStates
  BY DEF TypeInv, TypeOK
<1>1. run'[r] = IF ack = "ok" THEN s ELSE Thrown(run[r])
  BY <1>0 DEF Continue, TypeOK
<1> QED  BY <1>0, <1>1, ThrownRecorded

\* Each of the three writes comes before the step that relies on it.
LEMMA StepRecorded ==
  ASSUME TypeInv, ThrowInv, OwnRecordInv, NEW r \in Runs, Step(r) \/ Crash(r)
  PROVE  Recorded(run'[r], job'[r], logged'[r], status')
<1> DEFINE t == run[r]
<1>0. TypeOK /\ t \in RunStates
  BY DEF TypeInv, TypeOK
<1>1. Excused(t, job[r], faults.storage) /\ Recorded(t, job[r], logged[r], t.outcome)
  BY DEF ThrowInv, OwnRecordInv
<1>2. ASSUME run'[r].pc \in {"idle", "get_cursor", "start_job", "fetch", "clear_cursor",
                              "persist", "record_failure"}
      PROVE  Recorded(run'[r], job'[r], logged'[r], status')
  BY <1>2 DEF Recorded
<1>3. ASSUME NEW ack \in Acks, TryAcquire(r, ack)
      PROVE  run'[r].pc \in {"get_cursor", "idle"}
  BY <1>0, <1>3 DEF TryAcquire, Idle, TypeOK
<1>4. ASSUME Skip(r) \/ Crash(r) \/ \E ack \in Acks : ReleaseLock(r, ack)
      PROVE  run'[r].pc = "idle"
  BY <1>0, <1>4 DEF Skip, Crash, ReleaseLock, Idle, TypeOK
<1>5. ASSUME NEW ack \in Acks, GetCursor(r, ack)
      PROVE  Recorded(run'[r], job'[r], logged'[r], status')
  <2>1. PICK usable \in BOOLEAN :
          Continue(r, ack,
            [t EXCEPT !.pc = "start_job",
                      !.mode = IF usable THEN "incremental" ELSE "full",
                      !.from = IF usable THEN cursor ELSE 0])
    BY <1>5 DEF GetCursor
  <2> DEFINE s == [t EXCEPT !.pc = "start_job",
                            !.mode = IF usable THEN "incremental" ELSE "full",
                            !.from = IF usable THEN cursor ELSE 0]
  <2>2. s.pc = "start_job"
    BY <1>0 DEF RunStates
  <2>3. Recorded(s, job'[r], logged'[r], status')
    BY <2>2 DEF Recorded
  <2> QED  BY <2>1, <2>3, CallRecorded
<1>6. ASSUME NEW ack \in Acks, StartJob(r, ack)
      PROVE  Recorded(run'[r], job'[r], logged'[r], status')
  <2>1. Recorded([t EXCEPT !.pc = "fetch"], job'[r], logged'[r], status')
    BY <1>0 DEF Recorded, RunStates
  <2> QED  BY <1>6, <2>1, CallRecorded DEF StartJob
<1>7. ASSUME FetchPage(r)
      PROVE  run'[r].pc = "persist"
  BY <1>0, <1>7 DEF FetchPage, TypeOK, RunStates
<1>8. ASSUME NEW code \in ErrorCodes, FetchError(r, code)
      PROVE  run'[r].pc \in {"fetch", "clear_cursor", "record_failure"}
  <2>1. t.pc = "fetch" /\ ~t.caught /\ run'[r] = AfterFetchError(t, code)
    BY <1>0, <1>1, <1>8 DEF FetchError, Excused, TypeOK
  <2> QED  BY <1>0, <2>1 DEF AfterFetchError, Thrown, RunStates
<1>9. ASSUME NEW ack \in Acks, ClearCursor(r, ack)
      PROVE  Recorded(run'[r], job'[r], logged'[r], status')
  <2>1. Recorded([t EXCEPT !.pc = "fetch", !.mode = "full", !.from = 0,
                           !.asOf = NoCursor, !.todo = {}], job'[r], logged'[r], status')
    BY <1>0 DEF Recorded, RunStates
  <2> QED  BY <1>9, <2>1, CallRecorded DEF ClearCursor
<1>10. ASSUME NEW ack \in Acks, PersistBatch(r, ack)
       PROVE  Recorded(run'[r], job'[r], logged'[r], status')
  <2> DEFINE s == [t EXCEPT !.upserted = @ \/ Changes(t.page), !.page = NoPage]
  <2>1. ~s.caught /\ s \in RunStates
    <3>1. Changes(t.page) \in BOOLEAN
      BY DEF Changes
    <3> QED  BY <1>0, <1>1, <1>10, <3>1, InitialTypes DEF PersistBatch, Excused, RunStates
  <2> HIDE DEF s
  <2>2. AfterPage(s).pc \in {"fetch", "finish_job"} /\ ~AfterPage(s).caught
    BY <2>1 DEF AfterPage, RunStates
  <2>3. Recorded(AfterPage(s), job'[r], logged'[r], status')
    BY <2>2 DEF Recorded
  <2>4. Continue(r, ack, AfterPage(s))
    BY <1>10 DEF PersistBatch, s
  <2> QED  BY <2>3, <2>4, CallRecorded
<1>11. ASSUME NEW ack \in Acks, RecordFailure(r, ack)
       PROVE  Recorded(run'[r], job'[r], logged'[r], status')
  <2>1. CASE job[r] = "none"
    <3>1. run'[r] = Thrown(t)
      BY <1>0, <1>11, <2>1 DEF RecordFailure, TypeOK
    <3> QED  BY <1>0, <3>1, ThrownRecorded
  <2>2. CASE job[r] # "none"
    <3>1. ack = "ok" => logged'[r]
      BY <1>0, <1>11, <2>2 DEF RecordFailure, Applied, TypeOK
    <3>2. ack = "ok" => Recorded([t EXCEPT !.pc = "finish_job"], job'[r], logged'[r], status')
      BY <1>0, <3>1 DEF Recorded, RunStates
    <3> QED  BY <1>11, <2>2, <3>2, CallRecorded DEF RecordFailure
  <2> QED  BY <2>1, <2>2
<1>12. ASSUME NEW ack \in Acks, FinishJob(r, ack)
       PROVE  Recorded(run'[r], job'[r], logged'[r], status')
  <2>1. ack = "ok" => job'[r] = t.outcome
    BY <1>0, <1>12 DEF FinishJob, Applied, TypeOK
  <2>2. (t.caught => logged[r]) /\ logged' = logged
    BY <1>1, <1>12 DEF FinishJob, Recorded
  <2>3. ack = "ok" => Recorded([t EXCEPT !.pc = "metadata"], job'[r], logged'[r], status')
    BY <1>0, <2>1, <2>2 DEF Recorded, RunStates
  <2> QED  BY <1>12, <2>3, CallRecorded DEF FinishJob
<1>13. ASSUME NEW ack \in Acks, WriteMetadata(r, ack)
       PROVE  Recorded(run'[r], job'[r], logged'[r], status')
  <2>1. ack = "ok" => status' = t.outcome
    BY <1>13 DEF WriteMetadata, Applied
  <2>2. (t.caught => logged[r]) /\ job[r] = t.outcome /\ UNCHANGED <<job, logged>>
    BY <1>1, <1>13 DEF WriteMetadata, Recorded
  <2>3. ack = "ok" => Recorded([t EXCEPT !.pc = "release"], job'[r], logged'[r], status')
    BY <1>0, <2>1, <2>2 DEF Recorded, RunStates
  <2> QED  BY <1>13, <2>3, CallRecorded DEF WriteMetadata
<1> QED
  BY <1>2, <1>3, <1>4, <1>5, <1>6, <1>7, <1>8, <1>9, <1>10, <1>11, <1>12, <1>13 DEF Step

\* The job row and the failure log of a run are written by no other run.
LEMMA OwnRecordNext ==
  ASSUME TypeInv, ThrowInv, OwnRecordInv, [Next]_vars
  PROVE  OwnRecordInv'
<1>0. TypeOK
  BY DEF TypeInv
<1>1. ASSUME NEW r \in Runs, Step(r) \/ Crash(r)
      PROVE  OwnRecordInv'
  <2>1. Recorded(run'[r], job'[r], logged'[r], run'[r].outcome)
    <3>1. Recorded(run'[r], job'[r], logged'[r], status')
      BY <1>1, StepRecorded
    <3> QED  BY <3>1 DEF Recorded
  <2>2. ASSUME NEW q \in Runs, q # r
        PROVE  Recorded(run'[q], job'[q], logged'[q], run'[q].outcome)
    <3>1. run'[q] = run[q] /\ job'[q] = job[q] /\ logged'[q] = logged[q]
      BY <1>0, <1>1, <2>2, OthersUntouched, BooksApart
    <3> QED  BY <3>1 DEF OwnRecordInv
  <2> QED  BY <2>1, <2>2 DEF OwnRecordInv
<1>2. CASE (\E k \in Keys : Change(k)) \/ UNCHANGED vars
  BY <1>2 DEF Change, vars, database, OwnRecordInv
<1> QED  BY <1>1, <1>2 DEF Next

\* Whether leases expire or not, however many runs overlap and whatever fails: a result
\* that run() returns is the one in its job row, and a failure it caught is in the
\* failure log (the writes of the drain's end and of the catch block).
THEOREM JobRowsTellResults ==
  Spec => [](\A r \in Runs : run[r].pc = "release" /\ run[r].outcome # "threw" =>
               /\ job[r] = run[r].outcome
               /\ run[r].caught => logged[r])
<1>1. Init => ThrowInv /\ OwnRecordInv
  BY DEF Init, ThrowInv, Excused, OwnRecordInv, Recorded, Idle
<1>2. OwnRecordInv =>
        \A r \in Runs : run[r].pc = "release" /\ run[r].outcome # "threw" =>
          /\ job[r] = run[r].outcome
          /\ run[r].caught => logged[r]
  BY DEF OwnRecordInv, Recorded
<1>3. TypeInv /\ ThrowInv /\ OwnRecordInv /\ [Next]_vars => OwnRecordInv'
  BY OwnRecordNext
<1> QED
  BY <1>1, <1>2, <1>3, InitType, TypeNext, ThrowNext, PTL DEF Spec

\* The metadata row belongs to all runs: what a run has written there stays for as
\* long as no other run executes.
LEMMA RecordNext ==
  ASSUME TypeInv, OneAtATime, ThrowInv, RecordInv, [Next]_vars
  PROVE  RecordInv'
<1>0. TypeOK
  BY DEF TypeInv
<1>1. ASSUME NEW r \in Runs, Step(r) \/ Crash(r)
      PROVE  RecordInv'
  <2>0. OwnRecordInv
    BY DEF RecordInv, OwnRecordInv, Recorded
  <2>1. Recorded(run'[r], job'[r], logged'[r], status')
    BY <1>1, <2>0, StepRecorded
  <2>2. ASSUME NEW q \in Runs, q # r
        PROVE  Recorded(run'[q], job'[q], logged'[q], status')
    <3>1. run'[q] = run[q] /\ job'[q] = job[q] /\ logged'[q] = logged[q]
      BY <1>0, <1>1, <2>2, OthersUntouched, BooksApart
    <3>2. CASE run[q].pc = "idle"
      BY <3>1, <3>2 DEF Recorded
    <3>3. CASE run[q].pc # "idle"
      <4>1. run[r].pc = "idle"
        BY <2>2, <3>3 DEF OneAtATime, Executing
      <4>2. status' = status
        BY <1>1, <4>1 DEF Step, Crash, TryAcquire, Skip, GetCursor, StartJob, FetchPage,
             FetchError, ClearCursor, PersistBatch, RecordFailure, FinishJob, WriteMetadata,
             ReleaseLock
      <4>3. Recorded(run[q], job[q], logged[q], status)
        BY DEF RecordInv
      <4> QED  BY <3>1, <4>2, <4>3 DEF Recorded
    <3> QED  BY <3>2, <3>3
  <2> QED  BY <2>1, <2>2 DEF RecordInv
<1>2. CASE (\E k \in Keys : Change(k)) \/ UNCHANGED vars
  BY <1>2 DEF Change, vars, database, RecordInv, Recorded
<1> QED  BY <1>1, <1>2 DEF Next

\* As long as no two runs execute at once: a result that run() returns is the one in
\* its job row and in the metadata row, and a failure behind it is in the failure log.
THEOREM RecordedWithoutOverlap == Spec => ([]OneAtATime => []ReportedAsRecorded)
<1>1. Init => ThrowInv /\ RecordInv
  BY DEF Init, ThrowInv, Excused, RecordInv, Recorded, Idle
<1>2. TypeInv /\ OneAtATime /\ ThrowInv /\ RecordInv /\ [Next]_vars => RecordInv'
  BY RecordNext
<1>3. RecordInv => ReportedAsRecorded
  BY DEF RecordInv, Recorded, ReportedAsRecorded
<1> QED
  BY <1>1, <1>2, <1>3, InitType, TypeNext, ThrowNext, PTL DEF Spec

\* The same, by the lock alone, while no lease runs out under its run.
THEOREM ResultsAreOnRecord == ~LeaseCanExpire => (Spec => []ReportedAsRecorded)
BY OneRun, RecordedWithoutOverlap, PTL

=============================================================================
