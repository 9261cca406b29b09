---------------------------- MODULE SyncTrigger ----------------------------
(***************************************************************************)
(* The callers of SyncEngine.runMany: POST /sync/trigger, with or without  *)
(* an Idempotency-Key header (api/http/routes/sync.routes.ts), and the     *)
(* recurring worker job (workers/sync-worker.ts), which is a caller        *)
(* without a key.  One key is modelled, with its row in idempotency_keys;  *)
(* requests with other keys do not meet it.                                *)
(*                                                                         *)
(* A run of one provider either returns a result or, when the database     *)
(* fails under it, throws (module SyncEngine).                             *)
(***************************************************************************)
EXTENDS Naturals, FiniteSets

CONSTANTS
  Callers,           \* concurrent requests and worker jobs
  Keyed,             \* the requests that send the idempotency key
  Workers,           \* the worker jobs
  Deployments,       \* the sets of providers that credentials may be given for
  Filter,            \* provider and entityType in the body of each caller, Every if left out
  MaxThrows,         \* bound: runs that throw
  MaxStorageFaults,  \* bound: failed calls to the key repository
  MaxCrashes         \* bound: process crashes

Providers   == {"hubspot", "google_calendar", "stripe"}
EntityTypes == {"contact", "deal", "event", "payment"}
Every         == "every"

ASSUME CallersAssumption ==
  /\ Keyed \subseteq Callers
  /\ Workers \subseteq Callers \ Keyed
ASSUME DeploymentsAssumption == Deployments \subseteq SUBSET Providers
ASSUME FilterAssumption ==
  Filter \in [Callers -> [provider : Providers \cup {Every}, entityType : EntityTypes \cup {Every}]]
ASSUME BoundsAssumption  == {MaxThrows, MaxStorageFaults, MaxCrashes} \subseteq Nat

VARIABLES
  registered,  \* the registry: (provider, entityType) units that can be synced
  key,         \* status of the row, "absent" without one
  pc,          \* where a caller is in the handler
  left,        \* runMany: how many providers a caller has still to run
  response,    \* the last answer a caller got
  executed,    \* history: how often runMany returned to a keyed request
  faults       \* how many faults of each kind have happened

vars == <<registered, key, pc, left, response, executed, faults>>

\* buildCompositionRoot: a provider without credentials is left out of the registry.
Registry(configured) ==
  {unit \in {<<"hubspot", "contact">>, <<"hubspot", "deal">>,
            <<"google_calendar", "event">>, <<"stripe", "payment">>} : unit[1] \in configured}

\* The registered units that pass the filter of a caller.
Matching(q) ==
  {unit \in registered : /\ Filter[q].provider   \in {Every, unit[1]}
                        /\ Filter[q].entityType \in {Every, unit[2]}}

PCs       == {"idle", "claim", "read", "run", "complete", "release"}
Responses == {"none", "result", "stored", "conflict", "error"}

\* The callers between a successful claim and its completion or release.
Executing == {q \in Keyed : pc[q] \in {"run", "complete", "release"}}

TypeOK ==
  /\ registered \subseteq Providers \X EntityTypes
  /\ key \in {"absent", "claimed", "completed"}
  /\ pc \in [Callers -> PCs]
  /\ left \in [Callers -> Nat] /\ \A q \in Callers : left[q] <= Cardinality(Matching(q))
  /\ response \in [Callers -> Responses]
  /\ executed \in 0 .. MaxStorageFaults + 1
  /\ faults \in [throw : 0 .. MaxThrows, storage : 0 .. MaxStorageFaults,
                 crash : 0 .. MaxCrashes]

Init ==
  /\ \E configured \in Deployments : registered = Registry(configured)
  /\ key = "absent"
  /\ pc = [q \in Callers |-> "idle"]
  /\ left = [q \in Callers |-> 0]
  /\ response = [q \in Callers |-> "none"]
  /\ executed = 0
  /\ faults = [throw |-> 0, storage |-> 0, crash |-> 0]

Goto(q, p) == pc' = [pc EXCEPT ![q] = p]

Respond(q, answer) ==
  /\ Goto(q, "idle")
  /\ response' = [response EXCEPT ![q] = answer]

Fault(kind, bound) ==
  /\ faults[kind] < bound
  /\ faults' = [faults EXCEPT ![kind] = @ + 1]

\* A call to the key repository reports an error, after its write or without it.
StorageFault(written) ==
  /\ Fault("storage", MaxStorageFaults)
  /\ key' \in {key, written}

\* Mutant of StartRun: the filter lets one provider too many through.
StartOneMore(q) == left' = [left EXCEPT ![q] = Cardinality(Matching(q)) + 1]

\* runTrigger: the providers to run, one after the other.
StartRun(q) == left' = [left EXCEPT ![q] = Cardinality(Matching(q))]

(***************************************************************************)
(* The handler                                                             *)
(***************************************************************************)

\* A request arrives, a client repeats one that had no result, or the scheduler
\* ticks again.
Submit(q) ==
  /\ pc[q] = "idle"
  /\ q \in Workers \/ response[q] \notin {"result", "stored"}
  /\ IF q \in Keyed
       THEN Goto(q, "claim") /\ UNCHANGED left
       ELSE Goto(q, "run") /\ StartRun(q)
  /\ UNCHANGED <<key, response, executed, faults>>

\* Mutants of Insertable: no constraint on claimed rows, none on completed ones.
InsertableTwice == key # "completed"
InsertableAgain == key # "claimed"

\* The unique (key, scope) lets the INSERT of claim through.
Insertable == key = "absent"

\* claim: only a violation of the constraint goes on to read the row.
Claim(q) ==
  /\ pc[q] = "claim"
  /\ \/ /\ Insertable
        /\ key' = "claimed"
        /\ Goto(q, "run")
        /\ StartRun(q)
        /\ UNCHANGED <<response, faults>>
     \/ /\ ~Insertable
        /\ Goto(q, "read")
        /\ UNCHANGED <<key, left, response, faults>>
     \/ /\ StorageFault(IF Insertable THEN "claimed" ELSE key)
        /\ Respond(q, "error")
        /\ UNCHANGED left
  /\ UNCHANGED executed

\* findUniqueOrThrow: the row can be gone by now.
AnswerFor(k) ==
  IF k = "completed" THEN "stored" ELSE IF k = "claimed" THEN "conflict" ELSE "error"

ReadKey(q) ==
  /\ pc[q] = "read"
  /\ \/ Respond(q, AnswerFor(key)) /\ UNCHANGED <<key, faults>>
     \/ StorageFault(key) /\ Respond(q, "error")
  /\ UNCHANGED <<left, executed>>

\* Mutant of Throw: the key is not released.
ThrowUnreleased(q) == Respond(q, "error")

\* An exception in the handler: with a key the row is released first.
Throw(q) ==
  IF q \in Keyed
    THEN Goto(q, "release") /\ UNCHANGED response
    ELSE Respond(q, "error")

\* runMany runs the next provider; its last result makes the list complete.
RunProvider(q) ==
  /\ pc[q] = "run"
  /\ left[q] > 0
  /\ left' = [left EXCEPT ![q] = @ - 1]
  /\ IF left[q] > 1
       THEN UNCHANGED <<pc, response, executed>>
     ELSE IF q \in Keyed
       THEN /\ Goto(q, "complete")
            /\ executed' = executed + 1
            /\ UNCHANGED response
       ELSE Respond(q, "result") /\ UNCHANGED executed
  /\ UNCHANGED <<key, faults>>

\* The run of a provider throws: the rest of the list is not run.
RunThrows(q) ==
  /\ pc[q] = "run"
  /\ left[q] > 0
  /\ Fault("throw", MaxThrows)
  /\ left' = [left EXCEPT ![q] = 0]
  /\ Throw(q)
  /\ UNCHANGED <<key, executed>>

\* No provider matches: 404 for a request, an empty result for the worker.
NoProvider(q) ==
  /\ pc[q] = "run"
  /\ left[q] = 0
  /\ IF q \in Workers THEN Respond(q, "result") ELSE Throw(q)
  /\ UNCHANGED <<key, left, executed, faults>>

\* complete is an update: it throws if the row is gone.
Complete(q) ==
  /\ pc[q] = "complete"
  /\ \/ /\ key # "absent"
        /\ key' = "completed"
        /\ Respond(q, "result")
        /\ UNCHANGED faults
     \/ /\ key = "absent"
        /\ Throw(q)
        /\ UNCHANGED <<key, faults>>
     \/ /\ StorageFault(IF key = "absent" THEN key ELSE "completed")
        /\ Throw(q)
  /\ UNCHANGED <<left, executed>>

\* deleteMany, then the error is rethrown to the client either way.
ReleaseKey(q) ==
  /\ pc[q] = "release"
  /\ Respond(q, "error")
  /\ \/ key' = "absent" /\ UNCHANGED faults
     \/ StorageFault("absent")
  /\ UNCHANGED <<left, executed>>

\* The process dies; the client or the scheduler sees an error.
Crash(q) ==
  /\ pc[q] # "idle"
  /\ Fault("crash", MaxCrashes)
  /\ Respond(q, "error")
  /\ left' = [left EXCEPT ![q] = 0]
  /\ UNCHANGED <<key, executed>>

Step(q) ==
  \/ Submit(q)
  \/ Claim(q)
  \/ ReadKey(q)
  \/ RunProvider(q)
  \/ RunThrows(q)
  \/ NoProvider(q)
  \/ Complete(q)
  \/ ReleaseKey(q)

Handler(q) == Step(q) /\ UNCHANGED registered

Next ==
  \/ \E q \in Callers : Handler(q)
  \/ \E q \in Callers : Crash(q) /\ UNCHANGED registered

Spec == Init /\ [][Next]_vars

\* Awaited calls settle and a client repeats a request until it has a result.
FairSpec == Spec /\ \A q \in Callers : WF_vars(Handler(q))

(***************************************************************************)
(* Properties                                                              *)
(***************************************************************************)

\* Of the requests that carry one key at most one executes the sync at a time.
OneExecution == \A p, q \in Executing : p = q

\* The sync behind one key runs to the end once, and again only when a call to
\* the repository failed.
ExecutedOnce == executed <= 1 + faults.storage

\* docs/api.md: the key makes retried client requests safe.  A client that repeats
\* its request ends up with the result, whatever the runs throw, if any registered
\* provider matches its filter.  It may not when a process died or a call to the
\* repository failed while the row was claimed: a claimed row has no lease.
RetryGetsResult ==
  \A q \in Keyed :
    Matching(q) # {} =>
      <>(response[q] \in {"result", "stored"} \/ faults.crash + faults.storage > 0)

=============================================================================
