------------------------ MODULE ExclusionRows_proofs ------------------------
(***************************************************************************)
(* Theorems about the two rows that keep executions apart: the idempotency *)
(* key of SyncTrigger, for any callers, deployments, filters and faults,   *)
(* and the lease of SyncLock, for every finite set of runs and every lease.*)
(***************************************************************************)
EXTENDS SyncTrigger, SyncLock, FiniteSetTheorems, TLAPS

(***************************************************************************)
(* The idempotency key                                                     *)
(***************************************************************************)

KeyStatuses == {"absent", "claimed", "completed"}

FaultCounts == [throw : 0 .. MaxThrows, storage : 0 .. MaxStorageFaults,
                crash : 0 .. MaxCrashes]

\* TypeOK without the bound on executed, which follows from Room.
Types ==
  /\ registered \subseteq Providers \X EntityTypes
  /\ key \in KeyStatuses
  /\ pc \in [Callers -> PCs]
  /\ left \in [Callers -> Nat] /\ \A q \in Callers : left[q] <= Cardinality(Matching(q))
  /\ response \in [Callers -> Responses]
  /\ executed \in Nat
  /\ faults \in FaultCounts

\* The row stands for as long as a request executes behind it.  The converse fails:
\* a claimed row outlives a request that died.
RowStands == Executing # {} => key # "absent"

\* Whoever can still bring the sync to its end has a failed call in hand for every
\* time it has ended before.
Room ==
  /\ executed <= 1 + faults.storage
  /\ \A q \in Executing : pc[q] # "complete" => executed <= faults.storage
  /\ key = "absent" => executed <= faults.storage

\* A caller without the key never comes to the steps that touch the row.
Apart == \A q \in Callers \ Keyed : pc[q] \in {"idle", "run"}

TriggerInv == Types /\ OneExecution /\ RowStands /\ Room /\ Apart

(***************************************************************************)
(* The list of providers and the counters                                  *)
(***************************************************************************)

\* A caller has finitely many providers to run.
LEMMA MatchingCounted ==
  ASSUME registered \subseteq Providers \X EntityTypes, NEW q
  PROVE  Cardinality(Matching(q)) \in Nat
<1>1. IsFiniteSet(Providers) /\ IsFiniteSet(EntityTypes)
  <2>1. IsFiniteSet({"hubspot"}) /\ IsFiniteSet({"contact"})
    BY FS_Singleton
  <2>2. Providers = ({"hubspot"} \cup {"google_calendar"}) \cup {"stripe"}
    BY DEF Providers
  <2>3. EntityTypes = ({"contact"} \cup {"deal"}) \cup ({"event"} \cup {"payment"})
    BY DEF EntityTypes
  <2> QED
    BY <2>2, <2>3, FS_Singleton, FS_Union
<1>2. IsFiniteSet(Providers \X EntityTypes)
  BY <1>1, FS_Product
<1>3. Matching(q) \subseteq Providers \X EntityTypes
  BY DEF Matching
<1>4. IsFiniteSet(Matching(q))
  BY <1>2, <1>3, FS_Subset
<1> QED
  BY <1>4, FS_CardinalityType

LEMMA MatchingKept ==
  ASSUME UNCHANGED registered, NEW q
  PROVE  Matching(q)' = Matching(q)
  BY DEF Matching

\* Where the list of a caller starts and ends.
LEMMA LeftTyped ==
  ASSUME Types, NEW q \in Callers, UNCHANGED registered,
         \/ UNCHANGED left
         \/ StartRun(q)
         \/ left' = [left EXCEPT ![q] = 0]
         \/ left[q] > 0 /\ left' = [left EXCEPT ![q] = @ - 1]
  PROVE  left' \in [Callers -> Nat] /\ \A c \in Callers : left'[c] <= Cardinality(Matching(c)')
<1>1. \A c \in Callers : /\ left[c] \in Nat /\ left[c] <= Cardinality(Matching(c))
                         /\ Cardinality(Matching(c)) \in Nat
  BY MatchingCounted DEF Types
<1>2. \A c \in Callers : Cardinality(Matching(c)') = Cardinality(Matching(c))
  BY MatchingKept
<1>3. ASSUME NEW n \in Nat, n <= Cardinality(Matching(q)), left' = [left EXCEPT ![q] = n]
      PROVE  /\ left' \in [Callers -> Nat]
             /\ \A c \in Callers : left'[c] <= Cardinality(Matching(c)')
  BY <1>1, <1>2, <1>3 DEF Types
<1>4. CASE UNCHANGED left
  <2>1. left' = [left EXCEPT ![q] = left[q]]
    BY <1>4 DEF Types
  <2> QED
    BY <1>1, <1>3, <2>1
<1>5. CASE StartRun(q)
  <2>1. left' = [left EXCEPT ![q] = Cardinality(Matching(q))]
    BY <1>5 DEF StartRun
  <2>2. Cardinality(Matching(q)) \in Nat /\ Cardinality(Matching(q)) <= Cardinality(Matching(q))
    BY <1>1
  <2> QED
    BY <1>3, <2>1, <2>2
<1>6. CASE left' = [left EXCEPT ![q] = 0]
  <2>1. 0 <= Cardinality(Matching(q))
    BY <1>1
  <2> QED
    BY <1>3, <1>6, <2>1
<1>7. CASE left[q] > 0 /\ left' = [left EXCEPT ![q] = @ - 1]
  <2>1. left[q] - 1 \in Nat /\ left[q] - 1 <= Cardinality(Matching(q))
    BY <1>1, <1>7
  <2> QED
    BY <1>3, <1>7, <2>1
<1> QED
  BY <1>4, <1>5, <1>6, <1>7

LEMMA StorageFaultCounts ==
  ASSUME Types, NEW written \in KeyStatuses, StorageFault(written)
  PROVE  /\ faults' \in FaultCounts /\ faults'.storage = faults.storage + 1
         /\ key' \in {key, written}
<1>1. MaxStorageFaults \in Nat
  BY BoundsAssumption
<1>2. faults.storage + 1 \in 0 .. MaxStorageFaults
  BY <1>1 DEF Types, FaultCounts, StorageFault, Fault
<1>3. faults' = [faults EXCEPT !.storage = faults.storage + 1]
  BY DEF StorageFault, Fault
<1> QED
  BY <1>2, <1>3 DEF Types, FaultCounts, StorageFault

LEMMA OtherFaultCounts ==
  ASSUME Types, Fault("throw", MaxThrows) \/ Fault("crash", MaxCrashes)
  PROVE  faults' \in FaultCounts /\ faults'.storage = faults.storage
<1>1. MaxThrows \in Nat /\ MaxCrashes \in Nat
  BY BoundsAssumption
<1>2. CASE Fault("throw", MaxThrows)
  <2>1. faults.throw + 1 \in 0 .. MaxThrows
    BY <1>1, <1>2 DEF Types, FaultCounts, Fault
  <2>2. faults' = [faults EXCEPT !.throw = faults.throw + 1]
    BY <1>2 DEF Fault
  <2> QED
    BY <2>1, <2>2 DEF Types, FaultCounts
<1>3. CASE Fault("crash", MaxCrashes)
  <2>1. faults.crash + 1 \in 0 .. MaxCrashes
    BY <1>1, <1>3 DEF Types, FaultCounts, Fault
  <2>2. faults' = [faults EXCEPT !.crash = faults.crash + 1]
    BY <1>3 DEF Fault
  <2> QED
    BY <2>1, <2>2 DEF Types, FaultCounts
<1> QED
  BY <1>2, <1>3

(***************************************************************************)
(* Steps                                                                   *)
(***************************************************************************)

LEMMA TriggerInit == Init => TriggerInv
<1> SUFFICES ASSUME Init PROVE TriggerInv
  OBVIOUS
<1>1. registered \subseteq Providers \X EntityTypes
  BY DEF Init, Registry, Providers, EntityTypes
<1>2. \A q \in Callers : left[q] <= Cardinality(Matching(q))
  BY <1>1, MatchingCounted DEF Init
<1>3. faults \in FaultCounts
  BY BoundsAssumption DEF Init, FaultCounts
<1>4. Types
  BY <1>1, <1>2, <1>3 DEF Init, Types, KeyStatuses, PCs, Responses
<1>5. Executing = {}
  BY CallersAssumption DEF Init, Executing
<1> QED
  BY <1>4, <1>5 DEF Init, TriggerInv, OneExecution, RowStands, Room, Apart

\* What a step of caller q must and must not do to the row and to the history.
LEMMA MoveKeeps ==
  ASSUME TriggerInv, NEW q \in Callers, NEW p \in PCs, Goto(q, p),
         q \in Keyed \/ p \in {"idle", "run"},
         key' \in KeyStatuses, response' \in [Callers -> Responses],
         left' \in [Callers -> Nat], \A c \in Callers : left'[c] <= Cardinality(Matching(c)'),
         faults' \in FaultCounts, faults.storage <= faults'.storage,
         UNCHANGED registered,
         NEW in, in = (q \in Keyed /\ p \in {"run", "complete", "release"}),
         in => key' # "absent" /\ (q \in Executing \/ key = "absent"),
         key' = "absent" => key = "absent" \/ q \in Executing,
         executed' \in Nat, executed' # executed => q \in Executing,
         executed' <= 1 + faults'.storage,
         in /\ p # "complete" => executed' <= faults'.storage,
         key' = "absent" => executed' <= faults'.storage
  PROVE  TriggerInv'
<1> USE DEF TriggerInv
<1>1. Types'
  BY DEF Types, Goto
<1>2. pc'[q] = p /\ \A c \in Callers \ {q} : pc'[c] = pc[c]
  BY DEF Goto, Types
<1>3. q \in Executing' <=> in
  BY <1>2 DEF Executing
<1>4. \A c \in Executing' \ {q} : c \in Executing /\ pc'[c] = pc[c]
  BY <1>2, CallersAssumption DEF Executing
<1>5. \A c \in Executing' \ {q} : ~in /\ q \notin Executing /\ key # "absent"
  BY <1>4 DEF OneExecution, RowStands
<1>6. OneExecution'
  BY <1>3, <1>4, <1>5 DEF OneExecution
<1>7. RowStands'
  BY <1>3, <1>5 DEF RowStands
<1>8. ASSUME NEW c \in Executing', pc'[c] # "complete"
      PROVE  executed' <= faults'.storage
  <2>1. CASE c = q
    BY <1>2, <1>3, <1>8, <2>1
  <2>2. CASE c # q
    <3>1. executed' = executed /\ executed <= faults.storage
      BY <1>4, <1>5, <1>8, <2>2 DEF Room
    <3> QED
      BY <3>1 DEF Types, FaultCounts
  <2> QED
    BY <2>1, <2>2
<1>9. Room'
  BY <1>8 DEF Room
<1>10. Apart'
  BY <1>2 DEF Apart
<1> QED
  BY <1>1, <1>6, <1>7, <1>9, <1>10

\* A step of q that leaves the row and the history alone and does not begin to
\* execute behind the key.
LEMMA QuietKeeps ==
  ASSUME TriggerInv, NEW q \in Callers, NEW p \in PCs, Goto(q, p),
         q \in Keyed \/ p \in {"idle", "run"},
         response' \in [Callers -> Responses],
         left' \in [Callers -> Nat], \A c \in Callers : left'[c] <= Cardinality(Matching(c)'),
         faults' \in FaultCounts, faults.storage <= faults'.storage,
         UNCHANGED <<registered, key, executed>>,
         q \in Keyed /\ p \in {"run", "complete", "release"} =>
           q \in Executing /\ (p # "complete" => executed <= faults.storage)
  PROVE  TriggerInv'
<1> DEFINE in == q \in Keyed /\ p \in {"run", "complete", "release"}
<1>1. Types /\ RowStands /\ Room
  BY DEF TriggerInv
<1>2. executed \in Nat /\ faults.storage \in Nat /\ faults'.storage \in Nat
  BY <1>1 DEF Types, FaultCounts
<1>3. executed' <= 1 + faults'.storage /\ (key' = "absent" => executed' <= faults'.storage)
  BY <1>1, <1>2 DEF Room
<1>4. key' \in KeyStatuses
  BY <1>1 DEF Types
<1>5. in => key' # "absent" /\ (q \in Executing \/ key = "absent")
  BY <1>1 DEF RowStands
<1>6. in /\ p # "complete" => executed' <= faults'.storage
  BY <1>2
<1>7. /\ key' = "absent" => key = "absent" \/ q \in Executing
      /\ executed' # executed => q \in Executing
      /\ executed' \in Nat
  BY <1>2
<1> HIDE DEF in
<1>8. in = (q \in Keyed /\ p \in {"run", "complete", "release"})
  BY DEF in
<1> QED
  BY <1>3, <1>4, <1>5, <1>6, <1>7, <1>8, MoveKeeps

LEMMA AnswersTyped ==
  ASSUME Types, NEW q \in Callers, NEW answer \in Responses, Respond(q, answer)
  PROVE  response' \in [Callers -> Responses]
  BY DEF Types, Respond

LEMMA SubmitKeeps ==
  ASSUME TriggerInv, NEW q \in Callers, Submit(q), UNCHANGED registered
  PROVE  TriggerInv'
<1>1. Types
  BY DEF TriggerInv
<1>2. UNCHANGED <<key, response, executed, faults>>
  BY DEF Submit
<1>3. PICK p \in {"claim", "run"} : Goto(q, p) /\ (p = "run" <=> q \notin Keyed)
  BY DEF Submit
<1>4. left' \in [Callers -> Nat] /\ \A c \in Callers : left'[c] <= Cardinality(Matching(c)')
  BY <1>1, LeftTyped DEF Submit
<1>5. p \in PCs
  BY DEF PCs
<1>6. /\ response' \in [Callers -> Responses]
      /\ faults' \in FaultCounts /\ faults.storage <= faults'.storage
  BY <1>1, <1>2 DEF Types, FaultCounts
<1> QED
  BY <1>2, <1>3, <1>4, <1>5, <1>6, QuietKeeps

\* Only an absent row lets a request in, and behind an absent row nobody executes.
LEMMA ClaimKeeps ==
  ASSUME TriggerInv, NEW q \in Callers, Claim(q), UNCHANGED registered
  PROVE  TriggerInv'
<1>1. Types /\ Room /\ executed \in Nat /\ faults.storage \in Nat
  BY DEF TriggerInv, Types, FaultCounts
<1>2. executed' = executed /\ (UNCHANGED left \/ StartRun(q)) /\ q \in Keyed
  BY DEF Claim, TriggerInv, Apart
<1>3. left' \in [Callers -> Nat] /\ \A c \in Callers : left'[c] <= Cardinality(Matching(c)')
  BY <1>1, <1>2, LeftTyped
<1>4. CASE /\ Insertable /\ key' = "claimed" /\ Goto(q, "run")
           /\ UNCHANGED <<response, faults>>
  <2>1. key = "absent" /\ executed <= faults.storage
    BY <1>1, <1>4 DEF Insertable, Room
  <2>2. "run" \in PCs /\ key' \in KeyStatuses /\ key' # "absent"
    BY <1>4 DEF PCs, KeyStatuses
  <2>3. response' \in [Callers -> Responses] /\ faults' \in FaultCounts
    BY <1>1, <1>4 DEF Types
  <2>4. /\ faults.storage <= faults'.storage /\ executed' \in Nat
        /\ executed' <= faults'.storage /\ executed' <= 1 + faults'.storage
    BY <1>1, <1>2, <1>4, <2>1
  <2> QED
    BY <1>2, <1>3, <1>4, <2>1, <2>2, <2>3, <2>4, MoveKeeps
<1>5. CASE ~Insertable /\ Goto(q, "read") /\ UNCHANGED <<key, left, response, faults>>
  <2>1. /\ "read" \in PCs /\ response' \in [Callers -> Responses]
        /\ faults' \in FaultCounts /\ faults.storage <= faults'.storage
    BY <1>1, <1>5 DEF PCs, Types
  <2> QED
    BY <1>2, <1>3, <1>5, <2>1, QuietKeeps
<1>6. CASE StorageFault(IF Insertable THEN "claimed" ELSE key) /\ Respond(q, "error")
  <2>1. (IF Insertable THEN "claimed" ELSE key) \in KeyStatuses
    BY <1>1 DEF Types, KeyStatuses
  <2>2. /\ faults' \in FaultCounts /\ faults'.storage = faults.storage + 1
        /\ key' \in {key, IF Insertable THEN "claimed" ELSE key}
    BY <1>1, <1>6, <2>1, StorageFaultCounts
  <2>3. key' \in KeyStatuses /\ (key' = "absent" => key = "absent")
    BY <1>1, <2>1, <2>2 DEF Types
  <2>4. response' \in [Callers -> Responses] /\ Goto(q, "idle") /\ "idle" \in PCs
    BY <1>1, <1>6, AnswersTyped DEF Respond, Responses, PCs
  <2>5. /\ executed' \in Nat /\ faults.storage <= faults'.storage
        /\ executed' <= 1 + faults'.storage
        /\ key' = "absent" => executed' <= faults'.storage
    BY <1>1, <1>2, <2>2, <2>3 DEF Room
  <2> QED
    BY <1>2, <1>3, <2>2, <2>3, <2>4, <2>5, MoveKeeps
<1> QED
  BY <1>4, <1>5, <1>6 DEF Claim

LEMMA ReadKeyKeeps ==
  ASSUME TriggerInv, NEW q \in Callers, ReadKey(q), UNCHANGED registered
  PROVE  TriggerInv'
<1>1. Types
  BY DEF TriggerInv
<1>2. UNCHANGED <<left, executed>>
  BY DEF ReadKey
<1>3. left' \in [Callers -> Nat] /\ \A c \in Callers : left'[c] <= Cardinality(Matching(c)')
  BY <1>1, <1>2, LeftTyped
<1>4. PICK answer \in Responses : Respond(q, answer)
  BY DEF ReadKey, AnswerFor, Responses
<1>5. response' \in [Callers -> Responses] /\ Goto(q, "idle") /\ "idle" \in PCs
  BY <1>1, <1>4, AnswersTyped DEF Respond, PCs
<1>6. key' = key /\ faults' \in FaultCounts /\ faults.storage <= faults'.storage
  <2>1. CASE StorageFault(key)
    <3>1. /\ faults' \in FaultCounts /\ faults'.storage = faults.storage + 1
          /\ key' \in {key, key}
      BY <1>1, <2>1, StorageFaultCounts DEF Types
    <3> QED
      BY <1>1, <3>1 DEF Types, FaultCounts
  <2>2. CASE UNCHANGED <<key, faults>>
    BY <1>1, <2>2 DEF Types, FaultCounts
  <2> QED
    BY <2>1, <2>2 DEF ReadKey
<1> QED
  BY <1>2, <1>3, <1>5, <1>6, QuietKeeps

\* A run that ends is that of the only request that executes.
LEMMA RunProviderKeeps ==
  ASSUME TriggerInv, NEW q \in Callers, RunProvider(q), UNCHANGED registered
  PROVE  TriggerInv'
<1>1. Types /\ RowStands /\ Room /\ executed \in Nat /\ faults.storage \in Nat
  BY DEF TriggerInv, Types, FaultCounts
<1>2. /\ pc[q] = "run" /\ UNCHANGED <<key, faults>>
      /\ left[q] > 0 /\ left' = [left EXCEPT ![q] = @ - 1]
  BY DEF RunProvider
<1>3. left' \in [Callers -> Nat] /\ \A c \in Callers : left'[c] <= Cardinality(Matching(c)')
  BY <1>1, <1>2, LeftTyped
<1>4. key' \in KeyStatuses /\ faults' \in FaultCounts /\ faults.storage <= faults'.storage
  BY <1>1, <1>2 DEF Types
<1>5. q \in Keyed => q \in Executing /\ key # "absent" /\ executed <= faults.storage
  BY <1>1, <1>2 DEF Executing, RowStands, Room
<1>6. CASE UNCHANGED <<pc, response, executed>>
  <2>1. Goto(q, "run") /\ "run" \in PCs
    BY <1>1, <1>2, <1>6 DEF Goto, Types, PCs
  <2>2. response' \in [Callers -> Responses]
    BY <1>1, <1>6 DEF Types
  <2> QED
    BY <1>2, <1>3, <1>4, <1>5, <1>6, <2>1, <2>2, QuietKeeps
<1>7. CASE q \in Keyed /\ Goto(q, "complete") /\ executed' = executed + 1 /\ UNCHANGED response
  <2>1. "complete" \in PCs /\ response' \in [Callers -> Responses]
    BY <1>1, <1>7 DEF Types, PCs
  <2>2. executed' \in Nat /\ executed' <= 1 + faults'.storage
    BY <1>1, <1>2, <1>5, <1>7
  <2>3. key' # "absent" /\ q \in Executing
    BY <1>2, <1>5, <1>7
  <2> QED
    BY <1>3, <1>4, <1>7, <2>1, <2>2, <2>3, MoveKeeps
<1>8. CASE Respond(q, "result") /\ UNCHANGED executed
  <2>1. response' \in [Callers -> Responses] /\ Goto(q, "idle") /\ "idle" \in PCs
    BY <1>1, <1>8, AnswersTyped DEF Respond, Responses, PCs
  <2> QED
    BY <1>2, <1>3, <1>4, <1>8, <2>1, QuietKeeps
<1> QED
  BY <1>6, <1>7, <1>8 DEF RunProvider

\* An exception leads a request with a key to the release of it.
LEMMA ThrowKeeps ==
  ASSUME TriggerInv, NEW q \in Callers, Throw(q),
         left' \in [Callers -> Nat], \A c \in Callers : left'[c] <= Cardinality(Matching(c)'),
         faults' \in FaultCounts, faults.storage <= faults'.storage,
         UNCHANGED <<registered, key, executed>>,
         q \in Keyed => q \in Executing /\ executed <= faults.storage
  PROVE  TriggerInv'
<1>1. Types
  BY DEF TriggerInv
<1>2. CASE q \in Keyed
  <2>1. Goto(q, "release") /\ "release" \in PCs
    BY <1>2 DEF Throw, PCs
  <2>2. response' \in [Callers -> Responses]
    BY <1>1, <1>2 DEF Throw, Types
  <2> QED
    BY <1>2, <2>1, <2>2, QuietKeeps
<1>3. CASE q \notin Keyed
  <2>1. Respond(q, "error") /\ "error" \in Responses
    BY <1>3 DEF Throw, Responses
  <2>2. response' \in [Callers -> Responses] /\ Goto(q, "idle") /\ "idle" \in PCs
    BY <1>1, <2>1, AnswersTyped DEF Respond, PCs
  <2> QED
    BY <1>3, <2>2, QuietKeeps
<1> QED
  BY <1>2, <1>3

LEMMA RunThrowsKeeps ==
  ASSUME TriggerInv, NEW q \in Callers, RunThrows(q), UNCHANGED registered
  PROVE  TriggerInv'
<1>1. Types /\ Room
  BY DEF TriggerInv
<1>2. left' \in [Callers -> Nat] /\ \A c \in Callers : left'[c] <= Cardinality(Matching(c)')
  BY <1>1, LeftTyped DEF RunThrows
<1>3. faults' \in FaultCounts /\ faults'.storage = faults.storage
  BY <1>1, OtherFaultCounts DEF RunThrows
<1>4. faults.storage <= faults'.storage
  BY <1>1, <1>3 DEF Types, FaultCounts
<1>5. q \in Keyed => q \in Executing /\ executed <= faults.storage
  BY <1>1 DEF RunThrows, Executing, Room
<1>6. Throw(q) /\ UNCHANGED <<registered, key, executed>>
  BY DEF RunThrows
<1> QED
  BY <1>2, <1>3, <1>4, <1>5, <1>6, ThrowKeeps

LEMMA NoProviderKeeps ==
  ASSUME TriggerInv, NEW q \in Callers, NoProvider(q), UNCHANGED registered
  PROVE  TriggerInv'
<1>1. Types /\ Room
  BY DEF TriggerInv
<1>2. UNCHANGED <<registered, key, left, executed, faults>>
  BY DEF NoProvider
<1>3. left' \in [Callers -> Nat] /\ \A c \in Callers : left'[c] <= Cardinality(Matching(c)')
  BY <1>1, <1>2, LeftTyped
<1>4. faults' \in FaultCounts /\ faults.storage <= faults'.storage
  BY <1>1, <1>2 DEF Types, FaultCounts
<1>5. q \in Keyed => q \in Executing /\ executed <= faults.storage
  BY <1>1 DEF NoProvider, Executing, Room
<1>6. CASE Throw(q)
  BY <1>2, <1>3, <1>4, <1>5, <1>6, ThrowKeeps
<1>7. CASE q \in Workers /\ Respond(q, "result")
  <2>1. response' \in [Callers -> Responses] /\ Goto(q, "idle") /\ "idle" \in PCs
    BY <1>1, <1>7, AnswersTyped DEF Respond, Responses, PCs
  <2> QED
    BY <1>2, <1>3, <1>4, <2>1, QuietKeeps
<1> QED
  BY <1>6, <1>7 DEF NoProvider

\* A completion that fails has used up one of the failed calls.
LEMMA CompleteKeeps ==
  ASSUME TriggerInv, NEW q \in Callers, Complete(q), UNCHANGED registered
  PROVE  TriggerInv'
<1>1. Types /\ RowStands /\ Room /\ executed \in Nat /\ faults.storage \in Nat
  BY DEF TriggerInv, Types, FaultCounts
<1>2. pc[q] = "complete" /\ UNCHANGED <<left, executed>>
  BY DEF Complete
<1>3. q \in Keyed /\ q \in Executing /\ key # "absent"
  BY <1>1, <1>2 DEF TriggerInv, Apart, Executing, RowStands
<1>4. left' \in [Callers -> Nat] /\ \A c \in Callers : left'[c] <= Cardinality(Matching(c)')
  BY <1>1, <1>2, LeftTyped
<1>5. executed' = executed /\ executed <= 1 + faults.storage
  BY <1>1, <1>2 DEF Room
<1>6. "completed" \in KeyStatuses /\ "error" \in Responses /\ "result" \in Responses
  BY DEF KeyStatuses, Responses
<1>7. CASE key' = "completed" /\ Respond(q, "result") /\ UNCHANGED faults
  <2>1. response' \in [Callers -> Responses] /\ Goto(q, "idle") /\ "idle" \in PCs
    BY <1>1, <1>6, <1>7, AnswersTyped DEF Respond, PCs
  <2>2. /\ faults' \in FaultCounts /\ faults.storage <= faults'.storage
        /\ executed' \in Nat /\ executed' <= 1 + faults'.storage
    BY <1>1, <1>5, <1>7 DEF Types
  <2> QED
    BY <1>3, <1>4, <1>5, <1>6, <1>7, <2>1, <2>2, MoveKeeps
<1>8. CASE StorageFault("completed") /\ Throw(q)
  <2>1. /\ faults' \in FaultCounts /\ faults'.storage = faults.storage + 1
        /\ key' \in {key, "completed"}
    BY <1>1, <1>6, <1>8, StorageFaultCounts
  <2>2. Goto(q, "release") /\ "release" \in PCs
    BY <1>3, <1>8 DEF Throw, PCs
  <2>3. response' \in [Callers -> Responses]
    BY <1>1, <1>3, <1>8 DEF Throw, Types
  <2>4. /\ faults.storage <= faults'.storage /\ executed' \in Nat
        /\ executed' <= faults'.storage /\ executed' <= 1 + faults'.storage
    BY <1>1, <1>5, <2>1
  <2>5. key' \in KeyStatuses /\ key' # "absent"
    BY <1>1, <1>3, <1>6, <2>1 DEF Types
  <2> QED
    BY <1>3, <1>4, <1>5, <2>1, <2>2, <2>3, <2>4, <2>5, MoveKeeps
<1> QED
  BY <1>3, <1>7, <1>8 DEF Complete

\* The row that is deleted is that of the only request that executes.
LEMMA ReleaseKeeps ==
  ASSUME TriggerInv, NEW q \in Callers, ReleaseKey(q), UNCHANGED registered
  PROVE  TriggerInv'
<1>1. Types /\ Room /\ executed \in Nat /\ faults.storage \in Nat
  BY DEF TriggerInv, Types, FaultCounts
<1>2. pc[q] = "release" /\ Respond(q, "error") /\ UNCHANGED <<left, executed>>
  BY DEF ReleaseKey
<1>3. q \in Keyed /\ q \in Executing
  BY <1>2 DEF TriggerInv, Apart, Executing
<1>4. left' \in [Callers -> Nat] /\ \A c \in Callers : left'[c] <= Cardinality(Matching(c)')
  BY <1>1, <1>2, LeftTyped
<1>5. response' \in [Callers -> Responses] /\ Goto(q, "idle") /\ "idle" \in PCs
  BY <1>1, <1>2, AnswersTyped DEF Respond, Responses, PCs
<1>6. executed' = executed /\ executed <= faults.storage
  BY <1>1, <1>2, <1>3 DEF Room
<1>7. key' \in KeyStatuses /\ faults' \in FaultCounts /\ faults.storage <= faults'.storage
  <2>1. CASE key' = "absent" /\ UNCHANGED faults
    BY <1>1, <2>1 DEF Types, KeyStatuses
  <2>2. CASE StorageFault("absent")
    <3>1. /\ faults' \in FaultCounts /\ faults'.storage = faults.storage + 1
          /\ key' \in {key, "absent"}
      BY <1>1, <2>2, StorageFaultCounts DEF KeyStatuses
    <3> QED
      BY <1>1, <3>1 DEF Types, KeyStatuses
  <2> QED
    BY <2>1, <2>2 DEF ReleaseKey
<1>8. executed' \in Nat /\ executed' <= faults'.storage /\ executed' <= 1 + faults'.storage
  BY <1>1, <1>6, <1>7 DEF FaultCounts
<1> QED
  BY <1>3, <1>4, <1>5, <1>6, <1>7, <1>8, MoveKeeps

\* A request that dies leaves the row as it is.
LEMMA CrashKeeps ==
  ASSUME TriggerInv, NEW q \in Callers, Crash(q), UNCHANGED registered
  PROVE  TriggerInv'
<1>1. Types
  BY DEF TriggerInv
<1>2. left' \in [Callers -> Nat] /\ \A c \in Callers : left'[c] <= Cardinality(Matching(c)')
  BY <1>1, LeftTyped DEF Crash
<1>3. faults' \in FaultCounts /\ faults'.storage = faults.storage
  BY <1>1, OtherFaultCounts DEF Crash
<1>4. faults.storage <= faults'.storage
  BY <1>1, <1>3 DEF Types, FaultCounts
<1>5. response' \in [Callers -> Responses] /\ Goto(q, "idle") /\ "idle" \in PCs
  BY <1>1, AnswersTyped DEF Crash, Respond, Responses, PCs
<1>6. UNCHANGED <<key, executed>>
  BY DEF Crash
<1> QED
  BY <1>2, <1>3, <1>4, <1>5, <1>6, QuietKeeps

\* No step of a request, of the worker or of a crash breaks the invariant.
LEMMA TriggerNext == TriggerInv /\ [Next]_vars => TriggerInv'
<1> SUFFICES ASSUME TriggerInv, [Next]_vars PROVE TriggerInv'
  OBVIOUS
<1>1. ASSUME NEW q \in Callers, Handler(q)
      PROVE  TriggerInv'
  BY <1>1, SubmitKeeps, ClaimKeeps, ReadKeyKeeps, RunProviderKeeps, RunThrowsKeeps,
     NoProviderKeeps, CompleteKeeps, ReleaseKeeps DEF Handler, Step
<1>2. ASSUME NEW q \in Callers, Crash(q) /\ UNCHANGED registered
      PROVE  TriggerInv'
  BY <1>2, CrashKeeps
<1>3. CASE UNCHANGED vars
  <2>1. \A c : Matching(c)' = Matching(c)
    BY <1>3, MatchingKept DEF vars
  <2> QED
    BY <1>3, <2>1 DEF vars, TriggerInv, Types, OneExecution, RowStands, Room, Apart, Executing
<1> QED
  BY <1>1, <1>2, <1>3 DEF Next

\* Hence it holds in every reachable state.
LEMMA TriggerInvHolds == Spec => []TriggerInv
  BY TriggerInit, TriggerNext, PTL DEF Spec

(***************************************************************************)
(* Theorems                                                                *)
(***************************************************************************)

\* For any callers, deployments, filters and faults: the handler, runMany and the key
\* row stay within their types, and a caller has never more providers left than
\* match its filter (sync.routes.ts, sync-worker.ts).
THEOREM TypeCorrect == Spec => []TypeOK
<1>1. TriggerInv => TypeOK
  <2> SUFFICES ASSUME TriggerInv PROVE TypeOK
    OBVIOUS
  <2>1. Types /\ Room /\ MaxStorageFaults \in Nat
    BY BoundsAssumption DEF TriggerInv
  <2>2. executed \in Nat /\ faults.storage \in 0 .. MaxStorageFaults
    BY <2>1 DEF Types, FaultCounts
  <2>3. executed \in 0 .. MaxStorageFaults + 1
    BY <2>1, <2>2 DEF Room
  <2> QED
    BY <2>1, <2>3 DEF Types, TypeOK, KeyStatuses, FaultCounts
<1> QED
  BY <1>1, TriggerInvHolds, PTL

\* For any number of requests with the key, with crashes and failed calls at any
\* point: two of them never execute the sync at once (the unique constraint behind
\* claim, and a release only by the request that claimed).
THEOREM KeyExcludes == Spec => []OneExecution
<1>1. TriggerInv => OneExecution
  BY DEF TriggerInv
<1> QED
  BY <1>1, TriggerInvHolds, PTL

\* For any number of retries: the sync behind the key ends once, and once more at
\* most for each failed call to the key repository.
THEOREM RetriesAreSafe == Spec => []ExecutedOnce
<1>1. TriggerInv => ExecutedOnce
  BY DEF TriggerInv, Room, ExecutedOnce
<1> QED
  BY <1>1, TriggerInvHolds, PTL

(***************************************************************************)
(* The lease lock                                                          *)
(***************************************************************************)

USE RunsAssumption, LeaseAssumption DEF RunsAssumption, LeaseAssumption

\* The types of the row, of the runs and of the history.
LockTypeOK ==
  /\ held \in BOOLEAN
  /\ rowAge \in Ages
  /\ active \subseteq Runs
  /\ age \in [Runs -> Ages]
  /\ writer \in Runs
  /\ lateReleases \in 0 .. Cardinality(Runs)
  /\ overran \in BOOLEAN

\* TryAcquire, Release, EndWithoutRelease and Tick keep the state well typed.
LEMMA LockTypeInitNext == (LockInit => LockTypeOK) /\ (LockTypeOK /\ [LockNext]_lockVars => LockTypeOK')
<1>1. ASSUME LockInit
      PROVE  LockTypeOK
  <2>1. Cardinality(Runs) \in Nat
    BY FS_CardinalityType
  <2>2. [r \in Runs |-> 0] \in [Runs -> Ages]
    BY DEF Ages
  <2>3. rowAge \in Ages /\ lateReleases \in 0 .. Cardinality(Runs)
    BY <1>1, <2>1 DEF LockInit, Ages
  <2>4. held \in BOOLEAN /\ active \subseteq Runs /\ writer \in Runs
    BY <1>1 DEF LockInit
  <2> QED  BY <1>1, <2>2, <2>3, <2>4 DEF LockInit, LockTypeOK
<1>2. ASSUME LockTypeOK, [LockNext]_lockVars
      PROVE  LockTypeOK'
  <2> USE <1>2 DEF LockTypeOK
  <2>0. Cardinality(Runs) \in Nat
    BY FS_CardinalityType
  <2>1. ASSUME NEW r \in Runs, TryAcquire(r)
        PROVE  LockTypeOK'
    BY <2>1 DEF TryAcquire, Ages
  <2>2. ASSUME NEW r \in Runs, Release(r)
        PROVE  LockTypeOK'
    <3>1. lateReleases' \in 0 .. Cardinality(Runs)
      BY <2>0, <2>2 DEF Release, CountLate
    <3> QED  BY <2>2, <3>1 DEF Release
  <2>3. ASSUME NEW r \in Runs, EndWithoutRelease(r)
        PROVE  LockTypeOK'
    BY <2>3 DEF EndWithoutRelease
  <2>4. ASSUME Tick
        PROVE  LockTypeOK'
    <3>1. \A a \in Ages : Older(a) \in Ages
      BY DEF Older, Expired, Ages
    <3> QED  BY <2>4, <3>1 DEF Tick
  <2>5. CASE UNCHANGED lockVars
    BY <2>5 DEF lockVars
  <2> QED  BY <1>2, <2>1, <2>2, <2>3, <2>4, <2>5 DEF LockNext
<1> QED  BY <1>1, <1>2

-----------------------------------------------------------------------------
\* The row is at least as young as every run inside its lease: it is written
\* by the latest acquisition.
RowYoungest == held => \A r \in InLease : rowAge <= age[r]

\* OverlapBounded counts a live row as one more run that may be inside its
\* lease: without it a takeover could not be shown to preserve the bound.
RowCounted ==
  Cardinality(InLease) <= lateReleases + (IF RowLive THEN 1 ELSE 0)

OverlapInv == LockTypeOK /\ RowYoungest /\ RowCounted

\* The runs inside their lease form a finite set no larger than Runs.
LEMMA InLeaseFinite ==
  ASSUME LockTypeOK
  PROVE  /\ InLease \subseteq Runs
         /\ IsFiniteSet(InLease)
         /\ Cardinality(InLease) \in Nat
         /\ Cardinality(InLease) <= Cardinality(Runs)
         /\ Cardinality(Runs) \in Nat
<1>1. InLease \subseteq Runs
  BY DEF InLease, LockTypeOK
<1> QED  BY <1>1, FS_Subset, FS_CardinalityType

\* When the runs inside their lease become fewer, so does their number.
LEMMA InLeaseShrinks ==
  ASSUME LockTypeOK, InLease' \subseteq InLease
  PROVE  Cardinality(InLease') \in Nat /\ Cardinality(InLease') <= Cardinality(InLease)
BY InLeaseFinite, FS_Subset, FS_CardinalityType

\* Every operation of the lock keeps the bound on overlapping leases.
LEMMA OverlapInvNext == OverlapInv /\ [LockNext]_lockVars => OverlapInv'
<1> SUFFICES ASSUME OverlapInv, [LockNext]_lockVars
             PROVE  OverlapInv'
  OBVIOUS
<1> USE DEF OverlapInv
<1>0. LockTypeOK'
  BY LockTypeInitNext
<1>1. ASSUME NEW r \in Runs, TryAcquire(r)
      PROVE  RowYoungest' /\ RowCounted'
  <2>1. InLease' = InLease \cup {r}
    BY <1>1 DEF TryAcquire, InLease, LockTypeOK, Ages, Expired
  <2>2. RowYoungest'
    BY <1>0, <1>1 DEF TryAcquire, RowYoungest, InLease, LockTypeOK, Ages
  <2>3. r \notin InLease
    BY <1>1 DEF TryAcquire, InLease
  <2>4. Cardinality(InLease') = Cardinality(InLease) + 1
    BY <2>1, <2>3, InLeaseFinite, FS_AddElement
  <2>5. Cardinality(InLease) <= lateReleases
    BY <1>1, InLeaseFinite DEF TryAcquire, Acquirable, RowCounted, RowLive, LockTypeOK
  <2>6. RowLive' /\ lateReleases' = lateReleases
    BY <1>1 DEF TryAcquire, RowLive, Expired
  <2>7. RowCounted'
    BY <2>4, <2>5, <2>6, InLeaseFinite DEF RowCounted, LockTypeOK
  <2> QED  BY <2>2, <2>7
<1>2. ASSUME NEW r \in Runs, Release(r)
      PROVE  RowYoungest' /\ RowCounted'
  <2>1. InLease' = InLease \ {r}
    BY <1>2 DEF Release, InLease
  <2>2. ~held' /\ ~RowLive'
    BY <1>2 DEF Release, RowLive
  <2>3. CASE r \in InLease
    <3>1. Cardinality(InLease') = Cardinality(InLease) - 1
      BY <2>1, <2>3, InLeaseFinite, FS_RemoveElement
    <3>2. lateReleases' = lateReleases
      BY <1>2, <2>3 DEF Release, CountLate, InLease
    <3> QED
      BY <2>2, <3>1, <3>2, InLeaseFinite DEF RowYoungest, RowCounted, LockTypeOK
  <2>4. CASE r \notin InLease
    <3>1. InLease' = InLease /\ Expired(age[r])
      BY <1>2, <2>1, <2>4 DEF Release, InLease
    <3>2. lateReleases' = IF lateReleases < Cardinality(Runs)
                            THEN lateReleases + 1 ELSE lateReleases
      BY <1>2, <3>1 DEF Release, CountLate
    <3>3. Cardinality(InLease') <= lateReleases'
      BY <3>1, <3>2, InLeaseFinite DEF RowCounted, LockTypeOK
    <3> QED
      BY <2>2, <3>1, <3>3, InLeaseFinite, <1>0 DEF RowYoungest, RowCounted, LockTypeOK
  <2> QED  BY <2>3, <2>4
<1>3. ASSUME NEW r \in Runs, EndWithoutRelease(r)
      PROVE  RowYoungest' /\ RowCounted'
  <2>1. InLease' \subseteq InLease
    BY <1>3 DEF EndWithoutRelease, InLease
  <2>2. RowYoungest'
    BY <1>3, <2>1 DEF EndWithoutRelease, RowYoungest
  <2>3. RowLive' = RowLive /\ lateReleases' = lateReleases
    BY <1>3 DEF EndWithoutRelease, RowLive
  <2>4. RowCounted'
    BY <2>1, <2>3, InLeaseShrinks, InLeaseFinite DEF RowCounted, LockTypeOK
  <2> QED  BY <2>2, <2>4
<1>4. ASSUME Tick
      PROVE  RowYoungest' /\ RowCounted'
  <2>1. \A r \in InLease' : r \in InLease /\ age'[r] = age[r] + 1
    BY <1>4 DEF Tick, InLease, LockTypeOK, Ages, Older, Expired
  <2>2. RowYoungest'
    BY <1>4, <2>1 DEF RowYoungest, Tick, LockTypeOK, Ages, Older, Expired, InLease
  <2>3. CASE held /\ Expired(rowAge')
    <3>1. InLease' = {}
      BY <1>4, <2>1, <2>2, <2>3 DEF RowYoungest, Tick, InLease, LockTypeOK, Ages, Expired, Older
    <3>2. Cardinality(InLease') = 0
      BY <3>1, FS_EmptySet
    <3>3. lateReleases' \in Nat
      BY <1>4, InLeaseFinite DEF LockTypeOK, Tick
    <3>4. RowCounted'
      BY <1>4, <2>3, <3>2, <3>3 DEF RowCounted, RowLive, Tick
    <3> QED  BY <2>2, <3>4
  <2>4. CASE ~held \/ ~Expired(rowAge')
    <3>1. RowLive' = RowLive /\ lateReleases' = lateReleases
      BY <1>4, <2>4 DEF Tick, RowLive, Older, Expired, LockTypeOK, Ages
    <3>2. InLease' \subseteq InLease
      BY <2>1
    <3> QED  BY <2>2, <3>1, <3>2, InLeaseShrinks, InLeaseFinite DEF RowCounted, LockTypeOK
  <2> QED  BY <2>3, <2>4
<1>5. CASE UNCHANGED lockVars
  BY <1>0, <1>5 DEF lockVars, RowYoungest, RowCounted, InLease, RowLive
<1> QED  BY <1>0, <1>1, <1>2, <1>3, <1>4, <1>5 DEF LockNext

\* At first no run is inside a lease.
LEMMA OverlapInvInit == LockInit => OverlapInv
<1> SUFFICES ASSUME LockInit
             PROVE  OverlapInv
  OBVIOUS
<1>1. LockTypeOK
  BY LockTypeInitNext
<1>2. InLease = {} /\ ~RowLive /\ lateReleases = 0
  BY DEF LockInit, InLease, RowLive
<1> QED  BY <1>1, <1>2, FS_EmptySet DEF LockInit, OverlapInv, RowYoungest, RowCounted

\* Takeover by expiry never puts two runs inside their lease: each further one
\* needs a release issued by a run that had outlived its own.
THEOREM OverlapIsBounded == LockSpec => []OverlapBounded
<1>1. OverlapInv => OverlapBounded
  BY InLeaseFinite DEF OverlapInv, RowCounted, OverlapBounded, LockTypeOK
<1> QED  BY <1>1, OverlapInvInit, OverlapInvNext, PTL DEF LockSpec

\* Whatever was released late before, an expired row is taken over only when no run
\* at all is inside its lease: the row is the youngest of the leases.
THEOREM TakeoversRobNobody == LockSpec => TakeoverRobsNobody
<1>1. ASSUME OverlapInv, [LockNext]_lockVars
      PROVE  [held /\ active' \ active # {} => InLease = {}]_lockVars
  <2> USE <1>1 DEF OverlapInv
  <2>1. ASSUME NEW r \in Runs, TryAcquire(r), held
        PROVE  InLease = {}
    <3>1. rowAge \in Nat /\ rowAge > Lease
      BY <2>1 DEF TryAcquire, Acquirable, Expired, LockTypeOK, Ages
    <3>2. ASSUME NEW s \in InLease
          PROVE  FALSE
      <4>1. s \in Runs /\ age[s] \in Nat /\ age[s] <= Lease
        BY DEF InLease, Expired, LockTypeOK, Ages
      <4>2. rowAge <= age[s]
        BY <2>1 DEF RowYoungest
      <4> QED  BY <3>1, <4>1, <4>2
    <3> QED  BY <3>2
  <2>2. (\E r \in Runs : TryAcquire(r)) \/ active' \ active = {}
    BY DEF LockNext, Release, EndWithoutRelease, Tick, lockVars
  <2> QED  BY <2>1, <2>2
<1> QED
  BY <1>1, OverlapInvInit, OverlapInvNext, PTL DEF LockSpec, TakeoverRobsNobody

-----------------------------------------------------------------------------
\* Every operation keeps the row with its holder until a release comes late.
LEMMA HolderNext ==
  LockTypeOK /\ HolderOwnsRow /\ [LockNext]_lockVars => HolderOwnsRow'
<1> SUFFICES ASSUME LockTypeOK, HolderOwnsRow, [LockNext]_lockVars, lateReleases' = 0,
                    NEW s \in InLease'
             PROVE  held' /\ writer' = s /\ rowAge' = age'[s]
  BY DEF HolderOwnsRow
<1>1. ASSUME NEW r \in Runs, TryAcquire(r)
      PROVE  held' /\ writer' = s /\ rowAge' = age'[s]
  <2>1. InLease = {}
    BY <1>1 DEF TryAcquire, Acquirable, HolderOwnsRow, InLease
  <2>2. s = r
    BY <1>1, <2>1 DEF TryAcquire, InLease, LockTypeOK
  <2> QED  BY <1>1, <2>2 DEF TryAcquire, LockTypeOK
<1>2. ASSUME NEW r \in Runs, Release(r)
      PROVE  FALSE
  <2>1. s \in InLease /\ s # r
    BY <1>2 DEF Release, InLease
  <2>2. Cardinality(Runs) \in Nat \ {0}
    BY FS_CardinalityType, FS_EmptySet
  <2>3. lateReleases = 0 /\ ~Expired(age[r])
    BY <1>2, <2>2 DEF Release, CountLate, LockTypeOK
  <2>4. r \in InLease
    BY <1>2, <2>3 DEF Release, InLease
  <2> QED  BY <2>1, <2>3, <2>4 DEF HolderOwnsRow
<1>3. ASSUME NEW r \in Runs, EndWithoutRelease(r)
      PROVE  held' /\ writer' = s /\ rowAge' = age'[s]
  BY <1>3 DEF EndWithoutRelease, InLease, HolderOwnsRow
<1>4. ASSUME Tick
      PROVE  held' /\ writer' = s /\ rowAge' = age'[s]
  <2>1. s \in InLease
    BY <1>4 DEF Tick, InLease, LockTypeOK, Ages, Older, Expired
  <2>2. s \in Runs /\ held /\ writer = s /\ rowAge = age[s]
    BY <1>4, <2>1 DEF Tick, HolderOwnsRow, InLease, LockTypeOK
  <2> QED  BY <1>4, <2>2 DEF Tick
<1>5. CASE UNCHANGED lockVars
  BY <1>5 DEF lockVars, InLease, HolderOwnsRow
<1> QED  BY <1>1, <1>2, <1>3, <1>4, <1>5 DEF LockNext

\* As long as no run has released late, the lock row of a run inside its lease
\* is its own: it was neither taken over nor deleted by another.
THEOREM HolderKeepsRow == LockSpec => []HolderOwnsRow
<1>1. LockInit => HolderOwnsRow
  BY DEF LockInit, HolderOwnsRow, InLease
<1> QED  BY <1>1, LockTypeInitNext, HolderNext, PTL DEF LockSpec

-----------------------------------------------------------------------------
\* Until a run outlives its lease every active run is inside its lease and owns
\* the row.
TimelyInv ==
  /\ LockTypeOK
  /\ ~overran =>
       \A r \in active : ~Expired(age[r]) /\ held /\ writer = r /\ rowAge = age[r]

\* Every operation keeps the row with the runs until one outlives its lease.
LEMMA TimelyInvNext == TimelyInv /\ [LockNext]_lockVars => TimelyInv'
<1> SUFFICES ASSUME TimelyInv, [LockNext]_lockVars
             PROVE  TimelyInv'
  OBVIOUS
<1> USE DEF TimelyInv
<1>0. LockTypeOK'
  BY LockTypeInitNext
<1>1. ASSUME NEW r \in Runs, TryAcquire(r)
      PROVE  TimelyInv'
  <2>1. ~overran => active = {}
    BY <1>1 DEF TryAcquire, Acquirable
  <2> QED  BY <1>0, <1>1, <2>1 DEF TryAcquire, LockTypeOK, Expired
<1>2. ASSUME NEW r \in Runs, Release(r)
      PROVE  TimelyInv'
  <2>1. ~overran => active' = {}
    BY <1>2 DEF Release, LockTypeOK
  <2> QED  BY <1>0, <1>2, <2>1 DEF Release
<1>3. ASSUME NEW r \in Runs, EndWithoutRelease(r)
      PROVE  TimelyInv'
  BY <1>0, <1>3 DEF EndWithoutRelease
<1>4. ASSUME Tick
      PROVE  TimelyInv'
  <2>1. ASSUME ~overran', NEW s \in active'
        PROVE  ~Expired(age'[s]) /\ held' /\ writer' = s /\ rowAge' = age'[s]
    BY <1>4, <2>1 DEF Tick, LockTypeOK
  <2> QED  BY <1>0, <2>1
<1>5. CASE UNCHANGED lockVars
  BY <1>0, <1>5 DEF lockVars
<1> QED  BY <1>1, <1>2, <1>3, <1>4, <1>5 DEF LockNext

\* The lock row implements the port's promise until a run outlives its lease: at
\* most one run of the provider/entity is running.
THEOREM LockImplementsPort == LockSpec => ImplementsPort
<1> DEFINE running == IF overran THEN {} ELSE active
<1>1. LockInit => TimelyInv /\ Port!Init
  BY LockTypeInitNext DEF LockInit, TimelyInv, Port!Init
<1>2. ASSUME TimelyInv, [LockNext]_lockVars
      PROVE  [Port!Next]_running
  <2>1. ASSUME NEW r \in Runs, TryAcquire(r)
        PROVE  Port!Next \/ running' = running
    <3>1. ~overran => active = {}
      BY <1>2, <2>1 DEF TimelyInv, TryAcquire, Acquirable
    <3> QED  BY <2>1, <3>1 DEF TryAcquire, Port!Next, Port!Enter
  <2>2. ASSUME NEW r \in Runs, Release(r)
        PROVE  Port!Next \/ running' = running
    BY <2>2 DEF Release, Port!Next, Port!Leave
  <2>3. ASSUME NEW r \in Runs, EndWithoutRelease(r)
        PROVE  Port!Next \/ running' = running
    BY <2>3 DEF EndWithoutRelease, Port!Next, Port!Leave
  <2>4. CASE Tick
    <3>1. CASE overran' /\ ~overran
      <4>1. PICK r \in active : Expired(Older(age[r]))
        BY <2>4, <3>1 DEF Tick
      <4>2. active = {r}
        BY <1>2, <3>1, <4>1 DEF TimelyInv
      <4> QED  BY <1>2, <3>1, <4>1, <4>2 DEF Port!Next, Port!Leave, TimelyInv, LockTypeOK
    <3>2. CASE overran' = overran
      BY <2>4, <3>2 DEF Tick
    <3> QED  BY <2>4, <3>1, <3>2, <1>2 DEF Tick, TimelyInv, LockTypeOK
  <2>5. CASE UNCHANGED lockVars
    BY <2>5 DEF lockVars
  <2> QED  BY <1>2, <2>1, <2>2, <2>3, <2>4, <2>5 DEF LockNext
<1> QED
  BY <1>1, <1>2, TimelyInvNext, PTL DEF LockSpec, ImplementsPort, Port!Spec

=============================================================================
