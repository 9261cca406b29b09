----------------------- MODULE WebhookIngestion_proofs -----------------------
(***************************************************************************)
(* Theorems about WebhookIngestion, for any events, batches, number of     *)
(* concurrent requests and bounds on what goes wrong.                      *)
(***************************************************************************)
EXTENDS WebhookIngestion, TLAPS

Statuses == {"absent", "received", "processed", "failed"}

\* The outcomes with which ingest() returns; with "threw" it does not.
Returned == Settled \ {"threw"}

\* A slot has an ingest of each event of its batch, and no other.
SlotsFilled ==
  \A q \in Requests, e \in Events : e \in batch[q] <=> at[q][e] # "none"

\* What the provider may rely on for an event it no longer sends.
Accounted(e) == effect[e] # "none" \/ ledger[e] = "failed"

\* What an ingest that has come to point p vouches for.
Vouched(e, p) ==
  /\ p = "mark_processed" => effect[e] # "none"
  /\ p \in Returned => Accounted(e)

\* AckedIsAccountedFor speaks of answered requests only, and is kept because every
\* ingest on the way to the answer vouches for its event.
IngestInv ==
  /\ TypeOK
  /\ SlotsFilled
  /\ ProcessedMeansHandled
  /\ \A q \in Requests, e \in Events : Vouched(e, at[q][e])
  /\ \A b \in acked : \A e \in b : Accounted(e)

(***************************************************************************)
(* The counters                                                            *)
(***************************************************************************)

FaultCounts == [duplicate : 0 .. MaxDuplicates, process : 0 .. MaxProcessFaults,
                storage : 0 .. MaxStorageFaults, crash : 0 .. MaxCrashes]

LEMMA FaultsCounted ==
  ASSUME TypeOK
  PROVE  /\ StorageFault => faults' \in FaultCounts
         /\ faults.duplicate < MaxDuplicates /\ faults' = [faults EXCEPT !.duplicate = @ + 1]
              => faults' \in FaultCounts
         /\ faults.process < MaxProcessFaults /\ faults' = [faults EXCEPT !.process = @ + 1]
              => faults' \in FaultCounts
         /\ faults.crash < MaxCrashes /\ faults' = [faults EXCEPT !.crash = @ + 1]
              => faults' \in FaultCounts
<1>1. /\ MaxDuplicates \in Nat /\ MaxProcessFaults \in Nat
      /\ MaxStorageFaults \in Nat /\ MaxCrashes \in Nat
  BY BoundsAssumption
<1>2. faults \in FaultCounts
  BY DEF TypeOK, FaultCounts
<1>3. ASSUME NEW n \in Nat, NEW m \in 0 .. n, m < n
      PROVE  m + 1 \in 0 .. n
  BY <1>3
<1>4. StorageFault => faults' \in FaultCounts
  BY <1>1, <1>2, <1>3 DEF StorageFault, FaultCounts
<1>5. faults.duplicate < MaxDuplicates /\ faults' = [faults EXCEPT !.duplicate = @ + 1]
        => faults' \in FaultCounts
  BY <1>1, <1>2, <1>3 DEF FaultCounts
<1>6. faults.process < MaxProcessFaults /\ faults' = [faults EXCEPT !.process = @ + 1]
        => faults' \in FaultCounts
  BY <1>1, <1>2, <1>3 DEF FaultCounts
<1>7. faults.crash < MaxCrashes /\ faults' = [faults EXCEPT !.crash = @ + 1]
        => faults' \in FaultCounts
  BY <1>1, <1>2, <1>3 DEF FaultCounts
<1> QED
  BY <1>4, <1>5, <1>6, <1>7

(***************************************************************************)
(* Steps of the provider and the routes                                    *)
(***************************************************************************)

LEMMA IngestInit == Init => IngestInv
<1> SUFFICES ASSUME Init PROVE IngestInv
  OBVIOUS
<1>1. TypeOK
  BY BoundsAssumption DEF Init, TypeOK, NoIngest, Points
<1>2. SlotsFilled
  BY DEF Init, SlotsFilled, NoIngest
<1>3. \A q \in Requests, e \in Events : Vouched(e, at[q][e])
  BY DEF Init, NoIngest, Vouched, Returned, Settled
<1> QED
  BY <1>1, <1>2, <1>3 DEF Init, IngestInv, ProcessedMeansHandled

\* A slot that takes a batch or gives one up touches neither the ledger nor the effects.
LEMMA SlotKeeps ==
  ASSUME IngestInv, NEW q \in Requests, NEW b \in Batches \cup {{}}, NEW p \in Points \ Returned,
         p \notin {"mark_processed", "none"},
         batch' = [batch EXCEPT ![q] = b],
         at' = [at EXCEPT ![q] = [e \in Events |-> IF e \in b THEN p ELSE "none"]],
         answer' \in [Requests -> {0, 200, 500}], faults' \in FaultCounts,
         UNCHANGED <<ledger, effect, acked>>
  PROVE  IngestInv'
<1> USE DEF IngestInv
<1>1. TypeOK'
  BY DEF TypeOK, FaultCounts, Points
<1>2. SlotsFilled'
  BY DEF TypeOK, SlotsFilled
<1>3. ProcessedMeansHandled'
  BY DEF ProcessedMeansHandled
<1>4. \A r \in Requests, e \in Events : Vouched(e, at[r][e])'
  BY DEF TypeOK, Vouched, Accounted, Returned, Settled
<1> QED
  BY <1>1, <1>2, <1>3, <1>4 DEF Accounted

LEMMA DeliverKeeps ==
  ASSUME IngestInv, NEW q \in Requests, NEW b \in Batches, Deliver(q, b)
  PROVE  IngestInv'
<1>1. TypeOK
  BY DEF IngestInv
<1>2. faults' \in FaultCounts
  BY <1>1, FaultsCounted DEF Deliver, TypeOK, FaultCounts
<1>3. answer' \in [Requests -> {0, 200, 500}]
  BY <1>1 DEF Deliver, TypeOK
<1>4. "record" \in Points \ Returned
  BY DEF Points, Returned, Running, Settled
<1> QED
  BY <1>2, <1>3, <1>4, SlotKeeps DEF Deliver

\* Finish and Crash leave the slot free.
LEMMA FreeKeeps ==
  ASSUME IngestInv, NEW q \in Requests, Finish(q) \/ Crash(q)
  PROVE  IngestInv'
<1>1. TypeOK
  BY DEF IngestInv
<1>2. faults' \in FaultCounts
  BY <1>1, FaultsCounted DEF Finish, Crash, TypeOK, FaultCounts
<1>3. answer' \in [Requests -> {0, 200, 500}]
  BY <1>1 DEF Finish, Crash, TypeOK
<1>4. "record" \in Points \ Returned
  BY DEF Points, Returned, Running, Settled
<1>5. at' = [at EXCEPT ![q] = [e \in Events |-> IF e \in {} THEN "record" ELSE "none"]]
  BY DEF Finish, Crash, NoIngest
<1> QED
  BY <1>2, <1>3, <1>4, <1>5, SlotKeeps DEF Finish, Crash

\* A request is acknowledged when every ingest of it has returned, and each of them
\* vouches for its event.
LEMMA ReplyKeeps ==
  ASSUME IngestInv, NEW q \in Requests, Reply(q)
  PROVE  IngestInv'
<1> USE DEF IngestInv
<1>1. UNCHANGED <<ledger, effect, batch, at, faults>>
  BY DEF Reply
<1>2. batch[q] \in Batches
  BY DEF Reply, TypeOK
<1>3. answer' \in [Requests -> {0, 200, 500}]
  BY DEF Reply, TypeOK
<1>4. acked' \subseteq Batches
  BY <1>2 DEF Reply, TypeOK
<1>5. TypeOK'
  BY <1>1, <1>3, <1>4 DEF TypeOK
<1>6. \A b \in acked' : \A e \in b : Accounted(e)
  <2>1. CASE acked' = acked
    BY <2>1
  <2>2. CASE AllDone(q) /\ acked' = acked \cup {batch[q]}
    <3>1. \A e \in batch[q] : e \in Events /\ at[q][e] \in Returned
      BY <1>2, <2>2, BatchesAssumption DEF AllDone, Returned
    <3>2. \A e \in batch[q] : Accounted(e)
      BY <3>1 DEF Vouched
    <3> QED
      BY <2>2, <3>2
  <2> QED
    BY <2>1, <2>2 DEF Reply
<1> QED
  BY <1>1, <1>5, <1>6 DEF SlotsFilled, ProcessedMeansHandled, Vouched, Accounted

(***************************************************************************)
(* Steps of ingest()                                                       *)
(***************************************************************************)

\* The ingest of e in slot q comes to point p and leaves status k in the ledger and
\* effect f: what it must and must not have done.
LEMMA IngestKeeps ==
  ASSUME IngestInv, NEW q \in Requests, NEW e \in Events, at[q][e] # "none",
         NEW p \in Points \ {"none"}, Goto(q, e, p),
         NEW k \in Statuses, ledger' = [ledger EXCEPT ![e] = k],
         NEW f \in Effects \cup {"none"}, effect' = [effect EXCEPT ![e] = f],
         effect[e] # "none" => f # "none",
         k = "processed" => f # "none",
         Accounted(e) \/ p \in Returned => f # "none" \/ k = "failed",
         p = "mark_processed" => f # "none",
         faults' \in FaultCounts, UNCHANGED <<batch, answer, acked>>
  PROVE  IngestInv'
<1> USE DEF IngestInv
<1>1. at'[q][e] = p /\ \A r \in Requests, x \in Events : <<r, x>> # <<q, e>> => at'[r][x] = at[r][x]
  BY DEF Goto, TypeOK
<1>2. ledger'[e] = k /\ \A x \in Events \ {e} : ledger'[x] = ledger[x]
  BY DEF TypeOK
<1>3. effect'[e] = f /\ \A x \in Events \ {e} : effect'[x] = effect[x]
  BY DEF TypeOK
<1>4. TypeOK'
  <2>1. ledger' \in [Events -> {"absent", "received", "processed", "failed"}]
    BY DEF TypeOK, Statuses
  <2>2. effect' \in [Events -> Effects \cup {"none"}]
    BY DEF TypeOK
  <2>3. at' \in [Requests -> [Events -> Points]]
    BY DEF TypeOK, Goto
  <2> QED
    BY <2>1, <2>2, <2>3 DEF TypeOK, FaultCounts
<1>5. SlotsFilled'
  BY <1>1 DEF SlotsFilled
<1>6. ProcessedMeansHandled'
  BY <1>2, <1>3 DEF ProcessedMeansHandled
<1>7. \A x \in Events : Accounted(x) => Accounted(x)'
  BY <1>2, <1>3 DEF Accounted
<1>8. \A r \in Requests, x \in Events : Vouched(x, at[r][x])'
  <2> SUFFICES ASSUME NEW r \in Requests, NEW x \in Events PROVE Vouched(x, at[r][x])'
    OBVIOUS
  <2>1. CASE <<r, x>> = <<q, e>>
    BY <1>1, <1>2, <1>3, <2>1 DEF Vouched, Accounted
  <2>2. CASE <<r, x>> # <<q, e>>
    BY <1>1, <1>3, <1>7, <2>2 DEF Vouched
  <2> QED
    BY <2>1, <2>2
<1>9. \A b \in acked' : \A x \in b : Accounted(x)'
  BY <1>7, BatchesAssumption DEF TypeOK
<1> QED
  BY <1>4, <1>5, <1>6, <1>8, <1>9

\* A step that leaves a map alone writes the value that is there.
LEMMA WriteSame ==
  ASSUME TypeOK, NEW e \in Events
  PROVE  /\ ledger[e] \in Statuses /\ ledger = [ledger EXCEPT ![e] = ledger[e]]
         /\ effect[e] \in Effects \cup {"none"} /\ effect = [effect EXCEPT ![e] = effect[e]]
  BY DEF TypeOK, Statuses

LEMMA IngestStepKeeps ==
  ASSUME IngestInv, NEW q \in Requests, NEW e \in Events, Ingest(q, e)
  PROVE  IngestInv'
<1>1. TypeOK
  BY DEF IngestInv
<1>2. faults \in FaultCounts
  BY <1>1 DEF TypeOK, FaultCounts
<1>3. /\ ledger[e] \in Statuses /\ ledger = [ledger EXCEPT ![e] = ledger[e]]
      /\ effect[e] \in Effects \cup {"none"} /\ effect = [effect EXCEPT ![e] = effect[e]]
  BY <1>1, WriteSame
<1>4. ProcessEffect[e] \in Effects /\ ProcessEffect[e] # "none"
  BY EffectAssumption DEF Effects
<1>5. Running \cup Settled \subseteq Points \ {"none"}
  BY DEF Points, Running, Settled
<1>6. /\ ledger[e] = "processed" => effect[e] # "none"
      /\ Vouched(e, at[q][e])
  BY DEF IngestInv, ProcessedMeansHandled
<1>7. StorageFault => faults' \in FaultCounts
  BY <1>1, FaultsCounted
\* One ingest moves on to p, leaving status k and effect f.
<1>8. ASSUME NEW p \in Running \cup Settled, Goto(q, e, p), at[q][e] # "none",
             NEW k \in Statuses, ledger' = [ledger EXCEPT ![e] = k],
             NEW f \in Effects \cup {"none"}, effect' = [effect EXCEPT ![e] = f],
             effect[e] # "none" => f # "none",
             k = "processed" => f # "none",
             Accounted(e) \/ p \in Returned => f # "none" \/ k = "failed",
             p = "mark_processed" => f # "none",
             faults' \in FaultCounts, UNCHANGED <<batch, answer, acked>>
      PROVE  IngestInv'
  BY <1>5, <1>8, IngestKeeps
<1>10. CASE RecordIfNew(q, e)
  <2>1. UNCHANGED <<effect, batch, answer, acked>> /\ faults' \in FaultCounts
    BY <1>2, <1>7, <1>10 DEF RecordIfNew
  <2>2. PICK p \in {"process", "status", "threw"} : Goto(q, e, p)
    BY <1>10 DEF RecordIfNew
  <2>3. PICK k \in {ledger[e], "received"} :
          ledger' = [ledger EXCEPT ![e] = k] /\ (k # ledger[e] => ledger[e] = "absent")
    BY <1>3, <1>10 DEF RecordIfNew, MaybeSet
  <2>4. at[q][e] # "none"
    BY <1>10 DEF RecordIfNew
  <2>5. p \in Running \cup Settled /\ p \notin Returned /\ k \in Statuses
    BY <1>3 DEF Running, Settled, Returned, Statuses
  <2>6. Accounted(e) => effect[e] # "none" \/ k = "failed"
    BY <2>3 DEF Accounted
  <2>7. k = "processed" => effect[e] # "none"
    BY <1>6
  <2>8. effect' = [effect EXCEPT ![e] = effect[e]]
    BY <1>3, <2>1
  <2> QED
    BY <1>3, <1>8, <2>1, <2>2, <2>3, <2>4, <2>5, <2>6, <2>7, <2>8
<1>11. CASE GetProcessingStatus(q, e)
  <2>1. UNCHANGED <<ledger, effect, batch, answer, acked>> /\ faults' \in FaultCounts
    BY <1>2, <1>7, <1>11 DEF GetProcessingStatus
  <2>2. PICK p \in {"duplicate_skipped", "process", "threw"} :
          Goto(q, e, p) /\ (p = "duplicate_skipped" => ledger[e] = "processed")
    BY <1>11 DEF GetProcessingStatus, AfterStatus
  <2>3. at[q][e] # "none"
    BY <1>11 DEF GetProcessingStatus
  <2>4. p \in Running \cup Settled /\ (p \in Returned => p = "duplicate_skipped")
    BY DEF Running, Settled, Returned
  <2>5. Accounted(e) \/ p \in Returned => effect[e] # "none" \/ ledger[e] = "failed"
    BY <1>6, <2>2, <2>4 DEF Accounted
  <2>6. effect' = [effect EXCEPT ![e] = effect[e]] /\ ledger' = [ledger EXCEPT ![e] = ledger[e]]
    BY <1>3, <2>1
  <2> QED
    BY <1>3, <1>6, <1>8, <2>1, <2>2, <2>3, <2>4, <2>5, <2>6
<1>12. CASE Process(q, e)
  <2>1. UNCHANGED <<ledger, batch, answer, acked, faults>> /\ Goto(q, e, "mark_processed")
    BY <1>12 DEF Process
  <2>2. effect' = [effect EXCEPT ![e] = ProcessEffect[e]] /\ at[q][e] # "none"
    BY <1>12 DEF Process
  <2>3. "mark_processed" \in Running \cup Settled
    BY DEF Running
  <2>4. ledger' = [ledger EXCEPT ![e] = ledger[e]]
    BY <1>3, <2>1
  <2> QED
    BY <1>2, <1>3, <1>4, <1>8, <2>1, <2>2, <2>3, <2>4
<1>13. CASE ProcessRejects(q, e)
  <2>1. UNCHANGED <<ledger, batch, answer, acked>> /\ Goto(q, e, "mark_failed")
    BY <1>13 DEF ProcessRejects, AfterRejection
  <2>2. faults' \in FaultCounts /\ at[q][e] # "none"
    BY <1>1, <1>13, FaultsCounted DEF ProcessRejects
  <2>3. PICK f \in {effect[e], ProcessEffect[e]} : effect' = [effect EXCEPT ![e] = f]
    BY <1>3, <1>13 DEF ProcessRejects
  <2>4. "mark_failed" \in Running \cup Settled /\ "mark_failed" \notin Returned
    BY DEF Running, Settled, Returned
  <2>5. f \in Effects \cup {"none"} /\ (effect[e] # "none" => f # "none")
    BY <1>3, <1>4
  <2>6. Accounted(e) => f # "none" \/ ledger[e] = "failed"
    BY <2>5 DEF Accounted
  <2>7. ledger' = [ledger EXCEPT ![e] = ledger[e]]
    BY <1>3, <2>1
  <2>8. ledger[e] = "processed" => f # "none"
    BY <1>6, <2>5
  <2>9. Accounted(e) \/ "mark_failed" \in Returned => f # "none" \/ ledger[e] = "failed"
    BY <2>4, <2>6
  <2>10. effect[e] # "none" => f # "none"
    BY <2>5
  <2>11. UNCHANGED <<batch, answer, acked>>
    BY <2>1
  <2>12. "mark_failed" \in Running \cup Settled
    BY <2>4
  <2>13. Goto(q, e, "mark_failed")
    BY <2>1
  <2> QED
    BY <1>3, <1>8, <2>2, <2>3, <2>5, <2>7, <2>8, <2>9, <2>10, <2>11, <2>12, <2>13
<1>14. CASE MarkProcessed(q, e)
  <2>1. UNCHANGED <<effect, batch, answer, acked>> /\ faults' \in FaultCounts
    BY <1>2, <1>7, <1>14 DEF MarkProcessed
  <2>2. effect[e] # "none" /\ at[q][e] # "none"
    BY <1>6, <1>14 DEF MarkProcessed, Vouched
  <2>3. PICK p \in {"processed", "mark_failed"} : Goto(q, e, p)
    BY <1>14 DEF MarkProcessed
  <2>4. PICK k \in {ledger[e], "processed"} : ledger' = [ledger EXCEPT ![e] = k]
    BY <1>3, <1>14 DEF MarkProcessed, MaybeSet
  <2>5. p \in Running \cup Settled /\ k \in Statuses
    BY <1>3 DEF Running, Settled, Statuses
  <2>6. effect' = [effect EXCEPT ![e] = effect[e]]
    BY <1>3, <2>1
  <2> QED
    BY <1>3, <1>8, <2>1, <2>2, <2>3, <2>4, <2>5, <2>6
<1>15. CASE MarkFailed(q, e)
  <2>1. UNCHANGED <<effect, batch, answer, acked>> /\ faults' \in FaultCounts
    BY <1>2, <1>7, <1>15 DEF MarkFailed
  <2>2. PICK p \in {"failed", "threw"}, k \in {ledger[e], "failed"} :
          /\ Goto(q, e, p)
          /\ ledger' = [ledger EXCEPT ![e] = k]
          /\ p = "failed" => k = "failed"
    BY <1>3, <1>15 DEF MarkFailed, MaybeSet
  <2>3. at[q][e] # "none"
    BY <1>15 DEF MarkFailed
  <2>4. p \in Running \cup Settled /\ k \in Statuses /\ (p \in Returned => p = "failed")
    BY <1>3 DEF Running, Settled, Returned, Statuses
  <2>5. Accounted(e) \/ p \in Returned => effect[e] # "none" \/ k = "failed"
    BY <2>2, <2>4 DEF Accounted
  <2>6. effect' = [effect EXCEPT ![e] = effect[e]]
    BY <1>3, <2>1
  <2>7. k = "processed" => effect[e] # "none"
    BY <1>6
  <2>8. p # "mark_processed"
    OBVIOUS
  <2>9. ledger' = [ledger EXCEPT ![e] = k] /\ Goto(q, e, p)
    BY <2>2
  <2> QED
    BY <1>3, <1>8, <2>1, <2>3, <2>4, <2>5, <2>6, <2>7, <2>8, <2>9
<1> QED
  BY <1>10, <1>11, <1>12, <1>13, <1>14, <1>15 DEF Ingest

\* No step of the service, of the provider or of a crash breaks the invariant.
LEMMA IngestNext == IngestInv /\ [Next]_vars => IngestInv'
<1> SUFFICES ASSUME IngestInv, [Next]_vars PROVE IngestInv'
  OBVIOUS
<1>1. CASE Next
  BY <1>1, DeliverKeeps, IngestStepKeeps, ReplyKeeps, FreeKeeps DEF Next
<1>2. CASE UNCHANGED vars
  BY <1>2 DEF vars, IngestInv, TypeOK, SlotsFilled, ProcessedMeansHandled, Vouched, Accounted
<1> QED
  BY <1>1, <1>2

\* Hence it holds in every reachable state.
LEMMA IngestInvHolds == Spec => []IngestInv
  BY IngestInit, IngestNext, PTL DEF Spec

(***************************************************************************)
(* Theorems                                                                *)
(***************************************************************************)

\* For any number of requests, events, duplicates and faults: the service stays
\* within the states of its variables (WebhookIngestionService.ingest, the
\* webhook_events table).
THEOREM TypeCorrect == Spec => []TypeOK
<1>1. IngestInv => TypeOK
  BY DEF IngestInv
<1> QED
  BY <1>1, IngestInvHolds, PTL

\* For any interleaving of deliveries of one event: the ledger says 'processed' only
\* of an event that process() has durably handled (markProcessed comes after process
\* returned, and a true duplicate does not write).
THEOREM LedgerNeverLies == Spec => []ProcessedMeansHandled
<1>1. IngestInv => ProcessedMeansHandled
  BY DEF IngestInv
<1> QED
  BY <1>1, IngestInvHolds, PTL

\* For any batches and any number of redeliveries: a batch the provider has a 200 for
\* is a batch whose every event took effect or stands in the ledger as 'failed'.
THEOREM AcknowledgedIsSafe == Spec => []AckedIsAccountedFor
<1>1. IngestInv => AckedIsAccountedFor
  BY DEF IngestInv, AckedIsAccountedFor, Accounted
<1> QED
  BY <1>1, IngestInvHolds, PTL

=============================================================================
