-------------------------- MODULE WebhookIngestion --------------------------
(***************************************************************************)
(* Duplicate-safe webhook processing: WebhookIngestionService.ingest, the  *)
(* ledger behind it (webhook_events, one row per idempotency key) and the  *)
(* routes that call it.  A Stripe or Google request carries one event, a   *)
(* HubSpot request a batch that is ingested concurrently by Promise.all.   *)
(*                                                                         *)
(* Every awaited call is a step.  Requests are handled concurrently, by    *)
(* one or several API processes, and any of them can die.  The provider is *)
(* external: it sends every batch, sends it again for as long as it has no *)
(* 200 for it (it may not wait for the previous answer), and sometimes     *)
(* sends a batch it has a 200 for (an answer that was lost).               *)
(***************************************************************************)
EXTENDS Naturals, FiniteSets

CONSTANTS
  Events,            \* idempotency keys
  Batches,           \* the sets of events the provider sends in one request
  ProcessEffect,     \* what a process() that returns has done for an event
  Requests,          \* request slots
  MaxDuplicates,     \* bound: deliveries of a batch that was acknowledged
  MaxProcessFaults,  \* bound: rejections of process()
  MaxStorageFaults,  \* bound: failed calls to the ledger
  MaxCrashes         \* bound: process crashes

\* The record of the event was upserted (Stripe, HubSpot), SyncEngine.run was
\* called whatever its result (Google), the missing provider was entered in the
\* failure log, or the event type carries no record.
Effects == {"persisted", "run_called", "reported", "ignored"}

ASSUME EffectAssumption == ProcessEffect \in [Events -> Effects]
ASSUME BatchesAssumption ==
  /\ Batches \subseteq SUBSET Events
  /\ {} \notin Batches
ASSUME BoundsAssumption ==
  {MaxDuplicates, MaxProcessFaults, MaxStorageFaults, MaxCrashes} \subseteq Nat

VARIABLES
  ledger,   \* webhook_events.processing_status, "absent" without a row
  effect,   \* what process() has durably done for an event
  batch,    \* the batch a request slot is handling, {} for a free slot
  at,       \* at[q][e]: where request q is in ingest() of event e
  answer,   \* the HTTP status a slot has answered, 0 before
  acked,    \* provider: the batches it has a 200 for
  faults    \* how many faults of each kind have happened

vars == <<ledger, effect, batch, at, answer, acked, faults>>

Running == {"record", "status", "process", "mark_processed", "mark_failed"}
Settled == {"processed", "duplicate_skipped", "failed", "threw"}
Points  == Running \cup Settled \cup {"none"}

NoIngest == [e \in Events |-> "none"]

TypeOK ==
  /\ ledger \in [Events -> {"absent", "received", "processed", "failed"}]
  /\ effect \in [Events -> Effects \cup {"none"}]
  /\ batch \in [Requests -> Batches \cup {{}}]
  /\ at \in [Requests -> [Events -> Points]]
  /\ answer \in [Requests -> {0, 200, 500}]
  /\ acked \subseteq Batches
  /\ faults \in [duplicate : 0 .. MaxDuplicates, process : 0 .. MaxProcessFaults,
                 storage : 0 .. MaxStorageFaults, crash : 0 .. MaxCrashes]

Init ==
  /\ ledger = [e \in Events |-> "absent"]
  /\ effect = [e \in Events |-> "none"]
  /\ batch = [q \in Requests |-> {}]
  /\ at = [q \in Requests |-> NoIngest]
  /\ answer = [q \in Requests |-> 0]
  /\ acked = {}
  /\ faults = [duplicate |-> 0, process |-> 0, storage |-> 0, crash |-> 0]

Goto(q, e, p) == at' = [at EXCEPT ![q][e] = p]

\* A ledger call that reports an error.
StorageFault ==
  /\ faults.storage < MaxStorageFaults
  /\ faults' = [faults EXCEPT !.storage = @ + 1]

\* The update of e's row behind a reported error may or may not have committed.
MaybeSet(e, s) == ledger' \in {ledger, [ledger EXCEPT ![e] = s]}

(***************************************************************************)
(* The provider and the routes                                             *)
(***************************************************************************)

\* A request whose signature verifies starts an ingest of each of its events.
Deliver(q, b) ==
  /\ batch[q] = {}
  /\ \/ b \notin acked /\ UNCHANGED faults
     \/ /\ b \in acked
        /\ faults.duplicate < MaxDuplicates
        /\ faults' = [faults EXCEPT !.duplicate = @ + 1]
  /\ batch' = [batch EXCEPT ![q] = b]
  /\ at' = [at EXCEPT ![q] = [e \in Events |-> IF e \in b THEN "record" ELSE "none"]]
  /\ answer' = [answer EXCEPT ![q] = 0]
  /\ UNCHANGED <<ledger, effect, acked>>

\* Mutant of AllDone: an ingest that threw counts as handled (allSettled).
AnyOutcome(q) == \A e \in batch[q] : at[q][e] \in Settled

Threw(q)   == \E e \in batch[q] : at[q][e] = "threw"
AllDone(q) == \A e \in batch[q] : at[q][e] \in Settled \ {"threw"}

\* 200 once every ingest has returned, whatever its outcome; 500 as soon as one
\* throws, while the others of the batch carry on unobserved.
Reply(q) ==
  /\ batch[q] # {}
  /\ answer[q] = 0
  /\ \/ Threw(q) /\ answer' = [answer EXCEPT ![q] = 500] /\ UNCHANGED acked
     \/ /\ AllDone(q)
        /\ answer' = [answer EXCEPT ![q] = 200]
        /\ acked' = acked \cup {batch[q]}
  /\ UNCHANGED <<ledger, effect, batch, at, faults>>

\* The last ingest of an answered request has settled.
Finish(q) ==
  /\ batch[q] # {}
  /\ answer[q] # 0
  /\ \A e \in batch[q] : at[q][e] \in Settled
  /\ batch' = [batch EXCEPT ![q] = {}]
  /\ at' = [at EXCEPT ![q] = NoIngest]
  /\ UNCHANGED <<ledger, effect, answer, acked, faults>>

\* The process handling q dies, with all its ingests.
Crash(q) ==
  /\ batch[q] # {}
  /\ faults.crash < MaxCrashes
  /\ faults' = [faults EXCEPT !.crash = @ + 1]
  /\ batch' = [batch EXCEPT ![q] = {}]
  /\ at' = [at EXCEPT ![q] = NoIngest]
  /\ UNCHANGED <<ledger, effect, answer, acked>>

(***************************************************************************)
(* WebhookIngestionService.ingest                                          *)
(***************************************************************************)

\* INSERT under UNIQUE(idempotency_key): a violation means a delivery of this
\* event was seen before.
RecordIfNew(q, e) ==
  /\ at[q][e] = "record"
  /\ \/ /\ ledger[e] = "absent"
        /\ ledger' = [ledger EXCEPT ![e] = "received"]
        /\ Goto(q, e, "process")
        /\ UNCHANGED faults
     \/ /\ ledger[e] # "absent"
        /\ Goto(q, e, "status")
        /\ UNCHANGED <<ledger, faults>>
     \/ /\ StorageFault
        /\ MaybeSet(e, IF ledger[e] = "absent" THEN "received" ELSE ledger[e])
        /\ Goto(q, e, "threw")
  /\ UNCHANGED <<effect, batch, answer, acked>>

\* Mutants of AfterStatus: every delivery seen before is a duplicate; the status
\* of the row is the outcome.
AnyPriorDelivery(s) == "duplicate_skipped"
StatusAsOutcome(s) == IF s = "processed" THEN "duplicate_skipped" ELSE s

\* Only a delivery whose prior status is 'processed' is a true duplicate.
AfterStatus(s) == IF s = "processed" THEN "duplicate_skipped" ELSE "process"

GetProcessingStatus(q, e) ==
  /\ at[q][e] = "status"
  /\ \/ Goto(q, e, AfterStatus(ledger[e])) /\ UNCHANGED faults
     \/ StorageFault /\ Goto(q, e, "threw")
  /\ UNCHANGED <<ledger, effect, batch, answer, acked>>

\* The route's callback returns.
Process(q, e) ==
  /\ at[q][e] = "process"
  /\ effect' = [effect EXCEPT ![e] = ProcessEffect[e]]
  /\ Goto(q, e, "mark_processed")
  /\ UNCHANGED <<ledger, batch, answer, acked, faults>>

\* Mutant of AfterRejection: an error of process() is swallowed.
RejectionIgnored == "mark_processed"

AfterRejection == "mark_failed"

\* It may also reject after its transaction committed.
ProcessRejects(q, e) ==
  /\ at[q][e] = "process"
  /\ faults.process < MaxProcessFaults
  /\ faults' = [faults EXCEPT !.process = @ + 1]
  /\ effect' \in {effect, [effect EXCEPT ![e] = ProcessEffect[e]]}
  /\ Goto(q, e, AfterRejection)
  /\ UNCHANGED <<ledger, batch, answer, acked>>

\* Both updates are unconditional.  The first is inside the try block.
MarkProcessed(q, e) ==
  /\ at[q][e] = "mark_processed"
  /\ \/ /\ ledger' = [ledger EXCEPT ![e] = "processed"]
        /\ Goto(q, e, "processed")
        /\ UNCHANGED faults
     \/ /\ StorageFault
        /\ MaybeSet(e, "processed")
        /\ Goto(q, e, "mark_failed")
  /\ UNCHANGED <<effect, batch, answer, acked>>

MarkFailed(q, e) ==
  /\ at[q][e] = "mark_failed"
  /\ \/ /\ ledger' = [ledger EXCEPT ![e] = "failed"]
        /\ Goto(q, e, "failed")
        /\ UNCHANGED faults
     \/ /\ StorageFault
        /\ MaybeSet(e, "failed")
        /\ Goto(q, e, "threw")
  /\ UNCHANGED <<effect, batch, answer, acked>>

Ingest(q, e) ==
  \/ RecordIfNew(q, e)
  \/ GetProcessingStatus(q, e)
  \/ Process(q, e)
  \/ ProcessRejects(q, e)
  \/ MarkProcessed(q, e)
  \/ MarkFailed(q, e)

Next ==
  \/ \E q \in Requests, b \in Batches : Deliver(q, b)
  \/ \E q \in Requests, e \in Events : Ingest(q, e)
  \/ \E q \in Requests : Reply(q)
  \/ \E q \in Requests : Finish(q)
  \/ \E q \in Requests : Crash(q)

Spec == Init /\ [][Next]_vars

\* Awaited calls settle and requests are answered; the provider keeps sending
\* what it has no 200 for.
Fairness ==
  /\ \A q \in Requests : /\ \A e \in Events : WF_vars(Ingest(q, e))
                         /\ WF_vars(Reply(q))
                         /\ WF_vars(Finish(q))
  /\ \A b \in Batches : SF_vars(b \notin acked /\ \E q \in Requests : Deliver(q, b))

FairSpec == Spec /\ Fairness

(***************************************************************************)
(* Properties                                                              *)
(***************************************************************************)

\* The ledger says 'processed' only of an event whose effect is durable, however
\* deliveries of it interleave.
ProcessedMeansHandled ==
  \A e \in Events : ledger[e] = "processed" => effect[e] # "none"

\* The provider stops redelivering a batch only when each of its events took
\* effect or stands in the ledger as 'failed', where it can be found.
AckedIsAccountedFor ==
  \A b \in acked : \A e \in b : effect[e] = "none" => ledger[e] = "failed"

\* The comment on WebhookIngestionService says that a redelivery makes progress where
\* an earlier delivery did not.  As far as that goes: through ledger faults, crashes and duplicates every event
\* of every batch ends up handled, or as 'failed' because process() rejected it.
EventuallyAccountedFor ==
  \A e \in UNION Batches :
    <>(effect[e] # "none" \/ (ledger[e] = "failed" /\ faults.process > 0))

=============================================================================
