--------------------------- MODULE StripePayments ---------------------------
(***************************************************************************)
(* The two ways a Stripe payment reaches its row: the polling of           *)
(* integrations/stripe/stripe-payment-provider.ts, which lists payments    *)
(* created since a watermark, newest first, and the webhook of             *)
(* api/http/routes/webhooks.routes.ts, which writes the payment that an    *)
(* event carries (docs/adr/0005-stripe-incremental-strategy.md).           *)
(*                                                                         *)
(* Stripe is external.  Payments are numbered in the order of creation;    *)
(* `created` counts seconds, so several may share one, and never changes.  *)
(* A payment is its status, counted as a version: creation is version 1    *)
(* and each transition adds one.  Creation and every transition emit an    *)
(* event with a copy of the payment, delivered in any order or never.      *)
(***************************************************************************)
EXTENDS Integers, FiniteSets, FiniteSetsExt

CONSTANTS
  PageSize,        \* PAGE_SIZE
  MaxPayments,     \* bound: payments
  MaxTransitions,  \* bound: status transitions, of all payments together
  MaxClock,        \* bound: Stripe's clock
  MaxLost,         \* bound: events whose handling fails
  MaxFailures      \* bound: polls that fail or die

ASSUME PageSizeAssumption == PageSize \in Nat \ {0}
ASSUME BoundsAssumption   ==
  MaxClock \in Nat \ {0} /\ {MaxPayments, MaxTransitions, MaxLost, MaxFailures} \subseteq Nat

VARIABLES
  now,        \* Stripe: its clock
  created,    \* Stripe: second in which each payment was created, 0 before
  version,    \* Stripe: version of each payment, 0 before it is created
  changes,    \* Stripe: how many transitions there have been
  row,        \* canonical_payments: version in each row, 0 if there is none
  watermark,  \* sync_cursors: the token, or NoWatermark
  poll,       \* the run in progress; the lock lets one run at a time
  events,     \* events to be delivered
  lost,       \* events answered 200 although handling them failed
  failures,   \* how many polls have failed
  overtaken   \* history: payments whose row was taken back, until it is current again

stripe == <<now, created, version, changes>>
vars   == <<stripe, row, watermark, poll, events, lost, failures, overtaken>>

Payments    == 1 .. MaxPayments
NoWatermark == -1
Seconds     == 0 .. MaxClock
Versions    == 0 .. MaxTransitions + 1
Events      == [payment : Payments, version : Versions]
Nothing     == [p \in Payments |-> 0]

\* startingAfter null: before the newest payment.
FromTheTop == MaxPayments + 1

Idle == [pc |-> "idle", from |-> 0, startingAfter |-> FromTheTop, maxCreated |-> 0,
         page |-> Nothing, cursor |-> NoWatermark]

TypeOK ==
  /\ now \in Seconds
  /\ created \in [Payments -> Seconds]
  /\ version \in [Payments -> Versions]
  /\ changes \in 0 .. MaxTransitions
  /\ row \in [Payments -> Versions]
  /\ watermark \in Seconds \cup {NoWatermark}
  /\ poll \in [pc : {"idle", "fetch", "persist"}, from : Seconds,
               startingAfter : 1 .. FromTheTop, maxCreated : Seconds,
               page : [Payments -> Versions], cursor : Seconds \cup {NoWatermark}]
  /\ events \subseteq Events
  /\ lost \subseteq Events
  /\ failures \in 0 .. MaxFailures
  /\ overtaken \subseteq Payments

Init ==
  /\ now = 1
  /\ created = Nothing
  /\ version = Nothing
  /\ changes = 0
  /\ row = Nothing
  /\ watermark = NoWatermark
  /\ poll = Idle
  /\ events = {}
  /\ lost = {}
  /\ failures = 0
  /\ overtaken = {}

Exists(p) == version[p] > 0

\* A write of rows takes some payments back to an older status; a row that is
\* current is out of the history.
TakenBack   == {p \in Payments : row'[p] < row[p]}
Current     == {p \in Payments : row'[p] = version[p]}
TrackWrites == overtaken' = (overtaken \cup TakenBack) \ Current

(***************************************************************************)
(* Polling                                                                 *)
(***************************************************************************)

\* fetchIncremental with a usable cursor, fetchFull otherwise; the maximum starts
\* at the watermark, or at 0.
Open ==
  /\ poll.pc = "idle"
  /\ \E from \in {0} \cup ({watermark} \ {NoWatermark}) :
       poll' = [Idle EXCEPT !.pc = "fetch", !.from = from, !.maxCreated = from]
  /\ UNCHANGED <<stripe, row, watermark, events, lost, failures, overtaken>>

\* Mutant of Matches: created[gt].
MatchesAfter(p) == Exists(p) /\ created[p] > poll.from

\* created[gte], which lets everything through when from is 0.
Matches(p) == Exists(p) /\ created[p] >= poll.from

\* What the list has behind startingAfter.
Remaining == {p \in Payments : p < poll.startingAfter /\ Matches(p)}

\* The newest payments of the rest: a full page, or all that is left.
PageOf(rest) == {p \in rest : Cardinality({q \in rest : q > p}) < PageSize}

\* The reduce over the page, from the maximum in the page token.
MaxSeen(ps) == Max({poll.maxCreated} \cup {created[p] : p \in ps})

\* Mutants of CursorOf: a cursor with every page; one second past the last.
CursorOfEveryPage(seen, hasMore) == seen
CursorPastLast(seen, hasMore) == IF hasMore THEN NoWatermark ELSE seen + 1

\* toFetchResult: the running maximum, issued with the last page.
CursorOf(seen, hasMore) == IF hasMore THEN NoWatermark ELSE seen

FetchPage ==
  LET ps      == PageOf(Remaining)
      seen    == MaxSeen(ps)
      hasMore == ps # Remaining
  IN
  /\ poll.pc = "fetch"
  /\ poll' = [poll EXCEPT !.pc = "persist",
                          !.startingAfter = IF hasMore THEN Min(ps) ELSE FromTheTop,
                          !.maxCreated = seen,
                          !.page = [p \in Payments |-> IF p \in ps THEN version[p] ELSE 0],
                          !.cursor = CursorOf(seen, hasMore)]
  /\ UNCHANGED <<stripe, row, watermark, events, lost, failures, overtaken>>

\* The engine's transaction.  The payments are written as the list showed them.
PersistPage ==
  /\ poll.pc = "persist"
  /\ row' = [p \in Payments |-> IF poll.page[p] # 0 THEN poll.page[p] ELSE row[p]]
  /\ watermark' = IF poll.cursor # NoWatermark THEN poll.cursor ELSE watermark
  /\ poll' = IF poll.startingAfter # FromTheTop
               THEN [poll EXCEPT !.pc = "fetch", !.page = Nothing, !.cursor = NoWatermark]
               ELSE Idle
  /\ TrackWrites
  /\ UNCHANGED <<stripe, events, lost, failures>>

\* The list is refused with a requiresFullResync error: the engine drops the
\* cursor and lists everything.
FallBack ==
  /\ poll.pc = "fetch" /\ poll.from = watermark
  /\ failures < MaxFailures
  /\ failures' = failures + 1
  /\ watermark' = NoWatermark
  /\ poll' = [Idle EXCEPT !.pc = "fetch"]
  /\ UNCHANGED <<stripe, row, events, lost, overtaken>>

\* The list call or the transaction fails for good, or the process dies.
Fail ==
  /\ poll.pc # "idle"
  /\ failures < MaxFailures
  /\ failures' = failures + 1
  /\ poll' = Idle
  /\ UNCHANGED <<stripe, row, watermark, events, lost, overtaken>>

(***************************************************************************)
(* The webhook                                                             *)
(***************************************************************************)

\* Mutant of RowAfter: only an update, for lack of a row no insert.
UpdateOnly(e) == IF row[e.payment] = 0 THEN row ELSE [row EXCEPT ![e.payment] = e.version]

\* persistBatch of the one payment, as the event carries it.
RowAfter(e) == [row EXCEPT ![e.payment] = e.version]

\* The event is processed; the ledger answers later deliveries as duplicates.
Deliver(e) ==
  /\ e \in events
  /\ events' = events \ {e}
  /\ row' = RowAfter(e)
  /\ TrackWrites
  /\ UNCHANGED <<stripe, watermark, poll, lost, failures>>

\* process() rejects and the route answers 200: Stripe does not deliver it again.
Lose(e) ==
  /\ e \in events
  /\ Cardinality(lost) < MaxLost
  /\ events' = events \ {e}
  /\ lost' = lost \cup {e}
  /\ UNCHANGED <<stripe, row, watermark, poll, failures, overtaken>>

(***************************************************************************)
(* Stripe                                                                  *)
(***************************************************************************)

Tick ==
  /\ now < MaxClock
  /\ now' = now + 1
  /\ UNCHANGED <<created, version, changes, row, watermark, poll, events, lost, failures, overtaken>>

Emit(p) == events' = events \cup {[payment |-> p, version |-> version'[p]]}

Create(p) ==
  /\ ~Exists(p)
  /\ \A q \in Payments : q < p => Exists(q)
  /\ created' = [created EXCEPT ![p] = now]
  /\ version' = [version EXCEPT ![p] = 1]
  /\ Emit(p)
  /\ UNCHANGED <<now, changes, row, watermark, poll, lost, failures, overtaken>>

Transition(p) ==
  /\ Exists(p)
  /\ changes < MaxTransitions
  /\ changes' = changes + 1
  /\ version' = [version EXCEPT ![p] = @ + 1]
  /\ Emit(p)
  /\ UNCHANGED <<now, created, row, watermark, poll, lost, failures, overtaken>>

Poll == Open \/ FetchPage \/ PersistPage

Next ==
  \/ Poll
  \/ FallBack
  \/ Fail
  \/ \E e \in events : Deliver(e) \/ Lose(e)
  \/ Tick
  \/ \E p \in Payments : Create(p) \/ Transition(p)

Spec == Init /\ [][Next]_vars

\* The worker keeps starting polls and a poll goes on until it ends.  Nothing
\* is assumed of the webhook.
FairSpec == Spec /\ WF_vars(Poll)

(***************************************************************************)
(* Properties                                                              *)
(***************************************************************************)

\* Every payment created before the watermark has a row, whatever was created
\* while a poll went on, in whatever second, and wherever polls failed.
NewPaymentsSafe == \A p \in Payments : Exists(p) /\ created[p] < watermark => row[p] > 0

\* Polling alone brings every payment in, even if its webhooks never arrive.
EveryPaymentArrives == \A p \in Payments : Exists(p) ~> row[p] > 0

\* A status that is missing or out of date, behind the watermark or not, has one
\* of three causes: its event has still to come, its event was lost, or a writer
\* that had read the payment earlier came last.
StaleOnlyWithCause ==
  \A p \in Payments :
    row[p] # version[p] =>
      \/ [payment |-> p, version |-> version[p]] \in events \cup lost
      \/ p \in overtaken

=============================================================================
