---------------------------- MODULE RevenueReport ----------------------------
(***************************************************************************)
(* "Total Revenue Collected": how a payment's raw status becomes a         *)
(* canonical one through the mapping each process loads when it starts     *)
(* (configurable-payment-status-mapper.ts), and the report that           *)
(* RevenueCalculator makes out of two queries that run side by side, with  *)
(* its day, week and month buckets (prisma-revenue.repository.ts).         *)
(*                                                                         *)
(* Instants are hours since 1970-01-01T00:00Z.  date_trunc belongs to      *)
(* PostgreSQL and Date.UTC to JavaScript: both are written here over one   *)
(* calendar.  A group of payments stands for its SUM and its COUNT.        *)
(*                                                                         *)
(* Which raw status a run or a webhook sees of a payment, and when, is     *)
(* StripePayments; here any process writes any status at any time.  A      *)
(* process holds the mapping from its start to its end, so normalizing a   *)
(* payment and writing its row are one step.                               *)
(***************************************************************************)
EXTENDS Integers, FiniteSets

CONSTANTS
  Payments,      \* payments of one provider and currency
  OccurredAt,    \* their occurredAt
  RawStatuses,   \* spellings of the provider's statuses
  Folded,        \* the spelling, trimmed and in lower case
  Seeds,         \* the mapping table at first, Unmapped where it has no row
  EditStatuses,  \* bound: the statuses an operator assigns
  Procs,         \* processes: API servers and workers
  Queries,       \* query strings: from and to, either may be Absent
  Now,           \* when the queries are made
  MaxEdits,      \* bound: edits of the mapping table
  MaxWrites      \* bound: payments written

VARIABLES
  mapping,   \* payment_status_mappings
  cache,     \* each process: ConfigurablePaymentStatusMapper.cache
  rows,      \* canonical_payments: raw and canonical status
  report,    \* the report being made, or the last one
  edits,     \* how often the table was edited
  loadedAt,  \* history: the edits each process had seen when it loaded its cache
  asOf,      \* history: loadedAt of the process that wrote a row
  written,   \* how many payments were written
  touched    \* history: payments written since the report began

vars == <<mapping, cache, rows, report, edits, loadedAt, asOf, written, touched>>

CanonicalStatuses == {"collected", "pending", "failed", "refunded", "cancelled", "unknown"}
Unmapped == "unmapped"
Absent   == -1
NoRow    == [raw |-> "none", status |-> "none"]

\* REVENUE_COLLECTED_STATUSES.
CollectedStatuses == {"collected"}

Keys == {Folded[s] : s \in RawStatuses}

ASSUME CalendarAssumption == OccurredAt \in [Payments -> Nat] /\ Now \in Nat
ASSUME SpellingAssumption ==
  /\ Folded \in [RawStatuses -> RawStatuses]
  /\ \A s \in RawStatuses : Folded[Folded[s]] = Folded[s]
ASSUME MappingAssumption ==
  /\ Seeds \in [RawStatuses -> CanonicalStatuses \cup {Unmapped}]
  /\ EditStatuses \subseteq CanonicalStatuses
ASSUME QueryAssumption == Queries \subseteq [from : Nat \cup {Absent}, to : Nat \cup {Absent}]
ASSUME BoundsAssumption == MaxEdits \in Nat /\ MaxWrites \in Nat

(***************************************************************************)
(* The calendar                                                            *)
(***************************************************************************)

Day == 24

Leap(y) == y % 4 = 0 /\ (y % 100 # 0 \/ y % 400 = 0)

LeapDays(y) == y \div 4 - y \div 100 + y \div 400

DaysBefore == <<0, 31, 59, 90, 120, 151, 181, 212, 243, 273, 304, 334>>

\* The day on which month m of year y begins; month 13 is January of the next year.
FirstOf(y, m) ==
  LET year  == IF m = 13 THEN y + 1 ELSE y
      month == IF m = 13 THEN 1 ELSE m
  IN  365 * (year - 1970) + LeapDays(year - 1) - LeapDays(1969)
        + DaysBefore[month] + (IF Leap(year) /\ month > 2 THEN 1 ELSE 0)

\* Year and month of day d.
YearMonth(d) ==
  CHOOSE ym \in ((1970 + d \div 366) .. (1970 + d \div 365)) \X (1 .. 12) :
    FirstOf(ym[1], ym[2]) <= d /\ d < FirstOf(ym[1], ym[2] + 1)

(***************************************************************************)
(* Buckets                                                                 *)
(***************************************************************************)

Granularities == {"total", "day", "week", "month"}

\* date_trunc; the week begins on Monday, and 1970-01-01 was a Thursday.  A total
\* has one bucket, from the start of the range.
BucketStart(g, t, range) ==
  LET ym == YearMonth(t \div Day) IN
  CASE g = "day"   -> t - (t % Day)
    [] g = "week"  -> t - ((t + 3 * Day) % (7 * Day))
    [] g = "month" -> Day * FirstOf(ym[1], ym[2])
    [] g = "total" -> range.start

\* Mutant of BucketEnd: a month has thirty days.
BucketEndOfDays(g, start, range) ==
  start + Day * (CASE g = "day" -> 1 [] g = "week" -> 7 [] OTHER -> 30)

\* computeBucketEnd.
BucketEnd(g, start, range) ==
  LET ym == YearMonth(start \div Day) IN
  CASE g = "day"   -> start + Day
    [] g = "week"  -> start + 7 * Day
    [] g = "month" -> Day * FirstOf(ym[1], ym[2] + 1)
    [] g = "total" -> range.end

(***************************************************************************)
(* The mapping                                                             *)
(***************************************************************************)

\* Mutant of Loads: a missing key stays undefined.
LoadsWithoutDefault == {[k \in Keys |-> mapping[k]]}

\* refresh: what a process may load.  findMany orders nothing: of two spellings that
\* fold to one key the last row read wins.  A key without a row maps to unknown.
Loads ==
  LET Given(k) == {mapping[s] : s \in {x \in RawStatuses : Folded[x] = k}} \ {Unmapped}
  IN  {c \in [Keys -> CanonicalStatuses] :
         \A k \in Keys : IF Given(k) = {} THEN c[k] = "unknown" ELSE c[k] \in Given(k)}

\* The table is edited: prisma/seed.ts, SQL, or the repository's upsert.  Nothing
\* tells the processes.
Edit(s, status) ==
  /\ edits < MaxEdits
  /\ mapping[s] # status
  /\ mapping' = [mapping EXCEPT ![s] = status]
  /\ edits' = edits + 1
  /\ UNCHANGED <<cache, rows, report, loadedAt, asOf, written, touched>>

\* A process ends and starts again: buildCompositionRoot awaits refresh().
Start(proc) ==
  /\ loadedAt[proc] # edits
  /\ \E c \in Loads : cache' = [cache EXCEPT ![proc] = c]
  /\ loadedAt' = [loadedAt EXCEPT ![proc] = edits]
  /\ UNCHANGED <<mapping, rows, report, edits, asOf, written, touched>>

\* Mutant of Mapped: only the keys are folded.
MappedExact(proc, raw) == IF raw \in Keys THEN cache[proc][raw] ELSE "unknown"

\* map: the raw status of the payment through the cache of the process.
Mapped(proc, raw) == cache[proc][Folded[raw]]

\* normalize and upsertPayment, in a run or for a webhook.
Write(proc, p, raw) ==
  /\ written < MaxWrites
  /\ rows' = [rows EXCEPT ![p] = [raw |-> raw, status |-> Mapped(proc, raw)]]
  /\ asOf' = [asOf EXCEPT ![p] = loadedAt[proc]]
  /\ written' = written + 1
  /\ touched' = touched \cup {p}
  /\ UNCHANGED <<mapping, cache, report, edits, loadedAt>>

(***************************************************************************)
(* The report                                                              *)
(***************************************************************************)

Idle == [pc |-> "idle", granularity |-> "total", range |-> [start |-> 0, end |-> 0],
         due |-> {}, buckets |-> {}, warned |-> {}]

\* resolveDateRange: to is now and from thirty days before to, unless given.
Resolve(query) ==
  LET to == IF query.to = Absent THEN Now ELSE query.to
  IN  [start |-> IF query.from = Absent THEN to - 30 * Day ELSE query.from, end |-> to]

\* WHERE occurred_at >= start AND occurred_at < end.
InRange(t, range) == range.start <= t /\ t < range.end

\* The request: calculate starts both queries; DateRange.of refuses an empty range.
Begin(query, g) ==
  LET range == Resolve(query) IN
  /\ report.due = {}
  /\ range.start < range.end
  /\ report' = [Idle EXCEPT !.pc = "querying", !.granularity = g, !.range = range,
                            !.due = {"aggregate", "unknown"}]
  /\ touched' = {}
  /\ UNCHANGED <<mapping, cache, rows, edits, loadedAt, asOf, written>>

\* Payments in the range whose rows have one of the statuses.
Selected(statuses) ==
  {p \in Payments : rows[p].status \in statuses /\ InRange(OccurredAt[p], report.range)}

\* The rows aggregate sums up.
Counted == Selected(CollectedStatuses)

\* The report once a query is answered: done when both are.
Answered(query, r) ==
  [r EXCEPT !.due = @ \ {query}, !.pc = IF r.due = {query} THEN "done" ELSE "querying"]

\* aggregate: one group for each start of a bucket.
Aggregate ==
  LET StartOf(p) == BucketStart(report.granularity, OccurredAt[p], report.range) IN
  /\ "aggregate" \in report.due
  /\ report' = [Answered("aggregate", report) EXCEPT !.buckets =
                  {[start    |-> at,
                    end      |-> BucketEnd(report.granularity, at, report.range),
                    payments |-> {p \in Counted : StartOf(p) = at}]
                      : at \in {StartOf(p) : p \in Counted}}]
  /\ UNCHANGED <<mapping, cache, rows, edits, loadedAt, asOf, written, touched>>

\* findUnknownStatuses.
FindUnknown ==
  /\ "unknown" \in report.due
  /\ report' = [Answered("unknown", report) EXCEPT !.warned = Selected({"unknown"})]
  /\ UNCHANGED <<mapping, cache, rows, edits, loadedAt, asOf, written, touched>>

\* Either query fails: Promise.all rejects and there is no report.
QueryFails ==
  /\ report.due # {}
  /\ report' = Idle
  /\ UNCHANGED <<mapping, cache, rows, edits, loadedAt, asOf, written, touched>>

(***************************************************************************)
(* Specification                                                           *)
(***************************************************************************)

Init ==
  /\ mapping = Seeds
  /\ cache \in [Procs -> Loads]
  /\ rows = [p \in Payments |-> NoRow]
  /\ report = Idle
  /\ edits = 0
  /\ loadedAt = [proc \in Procs |-> 0]
  /\ asOf = [p \in Payments |-> 0]
  /\ written = 0
  /\ touched = {}

Next ==
  \/ \E s \in RawStatuses, status \in EditStatuses : Edit(s, status)
  \/ \E proc \in Procs : Start(proc)
  \/ \E proc \in Procs, p \in Payments, raw \in RawStatuses : Write(proc, p, raw)
  \/ \E query \in Queries, g \in Granularities : Begin(query, g)
  \/ Aggregate
  \/ FindUnknown
  \/ QueryFails

Spec == Init /\ [][Next]_vars

(***************************************************************************)
(* Properties                                                              *)
(***************************************************************************)

\* The types of the variables: a row's status is one the database's CHECK allows
\* (payment_canonical_status_valid), and a report's bucket counts at least one row.
TypeOK ==
  /\ mapping \in [RawStatuses -> CanonicalStatuses \cup {Unmapped}]
  /\ cache \in [Procs -> [Keys -> CanonicalStatuses]]
  /\ rows \in [Payments -> [raw : RawStatuses, status : CanonicalStatuses] \cup {NoRow}]
  /\ report.pc \in {"idle", "querying", "done"}
  /\ report.granularity \in Granularities
  /\ report.range \in [start : Int, end : Int]
  /\ report.due \subseteq {"aggregate", "unknown"}
  /\ (report.pc = "querying") <=> (report.due # {})
  /\ \A b \in report.buckets :
       b.start \in Int /\ b.end \in Int /\ b.payments \in (SUBSET Payments) \ {{}}
  /\ report.warned \subseteq Payments
  /\ edits \in 0 .. MaxEdits
  /\ loadedAt \in [Procs -> 0 .. MaxEdits]
  /\ asOf \in [Payments -> 0 .. MaxEdits]
  /\ written \in 0 .. MaxWrites
  /\ touched \subseteq Payments

\* A finished report accounts for every payment nobody wrote while it was made: one in
\* the range is in exactly one bucket, which covers its time, if it is collected, and in
\* the warnings if its status is unknown; any other is in neither.  Buckets never
\* overlap, whatever the month.  (A payment written between the two queries may be in
\* both, in spite of revenue-report.ts:18, or in neither.)
AccountedOnce ==
  report.pc = "done" =>
    /\ \A p \in Payments \ touched :
         LET mine   == {b \in report.buckets : p \in b.payments}
             inside == /\ report.range.start <= OccurredAt[p]
                       /\ OccurredAt[p] < report.range.end
         IN  /\ Cardinality(mine) = IF inside /\ rows[p].status = "collected" THEN 1 ELSE 0
             /\ \A b \in mine : b.start <= OccurredAt[p] /\ OccurredAt[p] < b.end
             /\ p \in report.warned <=> inside /\ rows[p].status = "unknown"
    /\ \A b, c \in report.buckets : b = c \/ b.end <= c.start \/ c.end <= b.start

\* A row written by a process that has loaded the latest table has a status which that
\* table gives to some spelling of the row's raw status, unknown if it gives none: only an
\* edit that a process has not loaded makes rows differ from the table.
StaleOnlyAfterEdit ==
  \A p \in Payments :
    rows[p] # NoRow /\ asOf[p] = edits =>
      LET given == {mapping[s] : s \in {x \in RawStatuses : Folded[x] = Folded[rows[p].raw]}}
                     \ {Unmapped}
      IN  IF given = {} THEN rows[p].status = "unknown" ELSE rows[p].status \in given

=============================================================================
