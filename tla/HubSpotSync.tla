----------------------------- MODULE HubSpotSync -----------------------------
(***************************************************************************)
(* The watermark of the HubSpot adapters (integrations/hubspot: contacts   *)
(* and deals run the same code on two properties, lastmodifieddate and     *)
(* hs_lastmodifieddate), with the sync engine and the webhook handler that *)
(* write what they fetch.                                                  *)
(*                                                                         *)
(* An incremental sync searches for everything modified at the watermark   *)
(* or later, oldest first; the last record of its last page is the next    *)
(* watermark.  A full sync goes through a listing in no particular order   *)
(* and takes the largest timestamp it has seen on the way.  Adapters keep  *)
(* no state: what a listing carries along is in its page token.            *)
(*                                                                         *)
(* HubSpot is external.  Its timestamps are those of a coarse clock, so    *)
(* several changes may share one.  A continued search returns what it has  *)
(* not returned yet in its present version (it never loses its place), and *)
(* a listing ends when no object is left that it has not returned.         *)
(***************************************************************************)
EXTENDS Integers, FiniteSets, FiniteSetsExt

CONSTANTS
  Objects,      \* ids of contacts (or deals) of the account
  Handlers,     \* webhook deliveries that can be in progress at once
  PageSize,     \* PAGE_SIZE
  MaxClock,     \* bound: HubSpot's clock
  MaxVersions,  \* bound: versions of an object
  MaxFailures   \* bound: runs that fail or die

ASSUME PageSizeAssumption == PageSize \in Nat \ {0}
ASSUME BoundsAssumption   == MaxClock \in Nat \ {0} /\ {MaxVersions, MaxFailures} \subseteq Nat

VARIABLES
  now,        \* HubSpot: its clock
  version,    \* HubSpot: how often each object was written, 0 if it does not exist
  stamp,      \* HubSpot: lastmodifieddate of each object
  stored,     \* canonical table: version of each object, 0 if there is no row
  watermark,  \* sync_cursors: the token, or NoWatermark
  sync,       \* the run in progress; the lock lets one run at a time
  handler,    \* each webhook delivery in progress
  failures,   \* how many runs have failed
  raced       \* history: objects modified behind a full listing, or whose row a listing's
              \* page or a handler took back; until the row is current again

hubspot == <<now, version, stamp>>
vars    == <<hubspot, stored, watermark, sync, handler, failures, raced>>

NoWatermark == -1
Epoch       == 0
Stamps      == Epoch .. MaxClock
Versions    == 0 .. MaxVersions
Nothing     == [o \in Objects |-> 0]

Idle == [pc |-> "idle", mode |-> "incremental", from |-> Epoch, seen |-> Nothing,
         maxSeen |-> Epoch, page |-> Nothing, hasMore |-> FALSE, cursor |-> NoWatermark]

NoDelivery == [pc |-> "idle", version |-> 0]

TypeOK ==
  /\ now \in Stamps
  /\ version \in [Objects -> Versions]
  /\ stamp \in [Objects -> Stamps]
  /\ stored \in [Objects -> Versions]
  /\ watermark \in Stamps \cup {NoWatermark}
  /\ sync \in [pc : {"idle", "fetch", "persist"}, mode : {"incremental", "full"},
               from : Stamps, seen : [Objects -> Versions], maxSeen : Stamps,
               page : [Objects -> Versions], hasMore : BOOLEAN,
               cursor : Stamps \cup {NoWatermark}]
  /\ handler \in [Handlers -> [pc : {"idle"} \cup Objects, version : Versions]]
  /\ failures \in 0 .. MaxFailures
  /\ raced \subseteq Objects

Init ==
  /\ now = Epoch + 1
  /\ version = Nothing
  /\ stamp = Nothing
  /\ stored = Nothing
  /\ watermark = NoWatermark
  /\ sync = Idle
  /\ handler = [h \in Handlers |-> NoDelivery]
  /\ failures = 0
  /\ raced = {}

(***************************************************************************)
(* The sync                                                                *)
(***************************************************************************)

OpenIncremental ==
  /\ sync.pc = "idle"
  /\ watermark # NoWatermark
  /\ sync' = [Idle EXCEPT !.pc = "fetch", !.from = watermark]
  /\ UNCHANGED <<hubspot, stored, watermark, handler, failures, raced>>

\* No cursor, or one the engine takes for stale: it is not used, and kept.
OpenFull ==
  /\ sync.pc = "idle"
  /\ sync' = [Idle EXCEPT !.pc = "fetch", !.mode = "full"]
  /\ UNCHANGED <<hubspot, stored, watermark, handler, failures, raced>>

\* Mutant of Matches: operator GT.
MatchesAfter(o) == version[o] > 0 /\ stamp[o] > sync.from

\* The filter of the search: operator GTE on the watermark.
Matches(o) == version[o] > 0 /\ stamp[o] >= sync.from

\* What the search and the listing have yet to return.
ToSearch == {o \in Objects : Matches(o) /\ sync.seen[o] # version[o]}
ToList   == {o \in Objects : version[o] > 0 /\ sync.seen[o] = 0}

LatestOf(os) == Max({stamp[o] : o \in os} \cup {Epoch})

\* A page os out of due arrives, with the running maximum and the cursor.
Arrived(due, os, maxSeen, cursor) ==
  sync' = [sync EXCEPT !.pc = "persist",
                       !.seen = [o \in Objects |-> IF o \in os THEN version[o] ELSE @[o]],
                       !.page = [o \in Objects |-> IF o \in os THEN version[o] ELSE 0],
                       !.maxSeen = maxSeen,
                       !.hasMore = due # os,
                       !.cursor = cursor]

PageOf(due) ==
  {os \in SUBSET due : Cardinality(os) <= PageSize /\ (os = {} => due = {})}

\* Mutant of SearchCursor: the watermark moves past the last record, so as not
\* to fetch it again.
CursorPastLast(os, hasMore) ==
  IF hasMore \/ os = {} THEN NoWatermark ELSE LatestOf(os) + 1

\* fetchIncremental: the last record of the final page; no cursor if it is empty.
SearchCursor(os, hasMore) ==
  IF hasMore \/ os = {} THEN NoWatermark ELSE LatestOf(os)

\* Sorted by timestamp: the page holds the oldest matches, ties in any order.
SearchPage ==
  /\ sync.pc = "fetch" /\ sync.mode = "incremental"
  /\ \E os \in PageOf(ToSearch) :
       /\ \A o \in os, other \in ToSearch \ os : stamp[o] <= stamp[other]
       /\ Arrived(ToSearch, os, sync.maxSeen, SearchCursor(os, ToSearch # os))
  /\ UNCHANGED <<hubspot, stored, watermark, handler, failures, raced>>

\* Mutant of RunningMax: the page token carries no maximum.
MaxOfPage(os) == LatestOf(os)

\* The reduce over the page, from the maximum in the page token.
RunningMax(os) == Max({sync.maxSeen, LatestOf(os)})

\* Mutant of ListCursor: every page of the listing issues a cursor.
CursorOfEveryPage(maxSeen, hasMore) == maxSeen

\* fetchFull: only the page that ends the listing issues a cursor.
ListCursor(maxSeen, hasMore) == IF hasMore THEN NoWatermark ELSE maxSeen

ListPage ==
  /\ sync.pc = "fetch" /\ sync.mode = "full"
  /\ \E os \in PageOf(ToList) :
       Arrived(ToList, os, RunningMax(os), ListCursor(RunningMax(os), ToList # os))
  /\ UNCHANGED <<hubspot, stored, watermark, handler, failures, raced>>

Current(rows) == {o \in Objects : rows[o] = version[o]}
TakenBack     == {o \in Objects : stored'[o] < stored[o]}

\* The engine's transaction: the rows and, with the page that has one, the cursor.
PersistPage ==
  /\ sync.pc = "persist"
  /\ stored' = [o \in Objects |-> IF sync.page[o] # 0 THEN sync.page[o] ELSE stored[o]]
  /\ watermark' = IF sync.cursor # NoWatermark THEN sync.cursor ELSE watermark
  /\ sync' = IF sync.hasMore
               THEN [sync EXCEPT !.pc = "fetch", !.page = Nothing, !.hasMore = FALSE]
               ELSE Idle
  /\ raced' = (raced \cup {o \in TakenBack : sync.mode = "full"}) \ Current(stored')
  /\ UNCHANGED <<hubspot, handler, failures>>

\* The search is refused with a requiresFullResync error: the engine drops the
\* cursor and lists everything.
FallBack ==
  /\ sync.pc = "fetch" /\ sync.mode = "incremental"
  /\ failures < MaxFailures
  /\ failures' = failures + 1
  /\ watermark' = NoWatermark
  /\ sync' = [Idle EXCEPT !.pc = "fetch", !.mode = "full"]
  /\ UNCHANGED <<hubspot, stored, handler, raced>>

\* Any other error, or the process dies.
Fail ==
  /\ sync.pc # "idle"
  /\ failures < MaxFailures
  /\ failures' = failures + 1
  /\ sync' = Idle
  /\ UNCHANGED <<hubspot, stored, watermark, handler, raced>>

(***************************************************************************)
(* The webhook: processHubSpotEvent fetches the object and persists it.    *)
(***************************************************************************)

WebhookFetch(h, o) ==
  /\ handler[h].pc = "idle"
  /\ version[o] > 0
  /\ handler' = [handler EXCEPT ![h] = [pc |-> o, version |-> version[o]]]
  /\ UNCHANGED <<hubspot, stored, watermark, sync, failures, raced>>

\* The row is written whatever it holds.
WebhookPersist(h) ==
  LET o == handler[h].pc  v == handler[h].version IN
  /\ o # "idle"
  /\ stored' = [stored EXCEPT ![o] = v]
  /\ handler' = [handler EXCEPT ![h] = NoDelivery]
  /\ raced' = (raced \cup TakenBack) \ Current(stored')
  /\ UNCHANGED <<hubspot, watermark, sync, failures>>

\* fetchOne or the transaction fails: nothing is written, and HubSpot is
\* answered 200 all the same.
WebhookFail(h) ==
  /\ handler[h].pc # "idle"
  /\ handler' = [handler EXCEPT ![h] = NoDelivery]
  /\ UNCHANGED <<hubspot, stored, watermark, sync, failures, raced>>

(***************************************************************************)
(* HubSpot                                                                 *)
(***************************************************************************)

Tick ==
  /\ now < MaxClock
  /\ now' = now + 1
  /\ UNCHANGED <<version, stamp, stored, watermark, sync, handler, failures, raced>>

\* A full listing that is not over has already gone past o.
ListedBefore(o) ==
  /\ sync.mode = "full" /\ sync.seen[o] > 0
  /\ sync.pc = "fetch" \/ sync.hasMore

\* An object is created or modified.
Modify(o) ==
  /\ version[o] < MaxVersions
  /\ version' = [version EXCEPT ![o] = @ + 1]
  /\ stamp' = [stamp EXCEPT ![o] = now]
  /\ raced' = raced \cup {p \in {o} : ListedBefore(o)}
  /\ UNCHANGED <<now, stored, watermark, sync, handler, failures>>

SyncStep == OpenIncremental \/ OpenFull \/ SearchPage \/ ListPage \/ PersistPage

Next ==
  \/ SyncStep
  \/ FallBack
  \/ Fail
  \/ \E h \in Handlers, o \in Objects : WebhookFetch(h, o)
  \/ \E h \in Handlers : WebhookPersist(h) \/ WebhookFail(h)
  \/ Tick
  \/ \E o \in Objects : Modify(o)

Spec == Init /\ [][Next]_vars

\* The worker keeps starting runs, and a run goes on until it ends.
FairSpec == Spec /\ WF_vars(SyncStep)

(***************************************************************************)
(* Properties                                                              *)
(***************************************************************************)

Behind == {o \in Objects : stamp[o] < watermark /\ stored[o] # version[o]}

\* The watermark never passes a change that was not fetched: every object last
\* modified before it is stored in its current version.
WatermarkComplete == Behind = {}

\* What holds of it: the only objects the watermark leaves behind are those
\* modified while a full listing that had already returned them went on, and
\* those whose row such a listing or a webhook handler took back to the version
\* it had fetched.  The search and its ties never lose a change.
LostOnlyToRaces == Behind \subseteq raced

\* Pages in any order, changes of equal timestamps and a listing started afresh
\* never move the watermark back; only the fallback drops it.
WatermarkNeverRegresses == [][watermark' < watermark => watermark' = NoWatermark]_vars

\* When no race is left standing, the runs bring every row level with HubSpot
\* and keep it so.
CatchesUp == <>[](raced = {}) => <>[](stored = version)

=============================================================================
