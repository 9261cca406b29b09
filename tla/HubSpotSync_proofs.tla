-------------------------- MODULE HubSpotSync_proofs --------------------------
(***************************************************************************)
(* Theorems about HubSpotSync, for any objects, handlers, page size, clock *)
(* and number of versions and of failures.                                 *)
(***************************************************************************)
EXTENDS HubSpotSync, WellFoundedInduction, TLAPS

(***************************************************************************)
(* The reduce over a page                                                  *)
(***************************************************************************)

\* A set of naturals with a bound has a largest element.
LEMMA LargestExists ==
  ASSUME NEW S \in SUBSET Nat, S # {}, NEW b \in Nat, \A x \in S : x <= b
  PROVE  \E x \in S : \A y \in S : x >= y
<1> DEFINE Above == {n \in Nat : \A y \in S : y <= n}
<1>1. PICK n \in Above : \A m \in Above : ~(<<m, n>> \in OpToRel(<, Nat))
  <2>1. Above # {} /\ Above \subseteq Nat
    OBVIOUS
  <2> HIDE DEF Above
  <2> QED
    BY <2>1, NatLessThanWellFounded, WFMin
<1>2. \A m \in Above : ~(m < n)
  BY <1>1 DEF OpToRel
<1>3. CASE n \in S
  BY <1>3
<1>4. CASE n \notin S
  <2>1. PICK x \in S : TRUE
    OBVIOUS
  <2>2. n - 1 \in Nat /\ \A y \in S : y <= n - 1
    BY <1>4, <2>1
  <2> QED
    BY <1>2, <2>2
<1> QED
  BY <1>3, <1>4

\* Max picks it.
LEMMA MaxOf ==
  ASSUME NEW S \in SUBSET Nat, S # {}, NEW b \in Nat, \A x \in S : x <= b
  PROVE  Max(S) \in S /\ \A y \in S : y <= Max(S)
<1>1. PICK x \in S : \A y \in S : x >= y
  BY LargestExists
<1>2. Max(S) \in S /\ \A y \in S : Max(S) >= y
  BY <1>1 DEF Max
<1> QED
  BY <1>2

\* The largest stamp on a page is reached by an object of it, if it is later than the epoch.
LEMMA Latest ==
  ASSUME TypeOK, NEW os \in SUBSET Objects
  PROVE  /\ LatestOf(os) \in Stamps
         /\ \A o \in os : stamp[o] <= LatestOf(os)
         /\ LatestOf(os) = Epoch \/ \E o \in os : stamp[o] = LatestOf(os)
<1> DEFINE S == {stamp[o] : o \in os} \cup {Epoch}
<1>1. Epoch \in Stamps /\ MaxClock \in Nat /\ Stamps \subseteq Nat
      /\ \A n \in Stamps : n <= MaxClock
  BY BoundsAssumption DEF Stamps, Epoch
<1>2. S \subseteq Stamps /\ S # {}
  BY <1>1 DEF TypeOK
<1>3. S \in SUBSET Nat /\ \A x \in S : x <= MaxClock
  BY <1>1, <1>2
<1>4. Max(S) \in S /\ \A y \in S : y <= Max(S)
  <2> HIDE DEF S
  <2> QED
    BY <1>1, <1>2, <1>3, MaxOf
<1>5. LatestOf(os) = Max(S)
  BY DEF LatestOf
<1>6. \A o \in os : stamp[o] \in S
  OBVIOUS
<1> QED
  BY <1>2, <1>4, <1>5, <1>6

\* The running maximum is one of the two it is taken of, and at least both.
LEMMA Running ==
  ASSUME TypeOK, NEW os \in SUBSET Objects
  PROVE  /\ RunningMax(os) \in Stamps
         /\ RunningMax(os) \in {sync.maxSeen, LatestOf(os)}
         /\ sync.maxSeen <= RunningMax(os) /\ LatestOf(os) <= RunningMax(os)
<1> DEFINE S == {sync.maxSeen, LatestOf(os)}
<1>1. S \subseteq Stamps /\ S # {}
  BY Latest DEF TypeOK
<1>2. MaxClock \in Nat /\ S \in SUBSET Nat /\ \A x \in S : x <= MaxClock
  BY <1>1, BoundsAssumption DEF Stamps, Epoch
<1>3. Max(S) \in S /\ \A y \in S : y <= Max(S)
  <2> HIDE DEF S
  <2> QED
    BY <1>1, <1>2, MaxOf
<1> QED
  BY <1>1, <1>3 DEF RunningMax

(***************************************************************************)
(* Types                                                                   *)
(***************************************************************************)

Watermarks == Stamps \cup {NoWatermark}

SyncType == [pc : {"idle", "fetch", "persist"}, mode : {"incremental", "full"},
             from : Stamps, seen : [Objects -> Versions], maxSeen : Stamps,
             page : [Objects -> Versions], hasMore : BOOLEAN, cursor : Watermarks]

HandlerType == [Handlers -> [pc : {"idle"} \cup Objects, version : Versions]]

LEMMA ConstantTypes ==
  /\ Epoch = 0 /\ NoWatermark = -1
  /\ Stamps \subseteq Nat /\ Epoch \in Stamps /\ Epoch + 1 \in Stamps
  /\ Versions \subseteq Nat /\ 0 \in Versions
  /\ MaxFailures \in Nat /\ MaxClock \in Nat /\ MaxVersions \in Nat
  BY BoundsAssumption DEF Epoch, NoWatermark, Stamps, Versions

\* An account with nothing in it, and a run that has not begun.
LEMMA NothingTyped ==
  Nothing \in [Objects -> Versions] /\ \A o \in Objects : Nothing[o] = 0
  BY ConstantTypes DEF Nothing

LEMMA IdleTyped ==
  /\ Idle \in SyncType /\ Idle.pc = "idle" /\ Idle.mode = "incremental" /\ Idle.from = Epoch
  /\ Idle.seen = Nothing /\ Idle.page = Nothing /\ Idle.maxSeen = Epoch
  /\ Idle.cursor = NoWatermark /\ Idle.hasMore = FALSE
  BY ConstantTypes, NothingTyped DEF Idle, SyncType, Watermarks

\* A run that begins, incremental or full.
LEMMA OpenTyped ==
  ASSUME NEW from \in Stamps, NEW mode \in {"incremental", "full"},
         sync' = [Idle EXCEPT !.pc = "fetch", !.mode = mode, !.from = from]
  PROVE  /\ sync' \in SyncType /\ sync'.pc = "fetch" /\ sync'.mode = mode /\ sync'.from = from
         /\ sync'.seen = Nothing /\ sync'.page = Nothing /\ sync'.maxSeen = Epoch
         /\ sync'.cursor = NoWatermark /\ sync'.hasMore = FALSE
  BY IdleTyped DEF SyncType

LEMMA OpensWith ==
  ASSUME TypeOK
  PROVE  /\ OpenIncremental =>
              watermark \in Stamps
              /\ sync' = [Idle EXCEPT !.pc = "fetch", !.mode = "incremental", !.from = watermark]
         /\ OpenFull \/ FallBack =>
              sync' = [Idle EXCEPT !.pc = "fetch", !.mode = "full", !.from = Epoch]
  BY IdleTyped DEF OpenIncremental, OpenFull, FallBack, TypeOK, SyncType, Idle

\* What a page makes of the run.
LEMMA ArrivedTyped ==
  ASSUME TypeOK, NEW os \in SUBSET Objects, NEW due, NEW maxSeen \in Stamps,
         NEW cursor \in Watermarks, Arrived(due, os, maxSeen, cursor)
  PROVE  /\ sync' \in SyncType /\ sync'.pc = "persist"
         /\ sync'.mode = sync.mode /\ sync'.from = sync.from
         /\ sync'.maxSeen = maxSeen /\ sync'.cursor = cursor /\ sync'.hasMore = (due # os)
         /\ \A o \in Objects :
              /\ sync'.seen[o] = IF o \in os THEN version[o] ELSE sync.seen[o]
              /\ sync'.page[o] = IF o \in os THEN version[o] ELSE 0
<1> DEFINE seen == [o \in Objects |-> IF o \in os THEN version[o] ELSE sync.seen[o]]
           page == [o \in Objects |-> IF o \in os THEN version[o] ELSE 0]
<1>1. sync \in SyncType
  BY DEF TypeOK, SyncType, Watermarks
<1>2. seen \in [Objects -> Versions] /\ page \in [Objects -> Versions]
  BY <1>1, ConstantTypes DEF TypeOK, SyncType
<1>3. sync' = [sync EXCEPT !.pc = "persist", !.seen = seen, !.page = page, !.maxSeen = maxSeen,
                           !.hasMore = due # os, !.cursor = cursor]
  BY DEF Arrived
<1>4. \A o \in Objects : /\ seen[o] = IF o \in os THEN version[o] ELSE sync.seen[o]
                         /\ page[o] = IF o \in os THEN version[o] ELSE 0
  OBVIOUS
<1> HIDE DEF seen, page
<1> QED
  BY <1>1, <1>2, <1>3, <1>4 DEF SyncType

\* A page of the search: the oldest of what is due.
LEMMA SearchTyped ==
  ASSUME TypeOK, SearchPage
  PROVE  \E os \in SUBSET ToSearch :
           /\ SearchCursor(os, ToSearch # os) \in Watermarks
           /\ Arrived(ToSearch, os, sync.maxSeen, SearchCursor(os, ToSearch # os))
           /\ \A o \in os, other \in ToSearch \ os : stamp[o] <= stamp[other]
<1>1. PICK os \in PageOf(ToSearch) :
        /\ \A o \in os, other \in ToSearch \ os : stamp[o] <= stamp[other]
        /\ Arrived(ToSearch, os, sync.maxSeen, SearchCursor(os, ToSearch # os))
  BY DEF SearchPage
<1>2. os \in SUBSET ToSearch
  BY DEF PageOf
<1>3. os \in SUBSET Objects
  BY <1>2 DEF ToSearch
<1>4. SearchCursor(os, ToSearch # os) \in Watermarks
  BY <1>3, Latest DEF SearchCursor, Watermarks
<1> QED
  BY <1>1, <1>2, <1>4

\* A page of the listing.
LEMMA ListTyped ==
  ASSUME TypeOK, ListPage
  PROVE  \E os \in SUBSET ToList :
           /\ ListCursor(RunningMax(os), ToList # os) \in Watermarks
           /\ Arrived(ToList, os, RunningMax(os), ListCursor(RunningMax(os), ToList # os))
<1>1. PICK os \in PageOf(ToList) :
        Arrived(ToList, os, RunningMax(os), ListCursor(RunningMax(os), ToList # os))
  BY DEF ListPage
<1>2. os \in SUBSET ToList
  BY DEF PageOf
<1>3. os \in SUBSET Objects
  BY <1>2 DEF ToList
<1>4. ListCursor(RunningMax(os), ToList # os) \in Watermarks
  BY <1>3, Running DEF ListCursor, Watermarks
<1> QED
  BY <1>1, <1>2, <1>4

\* What the transaction makes of the run: its next page, or its end.
LEMMA PersistTyped ==
  ASSUME TypeOK, PersistPage
  PROVE  /\ sync' \in SyncType
         /\ sync.hasMore => /\ sync'.pc = "fetch" /\ sync'.mode = sync.mode
                            /\ sync'.from = sync.from /\ sync'.seen = sync.seen
                            /\ sync'.maxSeen = sync.maxSeen /\ sync'.cursor = sync.cursor
                            /\ sync'.page = Nothing /\ sync'.hasMore = FALSE
         /\ ~sync.hasMore => sync' = Idle
         /\ stored' \in [Objects -> Versions]
         /\ \A o \in Objects :
              stored'[o] = IF sync.page[o] # 0 THEN sync.page[o] ELSE stored[o]
         /\ watermark' \in Watermarks
<1>1. sync \in SyncType
  BY DEF TypeOK, SyncType, Watermarks
<1>2. CASE sync.hasMore
  <2>1. sync' = [sync EXCEPT !.pc = "fetch", !.page = Nothing, !.hasMore = FALSE]
    BY <1>2 DEF PersistPage
  <2> QED
    BY <1>1, <1>2, <2>1, NothingTyped DEF SyncType, PersistPage, TypeOK, Watermarks
<1>3. CASE ~sync.hasMore
  BY <1>1, <1>3, IdleTyped DEF SyncType, PersistPage, TypeOK, Watermarks
<1> QED
  BY <1>2, <1>3

LEMMA TypeInit == Init => TypeOK
  BY ConstantTypes, NothingTyped, IdleTyped DEF Init, TypeOK, SyncType, Watermarks, NoDelivery

LEMMA TypeNext == TypeOK /\ [Next]_vars => TypeOK'
<1> SUFFICES ASSUME TypeOK, [Next]_vars PROVE TypeOK'
  OBVIOUS
<1>a. ASSUME UNCHANGED <<now, version, stamp, handler>>,
             stored' \in [Objects -> Versions], watermark' \in Watermarks, sync' \in SyncType,
             failures' \in 0 .. MaxFailures, raced' \subseteq Objects
      PROVE  TypeOK'
  BY <1>a DEF TypeOK, SyncType, Watermarks
<1>b. /\ stored \in [Objects -> Versions] /\ watermark \in Watermarks /\ sync \in SyncType
      /\ failures \in 0 .. MaxFailures /\ raced \subseteq Objects
  BY DEF TypeOK, SyncType, Watermarks
<1>c. failures < MaxFailures => failures + 1 \in 0 .. MaxFailures
  BY <1>b, ConstantTypes
<1>1. CASE OpenIncremental
  <2>1. sync' \in SyncType
    BY <1>1, OpensWith, OpenTyped
  <2> QED
    BY <1>1, <1>a, <1>b, <2>1 DEF OpenIncremental, hubspot
<1>2. CASE OpenFull
  <2>1. sync' \in SyncType
    BY <1>2, OpensWith, OpenTyped, ConstantTypes
  <2> QED
    BY <1>2, <1>a, <1>b, <2>1 DEF OpenFull, hubspot
<1>3. CASE SearchPage
  <2>1. sync' \in SyncType
    <3>1. PICK os \in SUBSET ToSearch :
            /\ SearchCursor(os, ToSearch # os) \in Watermarks
            /\ Arrived(ToSearch, os, sync.maxSeen, SearchCursor(os, ToSearch # os))
      BY <1>3, SearchTyped
    <3>2. os \in SUBSET Objects /\ sync.maxSeen \in Stamps
      BY <1>b DEF ToSearch, SyncType
    <3> QED
      BY <3>1, <3>2, ArrivedTyped
  <2> QED
    BY <1>3, <1>a, <1>b, <2>1 DEF SearchPage, hubspot
<1>4. CASE ListPage
  <2>1. sync' \in SyncType
    <3>1. PICK os \in SUBSET ToList :
            /\ ListCursor(RunningMax(os), ToList # os) \in Watermarks
            /\ Arrived(ToList, os, RunningMax(os), ListCursor(RunningMax(os), ToList # os))
      BY <1>4, ListTyped
    <3>2. os \in SUBSET Objects
      BY DEF ToList
    <3>3. RunningMax(os) \in Stamps
      BY <3>2, Running
    <3> QED
      BY <3>1, <3>2, <3>3, ArrivedTyped
  <2> QED
    BY <1>4, <1>a, <1>b, <2>1 DEF ListPage, hubspot
<1>5. CASE PersistPage
  <2>1. raced' \subseteq Objects
    BY <1>5, <1>b DEF PersistPage, TakenBack
  <2> QED
    BY <1>5, <1>a, <1>b, <2>1, PersistTyped DEF PersistPage, hubspot
<1>6. CASE FallBack
  <2>1. sync' \in SyncType
    BY <1>6, OpensWith, OpenTyped, ConstantTypes
  <2> QED
    BY <1>6, <1>a, <1>b, <1>c, <2>1 DEF FallBack, hubspot, Watermarks
<1>7. CASE Fail
  BY <1>7, <1>a, <1>b, <1>c, IdleTyped DEF Fail, hubspot
<1>8. ASSUME NEW h \in Handlers, NEW o \in Objects, WebhookFetch(h, o)
      PROVE  TypeOK'
  <2>1. handler' \in HandlerType
    BY <1>8 DEF WebhookFetch, TypeOK, HandlerType
  <2> QED
    BY <1>8, <2>1 DEF WebhookFetch, hubspot, TypeOK, HandlerType
<1>9. ASSUME NEW h \in Handlers, WebhookPersist(h) \/ WebhookFail(h)
      PROVE  TypeOK'
  <2>1. handler' \in HandlerType
    BY <1>9, ConstantTypes DEF WebhookPersist, WebhookFail, NoDelivery, TypeOK, HandlerType
  <2>2. stored' \in [Objects -> Versions]
    BY <1>9 DEF WebhookPersist, WebhookFail, TypeOK
  <2>3. raced' \subseteq Objects
    BY <1>9, <1>b DEF WebhookPersist, WebhookFail, TakenBack
  <2> QED
    BY <1>9, <2>1, <2>2, <2>3 DEF WebhookPersist, WebhookFail, hubspot, TypeOK, HandlerType
<1>10. CASE Tick
  BY <1>10, ConstantTypes DEF Tick, TypeOK, Stamps
<1>11. ASSUME NEW o \in Objects, Modify(o)
       PROVE  TypeOK'
  <2>1. version' \in [Objects -> Versions]
    BY <1>11, ConstantTypes DEF Modify, TypeOK, Versions
  <2>2. stamp' \in [Objects -> Stamps] /\ raced' \subseteq Objects
    BY <1>11 DEF Modify, TypeOK
  <2> QED
    BY <1>11, <2>1, <2>2 DEF Modify, TypeOK
<1>12. CASE UNCHANGED vars
  BY <1>12 DEF vars, hubspot, TypeOK
<1> QED
  BY <1>1, <1>2, <1>3, <1>4, <1>5, <1>6, <1>7, <1>8, <1>9, <1>10, <1>11, <1>12
     DEF Next, SyncStep

\* For any account, page size and number of deliveries: the tables, the run and the
\* deliveries in progress stay within their types (hubspot-contact-provider.ts).
THEOREM TypeCorrect == Spec => []TypeOK
  BY TypeInit, TypeNext, PTL DEF Spec

(***************************************************************************)
(* The watermark and the rows                                              *)
(***************************************************************************)

\* The row is current, or a race has taken it back.
Settled(o) == stored[o] = version[o] \/ o \in raced

\* The page in hand has the present version.
InHand(o) == sync.page[o] = version[o]

\* Nothing that was fetched is newer than HubSpot, and no position is ahead of its clock.
Bounds ==
  /\ watermark <= now /\ sync.cursor <= now /\ sync.maxSeen <= now
  /\ \A o \in Objects : /\ stamp[o] <= now
                        /\ version[o] = 0 => stamp[o] = Epoch
                        /\ stored[o] <= version[o] /\ sync.seen[o] <= version[o]
                        /\ sync.page[o] # 0 => sync.page[o] = sync.seen[o]
  /\ \A h \in Handlers : handler[h].pc # "idle" => handler[h].version <= version[handler[h].pc]

\* A page is in hand until it is saved; only the last page of a run has a cursor, and
\* the last page of a listing always has one.
Phases ==
  /\ sync.pc # "persist" =>
       sync.page = Nothing /\ sync.cursor = NoWatermark /\ sync.hasMore = FALSE
  /\ sync.hasMore => sync.cursor = NoWatermark
  /\ sync.pc = "persist" /\ sync.mode = "full" /\ ~sync.hasMore => sync.cursor # NoWatermark
  /\ sync.pc # "idle" /\ sync.mode = "incremental" => sync.from = watermark
  /\ sync.pc = "idle" => sync.mode = "incremental"

\* A search has settled what it has returned in its present version, and returns
\* nothing that was behind the watermark.
SearchedSettled ==
  sync.mode = "incremental" =>
    \A o \in Objects : /\ sync.seen[o] = version[o] => Settled(o) \/ InHand(o)
                       /\ sync.page[o] # 0 => stamp[o] >= sync.from

\* A listing that is not over has settled all it has returned, races included.
ListedSettled ==
  sync.mode = "full" /\ sync.cursor = NoWatermark =>
    \A o \in Objects : sync.seen[o] > 0 => Settled(o) \/ InHand(o)

\* What is behind the cursor of a last page is settled once the page is saved.
CursorSettled ==
  sync.cursor # NoWatermark =>
    \A o \in Objects : stamp[o] < sync.cursor =>
                         sync.page[o] \in {0, version[o]} /\ (Settled(o) \/ InHand(o))

\* LostOnlyToRaces, object by object.
WatermarkSettled == \A o \in Objects : stamp[o] < watermark => Settled(o)

RaceInv ==
  Bounds /\ Phases /\ SearchedSettled /\ ListedSettled /\ CursorSettled /\ WatermarkSettled

\* The numbers that the invariants compare.
LEMMA Numbers ==
  ASSUME TypeOK
  PROVE  /\ now \in Nat /\ watermark \in Int /\ sync.cursor \in Int /\ sync.from \in Nat
         /\ sync.maxSeen \in Nat
         /\ \A o \in Objects : /\ stamp[o] \in Nat /\ version[o] \in Nat /\ stored[o] \in Nat
                               /\ sync.seen[o] \in Nat /\ sync.page[o] \in Nat
         /\ Epoch = 0 /\ NoWatermark = -1
         /\ watermark # NoWatermark => watermark \in Nat
         /\ sync.cursor # NoWatermark => sync.cursor \in Nat
<1>1. sync \in SyncType
  BY DEF TypeOK, SyncType, Watermarks
<1>2. /\ sync.cursor \in Watermarks /\ sync.from \in Stamps /\ sync.maxSeen \in Stamps
      /\ sync.seen \in [Objects -> Versions] /\ sync.page \in [Objects -> Versions]
  BY <1>1 DEF SyncType
<1>3. watermark \in Watermarks /\ now \in Stamps
  BY DEF TypeOK, Watermarks
<1>4. \A n \in Watermarks : n \in Int /\ (n # NoWatermark => n \in Nat)
  BY ConstantTypes DEF Watermarks
<1>5. \A o \in Objects : /\ stamp[o] \in Nat /\ version[o] \in Nat /\ stored[o] \in Nat
                         /\ sync.seen[o] \in Nat /\ sync.page[o] \in Nat
  BY <1>2, ConstantTypes DEF TypeOK
<1> QED
  BY <1>2, <1>3, <1>4, <1>5, ConstantTypes

LEMMA RaceInit == Init => RaceInv
<1> SUFFICES ASSUME Init PROVE RaceInv
  OBVIOUS
<1>1. /\ now = 1 /\ watermark = NoWatermark /\ sync = Idle
      /\ \A o \in Objects : stamp[o] = 0 /\ version[o] = 0 /\ stored[o] = 0
      /\ \A h \in Handlers : handler[h].pc = "idle"
  BY NothingTyped DEF Init, Epoch, NoDelivery
<1>2. \A o \in Objects : Settled(o)
  BY <1>1 DEF Settled
<1>3. Bounds
  BY <1>1, IdleTyped, NothingTyped, ConstantTypes DEF Bounds
<1>4. Phases
  BY <1>1, IdleTyped DEF Phases
<1> QED
  BY <1>1, <1>2, <1>3, <1>4, IdleTyped, NothingTyped
     DEF RaceInv, SearchedSettled, ListedSettled, CursorSettled, WatermarkSettled

\* A step that leaves HubSpot's objects and the run alone and unsettles no row.
LEMMA AsideKeepsRaces ==
  ASSUME TypeOK, RaceInv, UNCHANGED <<version, stamp, watermark, sync>>,
         now' \in Nat, now <= now', \A o \in Objects : stored'[o] <= version[o],
         \A h \in Handlers : handler'[h].pc # "idle" => handler'[h].version <= version[handler'[h].pc],
         \A o \in Objects : Settled(o) => Settled(o)'
  PROVE  RaceInv'
<1>1. Bounds'
  BY Numbers DEF RaceInv, Bounds
<1>2. \A o : InHand(o)' <=> InHand(o)
  BY DEF InHand
<1>3. Phases'
  BY DEF RaceInv, Phases
<1>4. SearchedSettled' /\ ListedSettled' /\ CursorSettled' /\ WatermarkSettled'
  BY <1>2 DEF RaceInv, SearchedSettled, ListedSettled, CursorSettled, WatermarkSettled
<1> QED
  BY <1>1, <1>3, <1>4 DEF RaceInv

\* A step after which no run or a new one is there, from the present watermark if it
\* is incremental; nothing is written.
LEMMA NewRunKeepsRaces ==
  ASSUME TypeOK, RaceInv, UNCHANGED <<hubspot, stored, handler, raced>>,
         watermark' \in {watermark, NoWatermark},
         sync'.pc # "persist", sync'.seen = Nothing, sync'.page = Nothing,
         sync'.cursor = NoWatermark, sync'.hasMore = FALSE, sync'.maxSeen = Epoch,
         sync'.pc # "idle" /\ sync'.mode = "incremental" => sync'.from = watermark',
         sync'.pc = "idle" => sync'.mode = "incremental"
  PROVE  RaceInv'
<1>1. \A o \in Objects : sync'.seen[o] = 0 /\ sync'.page[o] = 0
  BY NothingTyped
<1>2. \A o : Settled(o)' <=> Settled(o)
  BY DEF Settled, hubspot
<1>3. Bounds'
  <2>1. UNCHANGED <<now, version, stamp, stored, handler>>
    BY DEF hubspot
  <2>2. watermark' <= now /\ sync'.cursor <= now /\ sync'.maxSeen <= now
    BY Numbers DEF RaceInv, Bounds
  <2> QED
    BY <1>1, <2>1, <2>2, Numbers DEF RaceInv, Bounds
<1>4. Phases'
  BY DEF Phases
<1>5. SearchedSettled'
  <2> SUFFICES ASSUME NEW o \in Objects, version[o] = 0 PROVE Settled(o)
    BY <1>1, <1>2 DEF SearchedSettled, hubspot
  <2>1. stored[o] = 0
    BY Numbers DEF RaceInv, Bounds
  <2> QED
    BY <2>1 DEF Settled
<1>6. ListedSettled' /\ CursorSettled'
  BY <1>1 DEF ListedSettled, CursorSettled
<1>7. WatermarkSettled'
  BY <1>2, Numbers DEF RaceInv, WatermarkSettled, hubspot
<1> QED
  BY <1>3, <1>4, <1>5, <1>6, <1>7 DEF RaceInv

\* Before a page comes, what is not due is settled: it is not there, it was behind the
\* watermark, or it has been returned.
LEMMA SearchKeepsRaces ==
  ASSUME TypeOK, RaceInv, SearchPage
  PROVE  RaceInv'
<1>1. PICK os \in SUBSET ToSearch :
        /\ SearchCursor(os, ToSearch # os) \in Watermarks
        /\ Arrived(ToSearch, os, sync.maxSeen, SearchCursor(os, ToSearch # os))
  BY SearchTyped
<1>2. os \in SUBSET Objects /\ sync.maxSeen \in Stamps
  BY DEF ToSearch, TypeOK
<1>3. /\ sync'.pc = "persist" /\ sync'.mode = "incremental" /\ sync'.from = watermark
      /\ sync'.cursor = SearchCursor(os, ToSearch # os) /\ sync'.hasMore = (ToSearch # os)
      /\ sync'.maxSeen = sync.maxSeen
      /\ \A o \in Objects :
           /\ sync'.seen[o] = IF o \in os THEN version[o] ELSE sync.seen[o]
           /\ sync'.page[o] = IF o \in os THEN version[o] ELSE 0
  <2>1. sync.mode = "incremental" /\ sync.from = watermark
    BY DEF SearchPage, RaceInv, Phases
  <2> QED
    BY <1>1, <1>2, <2>1, ArrivedTyped
<1>4. /\ UNCHANGED <<now, version, stamp, stored, watermark, handler, raced>>
      /\ sync.pc = "fetch" /\ sync.mode = "incremental" /\ sync.from = watermark
      /\ \A o \in Objects : sync.page[o] = 0
  BY NothingTyped DEF SearchPage, hubspot, RaceInv, Phases
<1>5. \A o : Settled(o)' <=> Settled(o)
  BY <1>4 DEF Settled
<1>6. \A o \in Objects : o \in os => InHand(o)'
  BY <1>3, <1>4 DEF InHand
<1>7. \A o \in Objects : version[o] = 0 => Settled(o)
  BY Numbers DEF RaceInv, Bounds, Settled
<1>8. \A o \in Objects : sync.seen[o] = version[o] => Settled(o)
  BY <1>4, <1>7 DEF RaceInv, SearchedSettled, InHand
<1>9. \A o \in Objects : o \notin ToSearch => Settled(o)
  <2> SUFFICES ASSUME NEW o \in Objects, o \notin ToSearch PROVE Settled(o)
    OBVIOUS
  <2>1. ~Matches(o) \/ sync.seen[o] = version[o]
    BY DEF ToSearch
  <2>2. ~Matches(o) => version[o] = 0 \/ stamp[o] < watermark
    BY <1>4, Numbers DEF Matches
  <2> QED
    BY <1>7, <1>8, <2>1, <2>2 DEF RaceInv, WatermarkSettled
<1>10. sync'.cursor = NoWatermark \/ (ToSearch = os /\ sync'.cursor <= now)
  <2>1. LatestOf(os) = Epoch \/ \E o \in os : stamp[o] = LatestOf(os)
    BY <1>2, Latest
  <2>2. LatestOf(os) <= now
    BY <1>2, <2>1, Numbers DEF RaceInv, Bounds
  <2> QED
    BY <1>3, <2>2 DEF SearchCursor
<1>11. Bounds'
  <2>1. sync'.cursor <= now /\ sync'.maxSeen <= now
    BY <1>3, <1>10, Numbers DEF RaceInv, Bounds
  <2>2. \A o \in Objects : /\ sync'.seen[o] <= version[o]
                           /\ sync'.page[o] # 0 => sync'.page[o] = sync'.seen[o]
    BY <1>3, Numbers DEF RaceInv, Bounds
  <2> QED
    BY <1>4, <2>1, <2>2 DEF RaceInv, Bounds
<1>12. Phases'
  BY <1>3, <1>4, <1>10 DEF Phases
<1>13. SearchedSettled'
  <2>1. \A o \in Objects : sync'.seen[o] = version[o] => Settled(o) \/ InHand(o)'
    BY <1>3, <1>6, <1>8
  <2>2. \A o \in Objects : sync'.page[o] # 0 => stamp[o] >= watermark
    BY <1>3, <1>4 DEF ToSearch, Matches
  <2> QED
    BY <1>3, <1>4, <1>5, <2>1, <2>2 DEF SearchedSettled
<1>14. CursorSettled'
  BY <1>3, <1>4, <1>5, <1>6, <1>9, <1>10 DEF CursorSettled
<1>15. WatermarkSettled'
  BY <1>4, <1>5 DEF RaceInv, WatermarkSettled
<1> QED
  BY <1>3, <1>11, <1>12, <1>13, <1>14, <1>15 DEF RaceInv, ListedSettled

LEMMA ListKeepsRaces ==
  ASSUME TypeOK, RaceInv, ListPage
  PROVE  RaceInv'
<1>1. PICK os \in SUBSET ToList :
        /\ ListCursor(RunningMax(os), ToList # os) \in Watermarks
        /\ Arrived(ToList, os, RunningMax(os), ListCursor(RunningMax(os), ToList # os))
  BY ListTyped
<1>2. os \in SUBSET Objects /\ RunningMax(os) \in Stamps
  <2>1. os \in SUBSET Objects
    BY DEF ToList
  <2> QED
    BY <2>1, Running
<1>3. /\ sync'.pc = "persist" /\ sync'.mode = "full"
      /\ sync'.cursor = ListCursor(RunningMax(os), ToList # os) /\ sync'.hasMore = (ToList # os)
      /\ sync'.maxSeen = RunningMax(os)
      /\ \A o \in Objects :
           /\ sync'.seen[o] = IF o \in os THEN version[o] ELSE sync.seen[o]
           /\ sync'.page[o] = IF o \in os THEN version[o] ELSE 0
  <2>1. sync.mode = "full"
    BY DEF ListPage
  <2> QED
    BY <1>1, <1>2, <2>1, ArrivedTyped
<1>4. /\ UNCHANGED <<now, version, stamp, stored, watermark, handler, raced>>
      /\ sync.pc = "fetch" /\ sync.mode = "full" /\ sync.cursor = NoWatermark
      /\ \A o \in Objects : sync.page[o] = 0
  BY NothingTyped DEF ListPage, hubspot, RaceInv, Phases
<1>5. \A o : Settled(o)' <=> Settled(o)
  BY <1>4 DEF Settled
<1>6. \A o \in Objects : o \in os => InHand(o)'
  BY <1>3, <1>4 DEF InHand
<1>7. \A o \in Objects : version[o] = 0 => Settled(o)
  BY Numbers DEF RaceInv, Bounds, Settled
<1>8. \A o \in Objects : sync.seen[o] > 0 => Settled(o)
  BY <1>4, <1>7 DEF RaceInv, ListedSettled, InHand
<1>9. \A o \in Objects : o \notin ToList => Settled(o)
  BY <1>7, <1>8, Numbers DEF ToList
<1>10. sync'.cursor = NoWatermark \/ (ToList = os /\ sync'.cursor = RunningMax(os))
  BY <1>3 DEF ListCursor
<1>11. Bounds'
  <2>1. sync'.cursor <= now /\ sync'.maxSeen <= now
    <3>1. LatestOf(os) = Epoch \/ \E o \in os : stamp[o] = LatestOf(os)
      BY <1>2, Latest
    <3>2. LatestOf(os) <= now
      BY <1>2, <3>1, Numbers DEF RaceInv, Bounds
    <3>3. RunningMax(os) <= now
      BY <1>2, <3>2, Running DEF RaceInv, Bounds
    <3> QED
      BY <1>3, <1>10, <3>3, Numbers
  <2>2. \A o \in Objects : /\ sync'.seen[o] <= version[o]
                           /\ sync'.page[o] # 0 => sync'.page[o] = sync'.seen[o]
    BY <1>3, Numbers DEF RaceInv, Bounds
  <2> QED
    BY <1>4, <2>1, <2>2 DEF RaceInv, Bounds
<1>12. Phases'
  <2>1. RunningMax(os) # NoWatermark
    BY <1>2, ConstantTypes
  <2>2. CASE ToList = os
    BY <1>3, <2>1, <2>2 DEF ListCursor, Phases
  <2>3. CASE ToList # os
    BY <1>3, <2>3 DEF ListCursor, Phases
  <2> QED
    BY <2>2, <2>3
<1>13. ListedSettled'
  BY <1>3, <1>5, <1>6, <1>8 DEF ListedSettled
<1>14. CursorSettled'
  BY <1>3, <1>4, <1>5, <1>6, <1>9, <1>10 DEF CursorSettled
<1>15. WatermarkSettled'
  BY <1>4, <1>5 DEF RaceInv, WatermarkSettled
<1> QED
  BY <1>3, <1>11, <1>12, <1>13, <1>14, <1>15 DEF RaceInv, SearchedSettled

\* The transaction: what it takes back is behind no cursor, or counted as a race.
LEMMA PersistKeepsRaces ==
  ASSUME TypeOK, RaceInv, PersistPage
  PROVE  RaceInv'
<1>1. /\ UNCHANGED <<now, version, stamp, handler>> /\ sync.pc = "persist"
      /\ raced' = (raced \cup {o \in TakenBack : sync.mode = "full"}) \ Current(stored')
      /\ watermark' = IF sync.cursor # NoWatermark THEN sync.cursor ELSE watermark
  BY DEF PersistPage, hubspot
<1>2. /\ sync.hasMore => /\ sync'.pc = "fetch" /\ sync'.mode = sync.mode
                         /\ sync'.from = sync.from /\ sync'.seen = sync.seen
                         /\ sync'.maxSeen = sync.maxSeen /\ sync'.cursor = sync.cursor
                         /\ sync'.page = Nothing /\ sync'.hasMore = FALSE
      /\ ~sync.hasMore => sync' = Idle
      /\ \A o \in Objects :
           stored'[o] = IF sync.page[o] # 0 THEN sync.page[o] ELSE stored[o]
  BY PersistTyped
<1>3. /\ sync.hasMore => sync.cursor = NoWatermark
      /\ sync.mode = "full" /\ ~sync.hasMore => sync.cursor # NoWatermark
      /\ sync.mode = "incremental" => sync.from = watermark
  BY <1>1 DEF RaceInv, Phases
<1>4. \A o \in Objects : /\ stored[o] <= version[o] /\ sync.seen[o] <= version[o]
                         /\ sync.page[o] # 0 => sync.page[o] = sync.seen[o]
                         /\ stored'[o] <= version[o]
  BY <1>2 DEF RaceInv, Bounds
<1>5. \A o \in Objects : o \in raced => Settled(o)'
  BY <1>1 DEF Settled, Current
<1>6. \A o \in Objects : stored'[o] = version[o] => Settled(o)'
  BY <1>1 DEF Settled
<1>7. ASSUME NEW o \in Objects, sync.page[o] \in {0, version[o]}, Settled(o) \/ InHand(o)
      PROVE  Settled(o)'
  <2>1. CASE o \in raced
    BY <1>5, <2>1
  <2>2. CASE sync.page[o] # 0
    BY <1>2, <1>6, <1>7, <2>2
  <2>3. CASE sync.page[o] = 0 /\ InHand(o)
    <3>1. version[o] = 0 /\ stored'[o] = stored[o] /\ stored[o] = 0
      BY <1>2, <1>4, <2>3, Numbers DEF InHand
    <3> QED
      BY <1>6, <3>1
  <2>4. CASE sync.page[o] = 0 /\ stored[o] = version[o]
    BY <1>2, <1>6, <2>4
  <2> QED
    BY <1>7, <2>1, <2>2, <2>3, <2>4 DEF Settled
<1>8. ASSUME NEW o \in Objects, sync.mode = "full", Settled(o) \/ InHand(o)
      PROVE  Settled(o)'
  <2>1. CASE sync.page[o] \in {0, version[o]}
    BY <1>7, <1>8, <2>1
  <2>2. CASE o \in raced
    BY <1>5, <2>2
  <2>3. CASE stored[o] = version[o] /\ sync.page[o] \notin {0, version[o]}
    <3>1. stored'[o] < stored[o] /\ stored'[o] # version[o]
      BY <1>2, <1>4, <2>3, Numbers
    <3>2. o \in TakenBack /\ o \notin Current(stored')
      BY <1>1, <3>1 DEF TakenBack, Current
    <3> QED
      BY <1>1, <1>8, <3>2 DEF Settled
  <2> QED
    BY <1>8, <2>1, <2>2, <2>3 DEF Settled, InHand
<1>9. Bounds'
  <2>1. watermark' <= now
    BY <1>1 DEF RaceInv, Bounds
  <2>2. sync'.cursor <= now /\ sync'.maxSeen <= now
    BY <1>2, IdleTyped, Numbers DEF RaceInv, Bounds
  <2>3. \A o \in Objects : sync'.seen[o] <= version[o] /\ sync'.page[o] = 0
    BY <1>2, <1>4, IdleTyped, NothingTyped, Numbers
  <2> QED
    BY <1>1, <1>4, <2>1, <2>2, <2>3 DEF RaceInv, Bounds
<1>10. Phases'
  BY <1>1, <1>2, <1>3, IdleTyped DEF Phases
<1>11. WatermarkSettled'
  <2>1. CASE sync.cursor # NoWatermark
    BY <1>1, <1>7, <2>1 DEF RaceInv, CursorSettled, WatermarkSettled
  <2>2. CASE sync.cursor = NoWatermark
    <3> SUFFICES ASSUME NEW o \in Objects, stamp[o] < watermark PROVE Settled(o)'
      BY <1>1, <2>2 DEF WatermarkSettled
    <3>1. Settled(o)
      BY DEF RaceInv, WatermarkSettled
    <3>2. CASE sync.mode = "full"
      BY <1>8, <3>1, <3>2
    <3>3. CASE sync.mode = "incremental"
      <4>1. sync.page[o] = 0
        BY <1>3, <3>3, Numbers DEF RaceInv, SearchedSettled
      <4> QED
        BY <1>7, <3>1, <4>1
    <3> QED
      BY <3>2, <3>3 DEF TypeOK
  <2> QED
    BY <2>1, <2>2
<1>12. CASE sync.hasMore
  <2>1. \A o \in Objects : sync'.page[o] = 0
    BY <1>2, <1>12, NothingTyped
  <2>2. SearchedSettled'
    <3> SUFFICES ASSUME sync.mode = "incremental", NEW o \in Objects, sync.seen[o] = version[o]
                 PROVE  Settled(o)'
      BY <1>1, <1>2, <1>12, <2>1 DEF SearchedSettled
    <3>1. sync.page[o] \in {0, version[o]}
      BY <1>4
    <3> QED
      BY <1>7, <3>1 DEF RaceInv, SearchedSettled
  <2>3. ListedSettled'
    BY <1>2, <1>3, <1>8, <1>12 DEF RaceInv, ListedSettled
  <2> QED
    BY <1>2, <1>3, <1>9, <1>10, <1>11, <1>12, <2>2, <2>3 DEF RaceInv, CursorSettled
<1>13. CASE ~sync.hasMore
  <2>1. \A o \in Objects : sync'.seen[o] = 0 /\ sync'.page[o] = 0
    BY <1>2, <1>13, IdleTyped, NothingTyped
  <2>2. \A o \in Objects : version[o] = 0 => Settled(o)'
    BY <1>2, <1>4, <1>6, Numbers
  <2>3. SearchedSettled'
    BY <1>1, <2>1, <2>2 DEF SearchedSettled
  <2> QED
    BY <1>2, <1>9, <1>10, <1>11, <1>13, <2>3, IdleTyped DEF RaceInv, ListedSettled, CursorSettled
<1> QED
  BY <1>12, <1>13

\* A handler that writes an older version than the row has puts the object among the races.
LEMMA WebhookKeepsRaces ==
  ASSUME TypeOK, RaceInv, NEW h \in Handlers, WebhookPersist(h)
  PROVE  RaceInv'
<1> DEFINE o == handler[h].pc
           v == handler[h].version
<1>1. /\ o # "idle" /\ stored' = [stored EXCEPT ![o] = v]
      /\ handler' = [handler EXCEPT ![h] = NoDelivery]
      /\ raced' = (raced \cup TakenBack) \ Current(stored')
      /\ UNCHANGED <<now, version, stamp, watermark, sync>>
  BY DEF WebhookPersist, hubspot
<1>2. o \in Objects /\ v <= version[o] /\ v \in Nat
  BY <1>1, ConstantTypes DEF TypeOK, RaceInv, Bounds
<1> HIDE DEF o, v
<1>3. \A p \in Objects : stored'[p] = IF p = o THEN v ELSE stored[p]
  BY <1>1 DEF TypeOK
<1>4. \A p \in Objects : stored'[p] <= version[p]
  BY <1>2, <1>3 DEF RaceInv, Bounds
<1>5. \A g \in Handlers : handler'[g].pc # "idle" => handler'[g] = handler[g]
  BY <1>1 DEF TypeOK, NoDelivery
<1>6. ASSUME NEW p \in Objects, Settled(p)
      PROVE  Settled(p)'
  <2>1. CASE stored'[p] = version[p]
    BY <1>1, <2>1 DEF Settled
  <2>2. CASE p \in raced
    BY <1>1, <2>2 DEF Settled, Current
  <2>3. CASE stored'[p] # version[p] /\ stored[p] = version[p]
    <3>1. stored'[p] < stored[p]
      BY <1>2, <1>3, <1>4, <2>3, Numbers
    <3>2. p \in TakenBack /\ p \notin Current(stored')
      BY <1>1, <2>3, <3>1 DEF TakenBack, Current
    <3> QED
      BY <1>1, <3>2 DEF Settled
  <2> QED
    BY <1>6, <2>1, <2>2, <2>3 DEF Settled
<1>7. \A g \in Handlers : handler'[g].pc # "idle" => handler'[g].version <= version[handler'[g].pc]
  BY <1>5 DEF RaceInv, Bounds
<1> QED
  BY <1>1, <1>4, <1>6, <1>7, Numbers, AsideKeepsRaces

\* A change is at the clock, ahead of the watermark and of any cursor in hand; a listing
\* that has gone past the object makes it a race.
LEMMA ModifyKeepsRaces ==
  ASSUME TypeOK, RaceInv, NEW o \in Objects, Modify(o)
  PROVE  RaceInv'
<1>1. /\ UNCHANGED <<now, stored, watermark, sync, handler>>
      /\ raced' = raced \cup {p \in {o} : ListedBefore(o)}
      /\ version' = [version EXCEPT ![o] = @ + 1] /\ stamp' = [stamp EXCEPT ![o] = now]
  BY DEF Modify
<1>2. /\ version'[o] = version[o] + 1 /\ stamp'[o] = now
      /\ \A p \in Objects : p # o => version'[p] = version[p] /\ stamp'[p] = stamp[p]
  BY <1>1 DEF TypeOK
<1>3. \A p \in Objects : p # o => /\ (Settled(p)' <=> Settled(p))
                                  /\ (InHand(p)' <=> InHand(p))
  BY <1>1, <1>2 DEF Settled, InHand
<1>4. Bounds'
  <2>1. \A p \in Objects : /\ stamp'[p] <= now /\ version[p] <= version'[p]
                           /\ version'[p] = 0 => stamp'[p] = Epoch
    BY <1>2, Numbers DEF RaceInv, Bounds
  <2>2. \A p \in Objects : stored[p] <= version'[p] /\ sync.seen[p] <= version'[p]
    BY <1>2, Numbers DEF RaceInv, Bounds
  <2>3. \A h \in Handlers : handler[h].pc # "idle" => handler[h].version <= version'[handler[h].pc]
    <3> SUFFICES ASSUME NEW h \in Handlers, handler[h].pc # "idle"
                 PROVE  handler[h].version <= version'[handler[h].pc]
      OBVIOUS
    <3>1. handler[h].pc \in Objects /\ handler[h].version \in Nat
          /\ handler[h].version <= version[handler[h].pc]
      BY ConstantTypes DEF TypeOK, RaceInv, Bounds
    <3> QED
      BY <1>2, <3>1, Numbers
  <2> QED
    BY <1>1, <2>1, <2>2, <2>3 DEF RaceInv, Bounds
<1>5. Phases'
  BY <1>1 DEF RaceInv, Phases
<1>6. sync.seen[o] # version'[o]
  BY <1>2, Numbers DEF RaceInv, Bounds
<1>7. SearchedSettled'
  <2>1. sync.page[o] # 0 /\ sync.mode = "incremental" => stamp'[o] >= sync.from
    BY <1>2, Numbers DEF RaceInv, Bounds, SearchedSettled
  <2> QED
    BY <1>1, <1>2, <1>3, <1>6, <2>1 DEF RaceInv, SearchedSettled
<1>8. ListedSettled'
  <2> SUFFICES ASSUME sync.mode = "full", sync.cursor = NoWatermark, sync.seen[o] > 0
               PROVE  Settled(o)'
    BY <1>1, <1>3 DEF RaceInv, ListedSettled
  <2>1. sync.pc = "fetch" \/ sync.hasMore
    <3>1. sync.pc # "idle"
      BY DEF RaceInv, Phases
    <3> QED
      BY <3>1 DEF RaceInv, Phases, TypeOK
  <2> QED
    BY <1>1, <2>1 DEF ListedBefore, Settled
<1>9. CursorSettled'
  BY <1>1, <1>2, <1>3, Numbers DEF RaceInv, Bounds, CursorSettled
<1>10. WatermarkSettled'
  BY <1>1, <1>2, <1>3, Numbers DEF RaceInv, Bounds, WatermarkSettled
<1> QED
  BY <1>4, <1>5, <1>7, <1>8, <1>9, <1>10 DEF RaceInv

LEMMA RaceNext == TypeOK /\ RaceInv /\ [Next]_vars => RaceInv'
<1> SUFFICES ASSUME TypeOK, RaceInv, [Next]_vars PROVE RaceInv'
  OBVIOUS
<1>1. CASE OpenIncremental
  <2>1. watermark \in Stamps
        /\ sync' = [Idle EXCEPT !.pc = "fetch", !.mode = "incremental", !.from = watermark]
    BY <1>1, OpensWith
  <2>2. UNCHANGED <<hubspot, stored, watermark, handler, raced>>
    BY <1>1 DEF OpenIncremental
  <2> QED
    BY <2>1, <2>2, OpenTyped, NewRunKeepsRaces
<1>2. CASE OpenFull \/ FallBack
  <2>1. sync' = [Idle EXCEPT !.pc = "fetch", !.mode = "full", !.from = Epoch]
    BY <1>2, OpensWith
  <2>2. watermark' \in {watermark, NoWatermark} /\ UNCHANGED <<hubspot, stored, handler, raced>>
    BY <1>2 DEF OpenFull, FallBack
  <2> QED
    BY <2>1, <2>2, OpenTyped, NewRunKeepsRaces, ConstantTypes
<1>3. CASE SearchPage
  BY <1>3, SearchKeepsRaces
<1>4. CASE ListPage
  BY <1>4, ListKeepsRaces
<1>5. CASE PersistPage
  BY <1>5, PersistKeepsRaces
<1>6. CASE Fail
  <2>1. sync' = Idle /\ watermark' = watermark /\ UNCHANGED <<hubspot, stored, handler, raced>>
    BY <1>6 DEF Fail
  <2> QED
    BY <2>1, IdleTyped, NewRunKeepsRaces
<1>7. ASSUME NEW h \in Handlers, NEW o \in Objects, WebhookFetch(h, o)
      PROVE  RaceInv'
  <2>1. handler' = [handler EXCEPT ![h] = [pc |-> o, version |-> version[o]]]
        /\ UNCHANGED <<hubspot, stored, watermark, sync, raced>>
    BY <1>7 DEF WebhookFetch
  <2>2. \A g \in Handlers : \/ handler'[g] = handler[g]
                            \/ handler'[g] = [pc |-> o, version |-> version[o]]
    BY <2>1 DEF TypeOK
  <2>3. \A g \in Handlers : handler'[g].pc # "idle" => handler'[g].version <= version[handler'[g].pc]
    BY <2>2, Numbers DEF RaceInv, Bounds
  <2>4. \A p \in Objects : stored'[p] <= version[p] /\ (Settled(p) => Settled(p)')
    BY <2>1 DEF hubspot, Settled, RaceInv, Bounds
  <2> QED
    BY <2>1, <2>3, <2>4, Numbers, AsideKeepsRaces DEF hubspot
<1>8. ASSUME NEW h \in Handlers, WebhookPersist(h)
      PROVE  RaceInv'
  BY <1>8, WebhookKeepsRaces
<1>9. ASSUME NEW h \in Handlers, WebhookFail(h)
      PROVE  RaceInv'
  <2>1. handler' = [handler EXCEPT ![h] = NoDelivery]
        /\ UNCHANGED <<hubspot, stored, watermark, sync, raced>>
    BY <1>9 DEF WebhookFail
  <2>2. \A g \in Handlers : handler'[g].pc # "idle" => handler'[g] = handler[g]
    BY <2>1 DEF TypeOK, NoDelivery
  <2>3. \A p \in Objects : stored'[p] <= version[p] /\ (Settled(p) => Settled(p)')
    BY <2>1 DEF hubspot, Settled, RaceInv, Bounds
  <2>4. \A g \in Handlers : handler'[g].pc # "idle" => handler'[g].version <= version[handler'[g].pc]
    BY <2>2 DEF RaceInv, Bounds
  <2> QED
    BY <2>1, <2>3, <2>4, Numbers, AsideKeepsRaces DEF hubspot
<1>10. CASE Tick
  <2>1. now' = now + 1 /\ UNCHANGED <<version, stamp, stored, watermark, sync, handler, raced>>
    BY <1>10 DEF Tick
  <2>2. \A p \in Objects : stored'[p] <= version[p] /\ (Settled(p) => Settled(p)')
    BY <2>1 DEF Settled, RaceInv, Bounds
  <2>3. \A g \in Handlers : handler'[g].pc # "idle" => handler'[g].version <= version[handler'[g].pc]
    BY <2>1 DEF RaceInv, Bounds
  <2> QED
    BY <2>1, <2>2, <2>3, Numbers, AsideKeepsRaces
<1>11. ASSUME NEW o \in Objects, Modify(o)
       PROVE  RaceInv'
  BY <1>11, ModifyKeepsRaces
<1>12. CASE UNCHANGED vars
  <2>1. UNCHANGED <<now, version, stamp, stored, watermark, sync, handler, raced>>
    BY <1>12 DEF vars, hubspot
  <2>2. \A p \in Objects : stored'[p] <= version[p] /\ (Settled(p) => Settled(p)')
    BY <2>1 DEF Settled, RaceInv, Bounds
  <2>3. \A g \in Handlers : handler'[g].pc # "idle" => handler'[g].version <= version[handler'[g].pc]
    BY <2>1 DEF RaceInv, Bounds
  <2> QED
    BY <2>1, <2>2, <2>3, Numbers, AsideKeepsRaces
<1> QED
  BY <1>1, <1>2, <1>3, <1>4, <1>5, <1>6, <1>7, <1>8, <1>9, <1>10, <1>11, <1>12
     DEF Next, SyncStep

\* For any account, any interleaving of changes, deliveries and runs, and any order of the
\* pages: what the watermark has left behind it is an object changed under a full listing
\* that had gone past it, or one whose row an older copy overwrote (fetchFull,
\* fetchIncremental and processHubSpotEvent).
THEOREM OnlyRacesLose == Spec => []LostOnlyToRaces
<1>1. RaceInv => LostOnlyToRaces
  BY DEF RaceInv, WatermarkSettled, Settled, LostOnlyToRaces, Behind
<1> QED
  BY <1>1, TypeInit, TypeNext, RaceInit, RaceNext, PTL DEF Spec

(***************************************************************************)
(* The watermark never regresses                                           *)
(***************************************************************************)

\* A position that some object has reached; it stays reached, for nothing is deleted.
Attained(n) == n <= Epoch \/ \E o \in Objects : stamp[o] >= n

\* What keeps a listing from ending below the watermark it began with is still to be
\* listed.
Ahead(o) == sync.seen[o] = 0 /\ version[o] > 0 /\ stamp[o] >= watermark

AheadInv ==
  /\ Attained(watermark) /\ Attained(sync.maxSeen) /\ Attained(sync.cursor)
  /\ sync.cursor # NoWatermark => watermark <= sync.cursor
  /\ sync.mode = "full" =>
       watermark <= sync.maxSeen \/ \E o \in Objects : Ahead(o)

LEMMA AheadInit == Init => AheadInv
  BY IdleTyped, ConstantTypes DEF Init, AheadInv, Attained

\* A run begins: every object that is there is still to be listed.
LEMMA NewRunKeepsAhead ==
  ASSUME TypeOK, RaceInv, AheadInv, UNCHANGED <<version, stamp>>,
         watermark' \in {watermark, NoWatermark},
         sync'.seen = Nothing, sync'.cursor = NoWatermark, sync'.maxSeen = Epoch
  PROVE  AheadInv'
<1>1. Attained(watermark)' /\ Attained(sync.maxSeen)' /\ Attained(sync.cursor)'
  BY Numbers DEF AheadInv, Attained
<1>2. watermark' <= Epoch \/ \E o \in Objects : Ahead(o)'
  <2>1. CASE watermark' = watermark /\ ~(watermark <= Epoch)
    <3>1. PICK o \in Objects : stamp[o] >= watermark
      BY <2>1 DEF AheadInv, Attained
    <3>2. version[o] > 0
      BY <2>1, <3>1, Numbers DEF RaceInv, Bounds
    <3> QED
      BY <2>1, <3>1, <3>2, NothingTyped DEF Ahead
  <2> QED
    BY <2>1, Numbers
<1> QED
  BY <1>1, <1>2 DEF AheadInv

\* What a search returns is at the watermark or later.
LEMMA SearchKeepsAhead ==
  ASSUME TypeOK, RaceInv, AheadInv, SearchPage
  PROVE  AheadInv'
<1>1. PICK os \in SUBSET ToSearch :
        /\ SearchCursor(os, ToSearch # os) \in Watermarks
        /\ Arrived(ToSearch, os, sync.maxSeen, SearchCursor(os, ToSearch # os))
  BY SearchTyped
<1>2. os \in SUBSET Objects /\ sync.maxSeen \in Stamps
  BY DEF ToSearch, TypeOK
<1>3. /\ sync'.mode = sync.mode /\ sync'.maxSeen = sync.maxSeen
      /\ sync'.cursor = SearchCursor(os, ToSearch # os)
  BY <1>1, <1>2, ArrivedTyped
<1>4. /\ UNCHANGED <<version, stamp, watermark>>
      /\ sync.mode = "incremental" /\ sync.from = watermark
  BY DEF SearchPage, hubspot, RaceInv, Phases
<1>5. sync'.cursor = NoWatermark \/ (os # {} /\ sync'.cursor = LatestOf(os))
  BY <1>3 DEF SearchCursor
<1>6. LatestOf(os) = Epoch \/ \E o \in os : stamp[o] = LatestOf(os)
  BY <1>2, Latest
<1>7. Attained(sync'.cursor)
  BY <1>2, <1>5, <1>6, Numbers DEF Attained
<1>8. os # {} => watermark <= LatestOf(os)
  <2> SUFFICES ASSUME NEW o \in os PROVE watermark <= LatestOf(os)
    OBVIOUS
  <2>1. stamp[o] >= watermark /\ stamp[o] <= LatestOf(os) /\ o \in Objects
    BY <1>2, <1>4, Latest DEF ToSearch, Matches
  <2>2. LatestOf(os) \in Nat
    BY <1>2, Latest, ConstantTypes
  <2> QED
    BY <2>1, <2>2, Numbers
<1> QED
  BY <1>3, <1>4, <1>5, <1>7, <1>8 DEF AheadInv, Attained

\* A page of the listing either leaves an object ahead or raises the maximum to the
\* watermark; the last page leaves none.
LEMMA ListKeepsAhead ==
  ASSUME TypeOK, RaceInv, AheadInv, ListPage
  PROVE  AheadInv'
<1>1. PICK os \in SUBSET ToList :
        /\ ListCursor(RunningMax(os), ToList # os) \in Watermarks
        /\ Arrived(ToList, os, RunningMax(os), ListCursor(RunningMax(os), ToList # os))
  BY ListTyped
<1>2. os \in SUBSET Objects
  BY DEF ToList
<1>3. /\ RunningMax(os) \in Stamps /\ RunningMax(os) \in Nat
      /\ RunningMax(os) \in {sync.maxSeen, LatestOf(os)}
      /\ sync.maxSeen <= RunningMax(os) /\ LatestOf(os) <= RunningMax(os)
  BY <1>2, Running, ConstantTypes
<1>4. /\ sync'.mode = sync.mode /\ sync'.maxSeen = RunningMax(os)
      /\ sync'.cursor = ListCursor(RunningMax(os), ToList # os)
      /\ \A o \in Objects : sync'.seen[o] = IF o \in os THEN version[o] ELSE sync.seen[o]
  BY <1>1, <1>2, <1>3, ArrivedTyped
<1>5. UNCHANGED <<version, stamp, watermark>> /\ sync.mode = "full"
  BY DEF ListPage, hubspot
<1>6. LatestOf(os) \in Nat /\ (LatestOf(os) = Epoch \/ \E o \in os : stamp[o] = LatestOf(os))
  BY <1>2, Latest, ConstantTypes
<1>7. Attained(RunningMax(os))
  <2>1. Attained(LatestOf(os))
    BY <1>2, <1>6, Numbers DEF Attained
  <2> QED
    BY <1>3, <2>1 DEF AheadInv
<1>8. \A o \in os : watermark <= stamp[o] => watermark <= RunningMax(os)
  <2> SUFFICES ASSUME NEW o \in os, watermark <= stamp[o] PROVE watermark <= RunningMax(os)
    OBVIOUS
  <2>1. stamp[o] <= LatestOf(os) /\ o \in Objects
    BY <1>2, Latest
  <2> QED
    BY <1>3, <1>6, <2>1, Numbers
<1>9. watermark <= RunningMax(os) \/ \E o \in Objects : Ahead(o) /\ o \notin os
  <2>1. CASE watermark <= sync.maxSeen
    BY <1>3, <2>1, Numbers
  <2>2. CASE \E o \in Objects : Ahead(o)
    BY <1>8, <2>2, Numbers DEF Ahead
  <2> QED
    BY <1>5, <2>1, <2>2 DEF AheadInv
<1>10. watermark <= RunningMax(os) \/ \E o \in Objects : Ahead(o)'
  BY <1>4, <1>5, <1>9 DEF Ahead
<1>11. sync'.cursor = NoWatermark
       \/ (sync'.cursor = RunningMax(os) /\ watermark <= RunningMax(os))
  <2>1. CASE ToList # os
    BY <1>4, <2>1 DEF ListCursor
  <2>2. CASE ToList = os
    <3>1. \A o \in Objects : Ahead(o) => o \in os
      BY <2>2 DEF Ahead, ToList
    <3> QED
      BY <1>4, <1>9, <2>2, <3>1 DEF ListCursor
  <2> QED
    BY <2>1, <2>2
<1>12. Attained(sync'.cursor)
  BY <1>7, <1>11, ConstantTypes DEF Attained
<1> QED
  BY <1>4, <1>5, <1>7, <1>10, <1>11, <1>12 DEF AheadInv, Attained

LEMMA PersistKeepsAhead ==
  ASSUME TypeOK, RaceInv, AheadInv, PersistPage
  PROVE  AheadInv'
<1>1. /\ UNCHANGED <<version, stamp>>
      /\ watermark' = IF sync.cursor # NoWatermark THEN sync.cursor ELSE watermark
      /\ sync.hasMore => sync.cursor = NoWatermark
  BY DEF PersistPage, hubspot, RaceInv, Phases
<1>2. Attained(watermark') /\ \A n : Attained(n)' <=> n <= Epoch \/ \E o \in Objects : stamp'[o] >= n
  BY <1>1 DEF AheadInv, Attained
<1>3. CASE sync.hasMore
  <2>1. /\ sync'.mode = sync.mode /\ sync'.seen = sync.seen
        /\ sync'.maxSeen = sync.maxSeen /\ sync'.cursor = sync.cursor
    BY <1>3, PersistTyped
  <2> QED
    BY <1>1, <1>3, <2>1 DEF AheadInv, Attained, Ahead
<1>4. CASE ~sync.hasMore
  <2>1. sync' = Idle
    BY <1>4, PersistTyped
  <2> QED
    BY <1>1, <1>2, <2>1, IdleTyped, ConstantTypes DEF AheadInv, Attained
<1> QED
  BY <1>3, <1>4

LEMMA ModifyKeepsAhead ==
  ASSUME TypeOK, RaceInv, AheadInv, NEW o \in Objects, Modify(o)
  PROVE  AheadInv'
<1>1. \A p \in Objects : stamp'[p] >= stamp[p] /\ version'[p] >= version[p]
  BY Numbers DEF Modify, TypeOK, RaceInv, Bounds
<1>2. stamp' \in [Objects -> Stamps] /\ version' \in [Objects -> Versions]
  BY ConstantTypes DEF Modify, TypeOK, Versions
<1>3. \A p \in Objects : stamp'[p] \in Nat /\ version'[p] \in Nat
  BY <1>2, ConstantTypes
<1>4. UNCHANGED <<watermark, sync>>
  BY DEF Modify
<1>5. \A n \in Int : Attained(n) => n <= Epoch \/ \E p \in Objects : stamp'[p] >= n
  BY <1>1, <1>3, Numbers DEF Attained
<1>6. Attained(watermark)' /\ Attained(sync.maxSeen)' /\ Attained(sync.cursor)'
  BY <1>4, <1>5, Numbers DEF AheadInv, Attained
<1>7. \A p \in Objects : Ahead(p) => Ahead(p)'
  BY <1>1, <1>3, <1>4, Numbers DEF Ahead
<1> QED
  BY <1>4, <1>6, <1>7 DEF AheadInv

LEMMA AheadNext == TypeOK /\ RaceInv /\ AheadInv /\ [Next]_vars => AheadInv'
<1> SUFFICES ASSUME TypeOK, RaceInv, AheadInv, [Next]_vars PROVE AheadInv'
  OBVIOUS
<1>1. CASE OpenIncremental
  <2>1. watermark \in Stamps
        /\ sync' = [Idle EXCEPT !.pc = "fetch", !.mode = "incremental", !.from = watermark]
    BY <1>1, OpensWith
  <2>2. UNCHANGED <<version, stamp, watermark>>
    BY <1>1 DEF OpenIncremental, hubspot
  <2> QED
    BY <2>1, <2>2, OpenTyped, NewRunKeepsAhead
<1>2. CASE OpenFull \/ FallBack
  <2>1. sync' = [Idle EXCEPT !.pc = "fetch", !.mode = "full", !.from = Epoch]
    BY <1>2, OpensWith
  <2>2. watermark' \in {watermark, NoWatermark} /\ UNCHANGED <<version, stamp>>
    BY <1>2 DEF OpenFull, FallBack, hubspot
  <2> QED
    BY <2>1, <2>2, OpenTyped, NewRunKeepsAhead, ConstantTypes
<1>3. CASE SearchPage
  BY <1>3, SearchKeepsAhead
<1>4. CASE ListPage
  BY <1>4, ListKeepsAhead
<1>5. CASE PersistPage
  BY <1>5, PersistKeepsAhead
<1>6. CASE Fail
  <2>1. sync' = Idle /\ watermark' = watermark /\ UNCHANGED <<version, stamp>>
    BY <1>6 DEF Fail, hubspot
  <2> QED
    BY <2>1, IdleTyped, NewRunKeepsAhead
<1>7. ASSUME UNCHANGED <<version, stamp, watermark, sync>>
      PROVE  AheadInv'
  BY <1>7 DEF AheadInv, Attained, Ahead
<1>8. ASSUME NEW h \in Handlers, NEW o \in Objects, WebhookFetch(h, o)
      PROVE  AheadInv'
  BY <1>7, <1>8 DEF WebhookFetch, hubspot
<1>9. ASSUME NEW h \in Handlers, WebhookPersist(h) \/ WebhookFail(h)
      PROVE  AheadInv'
  BY <1>7, <1>9 DEF WebhookPersist, WebhookFail, hubspot
<1>10. ASSUME NEW o \in Objects, Modify(o)
       PROVE  AheadInv'
  BY <1>10, ModifyKeepsAhead
<1>11. CASE Tick
  BY <1>7, <1>11 DEF Tick
<1>12. CASE UNCHANGED vars
  BY <1>7, <1>12 DEF vars, hubspot
<1> QED
  BY <1>1, <1>2, <1>3, <1>4, <1>5, <1>6, <1>8, <1>9, <1>10, <1>11, <1>12 DEF Next, SyncStep

\* For any account and any order of the pages: only the fallback drops the watermark, and
\* no run, failed, full or begun again, moves it back (fetchFull's running maximum and
\* the cursor of the search).
THEOREM WatermarkHolds == Spec => WatermarkNeverRegresses
<1>1. TypeOK /\ AheadInv /\ [Next]_vars =>
        [watermark' < watermark => watermark' = NoWatermark]_vars
  <2> SUFFICES ASSUME TypeOK, AheadInv, Next, watermark' < watermark
               PROVE  watermark' = NoWatermark
    OBVIOUS
  <2>1. CASE PersistPage
    <3>1. watermark' # watermark
      BY Numbers
    <3>2. watermark' = sync.cursor /\ sync.cursor # NoWatermark
      BY <2>1, <3>1 DEF PersistPage
    <3> QED
      BY <3>2, Numbers DEF AheadInv
  <2>2. CASE FallBack
    BY <2>2 DEF FallBack
  <2>3. CASE watermark' = watermark
    BY <2>3, Numbers
  <2> QED
    BY <2>1, <2>2, <2>3
       DEF Next, SyncStep, OpenIncremental, OpenFull, SearchPage, ListPage, Fail, WebhookFetch,
           WebhookPersist, WebhookFail, Tick, Modify
<1> QED
  BY <1>1, TypeInit, TypeNext, RaceInit, RaceNext, AheadInit, AheadNext, PTL
     DEF Spec, WatermarkNeverRegresses

=============================================================================
