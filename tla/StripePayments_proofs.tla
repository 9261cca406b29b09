------------------------- MODULE StripePayments_proofs -------------------------
(***************************************************************************)
(* Theorems about StripePayments, for any number of payments, page size,   *)
(* clock, and number of transitions, lost events and failures.             *)
(***************************************************************************)
EXTENDS StripePayments, FiniteSetTheorems, WellFoundedInduction, TLAPS

(***************************************************************************)
(* Numbers                                                                 *)
(***************************************************************************)

PollType == [pc : {"idle", "fetch", "persist"}, from : Seconds,
             startingAfter : 1 .. FromTheTop, maxCreated : Seconds,
             page : [Payments -> Versions],
             cursor : Seconds \cup {NoWatermark}]

LEMMA ConstantTypes ==
  /\ PageSize \in Nat /\ PageSize > 0 /\ MaxClock \in Nat /\ MaxClock > 0
  /\ MaxPayments \in Nat /\ MaxTransitions \in Nat /\ MaxLost \in Nat /\ MaxFailures \in Nat
  /\ Seconds \subseteq Nat /\ 0 \in Seconds /\ 1 \in Seconds
  /\ Versions \subseteq Nat /\ 0 \in Versions /\ 1 \in Versions
  /\ Payments \subseteq Nat /\ Payments \subseteq 1 .. FromTheTop
  /\ FromTheTop \in Nat /\ \A p \in Payments : p < FromTheTop
  /\ FromTheTop \in 1 .. FromTheTop
  /\ NoWatermark \in Int /\ NoWatermark < 0
  BY PageSizeAssumption, BoundsAssumption
     DEF Seconds, Versions, Payments, FromTheTop, NoWatermark

\* A poll that has not begun, and an empty page.
LEMMA IdleTyped ==
  /\ Nothing \in [Payments -> Versions] /\ Nothing \in [Payments -> Seconds]
  /\ \A p \in Payments : Nothing[p] = 0
  /\ Idle \in PollType /\ Idle.pc = "idle" /\ Idle.from = 0
  /\ Idle.startingAfter = FromTheTop /\ Idle.maxCreated = 0
  /\ Idle.page = Nothing /\ Idle.cursor = NoWatermark
<1>1. /\ Nothing \in [Payments -> Versions]
      /\ Nothing \in [Payments -> Seconds]
      /\ \A p \in Payments : Nothing[p] = 0
  BY ConstantTypes DEF Nothing
<1> QED
  BY <1>1, ConstantTypes DEF Idle, PollType

\* The numbers that the invariants compare.
LEMMA PaymentNumbers ==
  ASSUME TypeOK
  PROVE  /\ now \in Nat /\ watermark \in Int /\ poll \in PollType
         /\ poll.from \in Nat /\ poll.maxCreated \in Nat /\ poll.cursor \in Int
         /\ poll.startingAfter \in Nat
         /\ \A p \in Payments : /\ created[p] \in Nat /\ version[p] \in Nat
                                /\ row[p] \in Nat /\ poll.page[p] \in Nat
                                /\ p \in Nat
         /\ \A e \in events \cup lost : e.payment \in Payments /\ e.version \in Nat
<1>1. poll \in PollType
  BY DEF TypeOK, PollType
<1>2. /\ poll.from \in Seconds /\ poll.maxCreated \in Seconds
      /\ poll.cursor \in Seconds \cup {NoWatermark} /\ poll.startingAfter \in 1 .. FromTheTop
      /\ \A p \in Payments : poll.page[p] \in Versions
  BY <1>1 DEF PollType
<1>3. \A p \in Payments : /\ created[p] \in Seconds
                       /\ version[p] \in Versions /\ row[p] \in Versions
  BY DEF TypeOK
<1>4. \A e \in events \cup lost : e.payment \in Payments /\ e.version \in Versions
  BY DEF TypeOK, Events
<1>5. now \in Seconds /\ watermark \in Seconds \cup {NoWatermark}
  BY DEF TypeOK
<1>6. Seconds \subseteq Nat /\ Versions \subseteq Nat /\ Payments \subseteq Nat
      /\ Seconds \cup {NoWatermark} \subseteq Int /\ 1 .. FromTheTop \subseteq Nat
  BY ConstantTypes
<1> QED
  BY <1>1, <1>2, <1>3, <1>4, <1>5, <1>6

(***************************************************************************)
(* A page of the list                                                      *)
(***************************************************************************)

\* A set of naturals with a bound has a largest element.
LEMMA LargestExists ==
  ASSUME NEW S \in SUBSET Nat, S # {}, NEW b \in Nat, \A x \in S : x <= b
  PROVE  \E x \in S : \A y \in S : x >= y
<1> DEFINE Above == {n \in Nat : \A y \in S : y <= n}
<1>1. PICK n \in Above : \A m \in Above : ~(<<m, n>> \in OpToRel(<, Nat))
  <2>1. Above # {} /\ Above \subseteq Nat
    OBVIOUS
  <2> HIDE DEF Above
  <2> QED
    BY <2>1, NatLessThanWellFounded, WFMin
<1>2. \A m \in Above : ~(m < n)
  BY <1>1 DEF OpToRel
<1>3. CASE n \in S
  BY <1>3
<1>4. CASE n \notin S
  <2>1. PICK x \in S : TRUE
    OBVIOUS
  <2>2. n - 1 \in Nat /\ \A y \in S : y <= n - 1
    BY <1>4, <2>1
  <2> QED
    BY <1>2, <2>2
<1> QED
  BY <1>3, <1>4

\* The reduce over the page.
LEMMA SeenOnPage ==
  ASSUME TypeOK, NEW ps \in SUBSET Payments
  PROVE  /\ MaxSeen(ps) \in Seconds
         /\ poll.maxCreated <= MaxSeen(ps)
         /\ \A p \in ps : created[p] <= MaxSeen(ps)
         /\ \/ MaxSeen(ps) = poll.maxCreated
            \/ \E p \in ps : MaxSeen(ps) = created[p]
<1> DEFINE S == {poll.maxCreated} \cup {created[p] : p \in ps}
<1>1. S \subseteq Seconds /\ S # {}
  BY PaymentNumbers DEF TypeOK, PollType
<1>2. S \in SUBSET Nat /\ \A x \in S : x <= MaxClock
  BY <1>1, ConstantTypes DEF Seconds
<1>3. PICK x \in S : \A y \in S : x >= y
  <2> HIDE DEF S
  <2> QED
    BY <1>1, <1>2, ConstantTypes, LargestExists
<1>4. MaxSeen(ps) \in S /\ \A y \in S : MaxSeen(ps) >= y
  <2>1. MaxSeen(ps) = CHOOSE z \in S : \A y \in S : z >= y
    BY DEF MaxSeen, Max
  <2> HIDE DEF S
  <2> QED
    BY <1>3, <2>1
<1> QED
  BY <1>1, <1>2, <1>4

\* The smallest number of a set.
LEMMA SmallestOf ==
  ASSUME NEW S \in SUBSET Nat, S # {}
  PROVE  Min(S) \in S /\ \A y \in S : Min(S) <= y
<1>1. PICK x \in S : \A y \in S : ~(<<y, x>> \in OpToRel(<, Nat))
  BY NatLessThanWellFounded, WFMin
<1>2. \A y \in S : ~(y < x)
  BY <1>1 DEF OpToRel
<1>3. \A y \in S : x <= y
  BY <1>2
<1> QED
  BY <1>3 DEF Min

\* The members of a set above one of them.
Newer(rest, p) == {q \in rest : q > p}

\* A page is cut off the top of the rest, and is not empty unless the rest is.
LEMMA PageIsTop ==
  ASSUME NEW rest \in SUBSET Payments
  PROVE  /\ PageOf(rest) \in SUBSET rest
         /\ \A p \in PageOf(rest), q \in rest : q >= p => q \in PageOf(rest)
         /\ rest # {} => PageOf(rest) # {}
<1>1. IsFiniteSet(rest)
  <2>1. IsFiniteSet(Payments)
    BY ConstantTypes, FS_Interval DEF Payments
  <2> QED
    BY <2>1, FS_Subset
<1>2. \A p : /\ Newer(rest, p) \in SUBSET rest /\ IsFiniteSet(Newer(rest, p))
           /\ Cardinality(Newer(rest, p)) \in Nat
  BY <1>1, FS_Subset, FS_CardinalityType DEF Newer
<1>3. PageOf(rest) = {p \in rest : Cardinality(Newer(rest, p)) < PageSize}
  BY DEF PageOf, Newer
<1>4. ASSUME NEW p \in PageOf(rest), NEW q \in rest, q >= p
      PROVE  q \in PageOf(rest)
  <2>1. p \in Nat /\ q \in Nat /\ rest \subseteq Nat
    BY <1>3, ConstantTypes
  <2>2. Newer(rest, q) \in SUBSET Newer(rest, p)
    <3> SUFFICES ASSUME NEW x \in rest, x > q PROVE x > p
      BY DEF Newer
    <3>1. x \in Nat /\ q \in Nat /\ p \in Nat
      BY <2>1
    <3> QED
      BY <1>4, <3>1
  <2>3. Cardinality(Newer(rest, q)) <= Cardinality(Newer(rest, p))
    BY <1>2, <2>2, FS_Subset
  <2> QED
    BY <1>2, <1>3, <2>3, ConstantTypes
<1>5. ASSUME rest # {}
      PROVE  PageOf(rest) # {}
  <2>1. rest \in SUBSET Nat /\ \A x \in rest : x <= MaxPayments
    BY ConstantTypes DEF Payments
  <2>2. PICK x \in rest : \A y \in rest : x >= y
    BY <1>5, <2>1, ConstantTypes, LargestExists
  <2>3. Newer(rest, x) = {}
    <3> SUFFICES ASSUME NEW y \in rest, y > x PROVE FALSE
      BY DEF Newer
    <3>1. x \in Nat /\ y \in Nat
      BY <2>1
    <3> QED
      BY <2>2, <3>1
  <2>4. Cardinality(Newer(rest, x)) = 0
    BY <2>3, FS_EmptySet
  <2> QED
    BY <1>3, <2>2, <2>4, ConstantTypes
<1> QED
  BY <1>3, <1>4, <1>5

\* What fetchIncremental and fetchFull return, and where they will go on.
Listing(ps, seen) ==
  /\ poll' \in PollType
  /\ poll'.pc = "persist" /\ poll'.from = poll.from /\ poll'.maxCreated = seen
  /\ poll'.cursor = IF ps # Remaining THEN NoWatermark ELSE seen
  /\ ps = Remaining => poll'.startingAfter = FromTheTop
  /\ ps # Remaining => poll'.startingAfter \in ps
  /\ \A q \in Remaining : q >= poll'.startingAfter => q \in ps
  /\ \A q \in Remaining \ ps : q < poll'.startingAfter
  /\ \A p \in Payments : poll'.page[p] = IF p \in ps THEN version[p] ELSE 0
  /\ poll.maxCreated <= seen /\ \A p \in ps : created[p] <= seen
  /\ seen = poll.maxCreated \/ \E p \in ps : seen = created[p]

LEMMA ListTyping ==
  ASSUME TypeOK, FetchPage
  PROVE  \E ps \in SUBSET Remaining, seen \in Seconds : Listing(ps, seen)
<1> DEFINE rest == Remaining
           ps   == PageOf(rest)
           seen == MaxSeen(ps)
           page == [p \in Payments |-> IF p \in ps THEN version[p] ELSE 0]
           next == IF ps # rest THEN Min(ps) ELSE FromTheTop
           cur  == IF ps # rest THEN NoWatermark ELSE seen
<1>1. rest \in SUBSET Payments
  BY DEF Remaining
<1>2. /\ ps \in SUBSET rest /\ (rest # {} => ps # {})
      /\ \A p \in ps, q \in rest : q >= p => q \in ps
  <2> HIDE DEF rest
  <2> QED
    BY <1>1, PageIsTop
<1>3. ps # rest => Min(ps) \in ps
  <2> HIDE DEF rest, ps
  <2>1. ps \in SUBSET Nat
    BY <1>1, <1>2, ConstantTypes
  <2> QED
    BY <1>2, <2>1, SmallestOf
<1>4. /\ seen \in Seconds /\ poll.maxCreated <= seen
      /\ \A p \in ps : created[p] <= seen
      /\ seen = poll.maxCreated \/ \E p \in ps : seen = created[p]
  <2>1. ps \in SUBSET Payments
    BY <1>1, <1>2
  <2> HIDE DEF rest, ps
  <2> QED
    BY <2>1, SeenOnPage
<1>5. poll' = [poll EXCEPT !.pc = "persist", !.startingAfter = next, !.maxCreated = seen,
                           !.page = page, !.cursor = cur]
  BY DEF FetchPage, CursorOf
<1>6. page \in [Payments -> Versions]
      /\ \A p \in Payments : page[p] = IF p \in ps THEN version[p] ELSE 0
  <2> HIDE DEF ps
  <2> QED
    BY ConstantTypes DEF TypeOK
<1>7. next \in 1 .. FromTheTop /\ cur \in Seconds \cup {NoWatermark}
  BY <1>1, <1>2, <1>3, <1>4, ConstantTypes
<1>8. /\ \A q \in rest : q >= next => q \in ps
      /\ \A q \in rest \ ps : q < next
  <2>1. rest \subseteq Nat /\ ps \subseteq Nat
    BY <1>1, <1>2, ConstantTypes
  <2>2. \A q \in rest : q < FromTheTop
    BY <1>1, ConstantTypes
  <2> HIDE DEF rest, ps
  <2>3. CASE ps = rest
    <3>1. next = FromTheTop
      BY <2>3
    <3> QED
      BY <2>2, <2>3, <3>1
  <2>4. CASE ps # rest
    <3>1. next \in ps /\ next \in Nat
      BY <1>3, <2>1, <2>4
    <3>2. \A q \in rest : q >= next => q \in ps
      BY <1>2, <3>1
    <3>3. \A q \in rest : q \notin ps => q < next
      BY <2>1, <3>1, <3>2
    <3> QED
      BY <3>2, <3>3
  <2> QED
    BY <2>3, <2>4
<1>9. poll \in PollType
  BY PaymentNumbers
<1> HIDE DEF rest, ps, seen, page, next, cur
<1>10. /\ poll' \in PollType /\ poll'.pc = "persist" /\ poll'.from = poll.from
       /\ poll'.maxCreated = seen /\ poll'.cursor = cur /\ poll'.startingAfter = next
       /\ poll'.page = page
  BY <1>4, <1>5, <1>6, <1>7, <1>9 DEF PollType
<1>11. Listing(ps, seen)
  BY <1>3, <1>4, <1>6, <1>8, <1>10 DEF Listing, rest, next, cur
<1> QED
  BY <1>2, <1>4, <1>11 DEF rest

(***************************************************************************)
(* Types                                                                   *)
(***************************************************************************)

\* No payment has been through more transitions than there were.
TransitionsCounted == \A p \in Payments : version[p] <= changes + 1

LEMMA TypeInit ==
  Init => TypeOK /\ TransitionsCounted
<1> SUFFICES ASSUME Init PROVE TypeOK /\ TransitionsCounted
  OBVIOUS
<1> QED
  BY ConstantTypes, IdleTyped DEF Init, TypeOK, PollType, TransitionsCounted

\* The polls that begin.
LEMMA PollBegins ==
  ASSUME NEW from \in Seconds,
         poll' = [Idle EXCEPT !.pc = "fetch", !.from = from, !.maxCreated = from]
  PROVE  /\ poll' \in PollType /\ poll'.pc = "fetch"
         /\ poll'.from = from /\ poll'.maxCreated = from
         /\ poll'.startingAfter = FromTheTop
         /\ poll'.page = Nothing /\ poll'.cursor = NoWatermark
  BY IdleTyped DEF PollType

LEMMA OpenBegins ==
  ASSUME TypeOK, Open \/ FallBack
  PROVE  \E from \in Seconds :
           /\ from \in {0, watermark}
           /\ poll' = [Idle EXCEPT !.pc = "fetch", !.from = from, !.maxCreated = from]
<1>1. CASE Open
  BY <1>1, ConstantTypes DEF Open, TypeOK
<1>2. CASE FallBack
  <2>1. poll' = [Idle EXCEPT !.pc = "fetch"]
    BY <1>2 DEF FallBack
  <2>2. poll' = [Idle EXCEPT !.pc = "fetch", !.from = 0, !.maxCreated = 0]
    BY <2>1, IdleTyped DEF PollType
  <2> QED
    BY <2>2, ConstantTypes
<1> QED
  BY <1>1, <1>2

\* What the transaction makes of the poll and the rows.
LEMMA PollPersists ==
  ASSUME TypeOK, PersistPage
  PROVE  /\ poll' \in PollType
         /\ poll.startingAfter # FromTheTop =>
              /\ poll'.pc = "fetch" /\ poll'.from = poll.from
              /\ poll'.startingAfter = poll.startingAfter /\ poll'.maxCreated = poll.maxCreated
              /\ poll'.page = Nothing /\ poll'.cursor = NoWatermark
         /\ poll.startingAfter = FromTheTop => poll' = Idle
         /\ row' \in [Payments -> Versions]
         /\ \A p \in Payments :
              row'[p] = IF poll.page[p] # 0 THEN poll.page[p] ELSE row[p]
         /\ watermark' = IF poll.cursor # NoWatermark THEN poll.cursor ELSE watermark
         /\ watermark' \in Seconds \cup {NoWatermark}
<1>1. poll \in PollType
  BY PaymentNumbers
<1>2. CASE poll.startingAfter # FromTheTop
  <2>1. poll' = [poll EXCEPT !.pc = "fetch", !.page = Nothing,
                             !.cursor = NoWatermark]
    BY <1>2 DEF PersistPage
  <2> QED
    BY <1>1, <1>2, <2>1, IdleTyped DEF PollType, PersistPage, TypeOK
<1>3. CASE poll.startingAfter = FromTheTop
  BY <1>1, <1>3, IdleTyped DEF PollType, PersistPage, TypeOK
<1> QED
  BY <1>2, <1>3

LEMMA CountedNext ==
  ASSUME TypeOK, TransitionsCounted, [Next]_vars
  PROVE  TransitionsCounted'
<1>1. \A p \in Payments : version[p] \in Nat /\ changes \in Nat
  BY PaymentNumbers DEF TypeOK
<1>2. CASE \E p \in Payments : Create(p) \/ Transition(p)
  BY <1>1, <1>2 DEF Create, Transition, TypeOK, TransitionsCounted
<1>3. CASE UNCHANGED <<version, changes>>
  BY <1>3 DEF TransitionsCounted
<1> QED
  BY <1>2, <1>3
     DEF Next, Poll, Open, FetchPage, PersistPage, FallBack, Fail, Deliver, Lose, Tick, vars,
         stripe

LEMMA TypeNext ==
  ASSUME TypeOK, TransitionsCounted, [Next]_vars
  PROVE  TypeOK'
<1>a. ASSUME UNCHANGED stripe,
             row' \in [Payments -> Versions],
             watermark' \in Seconds \cup {NoWatermark}, poll' \in PollType,
             events' \subseteq events, lost' \subseteq lost \cup events,
             failures' \in 0 .. MaxFailures, overtaken' \subseteq Payments
      PROVE  TypeOK'
  BY <1>a DEF TypeOK, PollType, stripe
<1>b. /\ row \in [Payments -> Versions]
      /\ watermark \in Seconds \cup {NoWatermark} /\ poll \in PollType
      /\ failures \in 0 .. MaxFailures /\ overtaken \subseteq Payments
  BY DEF TypeOK, PollType
<1>c. failures < MaxFailures => failures + 1 \in 0 .. MaxFailures
  BY <1>b, ConstantTypes
<1>d. TrackWrites => overtaken' \subseteq Payments
  BY <1>b DEF TrackWrites, TakenBack
<1>1. CASE Open \/ FallBack
  <2>1. poll' \in PollType
    BY <1>1, OpenBegins, PollBegins
  <2> QED
    BY <1>1, <1>a, <1>b, <1>c, <2>1 DEF Open, FallBack
<1>2. CASE FetchPage
  <2>1. poll' \in PollType
    BY <1>2, ListTyping DEF Listing
  <2> QED
    BY <1>2, <1>a, <1>b, <2>1 DEF FetchPage
<1>3. CASE PersistPage
  BY <1>3, <1>a, <1>b, <1>d, PollPersists DEF PersistPage
<1>4. CASE Fail
  BY <1>4, <1>a, <1>b, <1>c, IdleTyped DEF Fail
<1>5. ASSUME NEW e \in events, Deliver(e)
      PROVE  TypeOK'
  <2>1. e.payment \in Payments /\ e.version \in Versions
    BY DEF TypeOK, Events
  <2>2. row' \in [Payments -> Versions]
    BY <1>5, <1>b, <2>1 DEF Deliver, RowAfter
  <2> QED
    BY <1>5, <1>a, <1>b, <1>d, <2>2 DEF Deliver
<1>6. ASSUME NEW e \in events, Lose(e)
      PROVE  TypeOK'
  BY <1>6, <1>a, <1>b DEF Lose
<1>7. CASE Tick
  BY <1>7, ConstantTypes DEF Tick, TypeOK, Seconds
<1>8. ASSUME NEW p \in Payments, Create(p)
      PROVE  TypeOK'
  <2>1. version' \in [Payments -> Versions] /\ version'[p] = 1
    BY <1>8, ConstantTypes DEF Create, TypeOK
  <2>2. events' \subseteq Events
    BY <1>8, <2>1 DEF Create, Emit, Events, TypeOK
  <2>3. created' \in [Payments -> Seconds]
    BY <1>8 DEF Create, TypeOK
  <2> QED
    BY <1>8, <2>1, <2>2, <2>3 DEF Create, TypeOK
<1>9. ASSUME NEW p \in Payments, Transition(p)
      PROVE  TypeOK'
  <2>1. changes' = changes + 1 /\ changes' \in 0 .. MaxTransitions
    BY <1>9, ConstantTypes DEF Transition, TypeOK
  <2>2. version[p] + 1 \in Versions
    <3>1. version[p] \in Nat /\ changes \in Nat /\ version[p] <= changes + 1
      BY PaymentNumbers DEF TypeOK, TransitionsCounted
    <3> QED
      BY <2>1, <3>1, ConstantTypes DEF Versions
  <2>3. version' \in [Payments -> Versions]
    BY <1>9, <2>2 DEF Transition, TypeOK
  <2>4. events' \subseteq Events
    BY <1>9, <2>3 DEF Transition, Emit, Events, TypeOK
  <2> QED
    BY <1>9, <2>1, <2>3, <2>4 DEF Transition, TypeOK
<1>10. CASE UNCHANGED vars
  BY <1>10 DEF vars, stripe, TypeOK
<1> QED
  BY <1>1, <1>2, <1>3, <1>4, <1>5, <1>6, <1>7, <1>8, <1>9, <1>10 DEF Next, Poll

(***************************************************************************)
(* The watermark and the rows of payments                                  *)
(***************************************************************************)

\* Nothing is ahead of Stripe, and every event has something to write.
PaymentBounds ==
  /\ watermark <= now /\ poll.from <= now /\ poll.maxCreated <= now /\ poll.cursor <= now
  /\ \A p \in Payments :
       created[p] <= now /\ row[p] <= version[p] /\ poll.page[p] <= version[p]
  /\ \A e \in events \cup lost : 0 < e.version /\ e.version <= version[e.payment]

\* A payment was created after those with smaller numbers.
PaymentOrder ==
  \A p, q \in Payments :
    q < p /\ version[p] > 0 => version[q] > 0 /\ created[q] <= created[p]

\* A page is in hand until it is saved; the last page, and no other, has a cursor.
PollPhases ==
  /\ poll.pc # "persist" => poll.page = Nothing /\ poll.cursor = NoWatermark
  /\ poll.pc = "persist" =>
       (poll.startingAfter = FromTheTop <=> poll.cursor # NoWatermark)

\* The payment has a row, or will have one once the page in hand is saved.
Brought(p) == row[p] > 0 \/ poll.page[p] > 0

\* Payments earlier than the watermark of the poll have a row, though it leaves them out;
\* of those it has passed, or that were created since it did, only one no earlier than
\* its running maximum may lack one; and none earlier than the cursor does.
PaymentsBrought ==
  \A p \in Payments : version[p] > 0 =>
    /\ created[p] < watermark => row[p] > 0
    /\ created[p] < poll.from => row[p] > 0
    /\ p >= poll.startingAfter /\ created[p] < poll.maxCreated => Brought(p)
    /\ created[p] < poll.cursor => Brought(p)

PaymentInv == PaymentBounds /\ PaymentOrder /\ PollPhases /\ PaymentsBrought

\* A position of the watermark that some payment has reached.
Reached(n) == n <= 0 \/ \E p \in Payments : version[p] > 0 /\ created[p] >= n

\* A poll that goes on has come up to the watermark, or is still to list a payment that
\* has; one that has listed everything has come up to it.
PollAhead ==
  /\ Reached(watermark) /\ Reached(poll.maxCreated) /\ Reached(poll.cursor)
  /\ poll.cursor # NoWatermark => watermark <= poll.cursor
  /\ poll.pc # "idle" /\ poll.cursor = NoWatermark =>
       \/ watermark <= poll.maxCreated
       \/ \E p \in Payments :
            /\ p < poll.startingAfter /\ version[p] > 0
            /\ created[p] >= poll.from /\ created[p] >= watermark

LEMMA PaymentInit == Init => PaymentInv /\ PollAhead
<1> SUFFICES ASSUME Init PROVE PaymentInv /\ PollAhead
  OBVIOUS
<1>1. /\ now = 1 /\ watermark = -1 /\ poll = Idle /\ events = {} /\ lost = {}
      /\ \A p \in Payments : created[p] = 0 /\ version[p] = 0 /\ row[p] = 0
  BY IdleTyped DEF Init, NoWatermark
<1>2. PaymentBounds /\ PaymentOrder /\ PollPhases /\ PaymentsBrought
  BY <1>1, IdleTyped, ConstantTypes
     DEF PaymentBounds, PaymentOrder, PollPhases, PaymentsBrought, NoWatermark
<1>3. PollAhead
  BY <1>1, IdleTyped, ConstantTypes DEF PollAhead, Reached, NoWatermark
<1> QED
  BY <1>2, <1>3 DEF PaymentInv

\* A poll begins, or ends for nothing.
LEMMA PollBeginsWell ==
  ASSUME TypeOK, PaymentInv,
         UNCHANGED <<stripe, row, events, lost>>,
         watermark' \in {watermark, NoWatermark},
         poll'.from \in {0, watermark}, poll'.from \in Nat,
         poll'.maxCreated = poll'.from, poll'.startingAfter = FromTheTop,
         poll'.page = Nothing, poll'.cursor = NoWatermark,
         poll'.pc # "persist"
  PROVE  PaymentInv'
<1>1. UNCHANGED <<now, created, version, row, events, lost>>
  BY DEF stripe
<1>2. PaymentBounds'
  BY <1>1, PaymentNumbers, ConstantTypes, IdleTyped DEF PaymentInv, PaymentBounds
<1>3. PaymentOrder' /\ PollPhases'
  BY <1>1 DEF PaymentInv, PaymentOrder, PollPhases
<1>4. ASSUME NEW p \in Payments, version[p] > 0
      PROVE  /\ created[p] < watermark' => row[p] > 0
             /\ created[p] < poll'.from => row[p] > 0
             /\ ~(p >= poll'.startingAfter) /\ ~(created[p] < poll'.cursor)
  <2>1. created[p] < watermark => row[p] > 0
    BY <1>4 DEF PaymentInv, PaymentsBrought
  <2>2. created[p] \in Nat /\ p \in Nat /\ p < FromTheTop /\ FromTheTop \in Nat
        /\ NoWatermark < 0 /\ NoWatermark \in Int
    BY PaymentNumbers, ConstantTypes
  <2> QED
    BY <2>1, <2>2
<1>5. PaymentsBrought'
  BY <1>1, <1>4 DEF PaymentsBrought
<1> QED
  BY <1>2, <1>3, <1>5 DEF PaymentInv

\* A page is fetched: what it leaves behind it is brought or no earlier than its maximum.
LEMMA FetchKeepsPayments ==
  ASSUME TypeOK, PaymentInv, FetchPage
  PROVE  PaymentInv'
<1>1. PICK ps \in SUBSET Remaining, seen \in Seconds : Listing(ps, seen)
  BY ListTyping
<1>2. UNCHANGED <<now, created, version, row, watermark, events, lost>> /\ poll.pc = "fetch"
  BY DEF FetchPage, stripe
<1>3. ps \in SUBSET Payments /\ seen \in Nat
  BY ConstantTypes DEF Remaining
<1>4. seen <= now
  BY <1>1, <1>3, PaymentNumbers DEF Listing, PaymentInv, PaymentBounds
<1>5. PaymentBounds'
  <2>1. poll'.cursor <= now
    BY <1>1, <1>4, PaymentNumbers, ConstantTypes DEF Listing
  <2>2. \A p \in Payments : poll'.page[p] <= version[p]
    BY <1>1, PaymentNumbers DEF Listing
  <2> QED
    BY <1>1, <1>2, <1>4, <2>1, <2>2 DEF Listing, PaymentInv, PaymentBounds
<1>6. PollPhases'
  <2>1. ps # Remaining => poll'.startingAfter # FromTheTop
    BY <1>1, <1>3, ConstantTypes DEF Listing
  <2>2. seen # NoWatermark
    BY <1>3, ConstantTypes
  <2> QED
    BY <1>1, <2>1, <2>2 DEF Listing, PollPhases
<1>7. ASSUME NEW p \in Payments, version[p] > 0, created[p] < seen,
             p >= poll'.startingAfter \/ ps = Remaining
      PROVE  row[p] > 0 \/ poll'.page[p] > 0
  <2>1. CASE p >= poll.startingAfter /\ created[p] < poll.maxCreated
    <3>1. Brought(p) /\ poll.page[p] = 0
      BY <1>2, <1>7, <2>1, IdleTyped DEF PaymentInv, PaymentsBrought, PollPhases
    <3> QED
      BY <3>1 DEF Brought
  <2>2. CASE p >= poll.startingAfter /\ ~(created[p] < poll.maxCreated)
    <3>1. PICK x \in ps : seen = created[x]
      BY <1>1, <1>7, <2>2, PaymentNumbers DEF Listing
    <3>2. x < poll.startingAfter /\ x \in Payments
      BY <3>1 DEF Remaining
    <3>3. x < p
      BY <2>2, <3>2, PaymentNumbers
    <3>4. created[x] <= created[p]
      BY <1>7, <3>2, <3>3 DEF PaymentInv, PaymentOrder
    <3> QED
      BY <1>7, <3>1, <3>2, <3>4, PaymentNumbers
  <2>3. CASE ~(p >= poll.startingAfter) /\ created[p] < poll.from
    BY <1>7, <2>3 DEF PaymentInv, PaymentsBrought
  <2>4. CASE ~(p >= poll.startingAfter) /\ ~(created[p] < poll.from)
    <3>1. p \in Remaining
      BY <1>7, <2>4, PaymentNumbers DEF Remaining, Matches, Exists
    <3>2. p \in ps
      BY <1>1, <1>7, <3>1 DEF Listing
    <3> QED
      BY <1>1, <1>7, <3>2 DEF Listing
  <2> QED
    BY <2>1, <2>2, <2>3, <2>4
<1>8. PaymentsBrought'
  <2> SUFFICES ASSUME NEW p \in Payments, version[p] > 0
               PROVE  /\ created[p] < watermark => row[p] > 0
                      /\ created[p] < poll.from => row[p] > 0
                      /\ p >= poll'.startingAfter /\ created[p] < seen =>
                           row[p] > 0 \/ poll'.page[p] > 0
                      /\ created[p] < poll'.cursor => row[p] > 0 \/ poll'.page[p] > 0
    BY <1>1, <1>2 DEF PaymentsBrought, Brought, Listing
  <2>1. created[p] < poll'.cursor => created[p] < seen /\ ps = Remaining
    BY <1>1, PaymentNumbers, ConstantTypes DEF Listing
  <2> QED
    BY <1>7, <2>1 DEF PaymentInv, PaymentsBrought
<1> QED
  BY <1>2, <1>5, <1>6, <1>8 DEF PaymentInv, PaymentOrder

\* The page is saved: what was in hand has a row.
LEMMA PersistKeepsPayments ==
  ASSUME TypeOK, PaymentInv, PersistPage
  PROVE  PaymentInv'
<1>1. UNCHANGED <<now, created, version, events, lost>> /\ poll.pc = "persist"
  BY DEF PersistPage, stripe
<1>2. \A p \in Payments :
        /\ row'[p] = IF poll.page[p] # 0 THEN poll.page[p] ELSE row[p]
        /\ row'[p] <= version[p] /\ (row[p] > 0 => row'[p] > 0) /\ (Brought(p) => row'[p] > 0)
  BY PollPersists, PaymentNumbers DEF PaymentInv, PaymentBounds, Brought
<1>3. watermark' = IF poll.cursor # NoWatermark THEN poll.cursor ELSE watermark
  BY PollPersists
<1>4. CASE poll.startingAfter # FromTheTop
  <2>1. /\ poll'.pc = "fetch" /\ poll'.from = poll.from
        /\ poll'.startingAfter = poll.startingAfter /\ poll'.maxCreated = poll.maxCreated
        /\ poll'.page = Nothing /\ poll'.cursor = NoWatermark
    BY <1>4, PollPersists
  <2>2. watermark' = watermark
    BY <1>1, <1>3, <1>4 DEF PaymentInv, PollPhases
  <2>3. PaymentBounds'
    BY <1>1, <1>2, <2>1, <2>2, IdleTyped, ConstantTypes, PaymentNumbers
       DEF PaymentInv, PaymentBounds
  <2>4. PaymentOrder' /\ PollPhases'
    BY <1>1, <2>1 DEF PaymentInv, PaymentOrder, PollPhases
  <2>5. PaymentsBrought'
    <3> SUFFICES ASSUME NEW p \in Payments, version[p] > 0
                 PROVE  /\ created[p] < watermark => row'[p] > 0
                        /\ created[p] < poll.from => row'[p] > 0
                        /\ p >= poll.startingAfter /\ created[p] < poll.maxCreated => row'[p] > 0
                        /\ ~(created[p] < NoWatermark)
      BY <1>1, <2>1, <2>2 DEF PaymentsBrought, Brought
    <3> QED
      BY <1>2, PaymentNumbers, ConstantTypes DEF PaymentInv, PaymentsBrought
  <2> QED
    BY <2>3, <2>4, <2>5 DEF PaymentInv
<1>5. CASE poll.startingAfter = FromTheTop
  <2>1. poll' = Idle
    BY <1>5, PollPersists
  <2>2. watermark' = poll.cursor
    BY <1>1, <1>3, <1>5 DEF PaymentInv, PollPhases
  <2>3. PaymentBounds'
    BY <1>1, <1>2, <2>1, <2>2, IdleTyped, ConstantTypes, PaymentNumbers
       DEF PaymentInv, PaymentBounds
  <2>4. PaymentOrder' /\ PollPhases'
    BY <1>1, <2>1, IdleTyped DEF PaymentInv, PaymentOrder, PollPhases
  <2>5. PaymentsBrought'
    <3> SUFFICES ASSUME NEW p \in Payments, version[p] > 0
                 PROVE  /\ created[p] < poll.cursor => row'[p] > 0
                        /\ ~(created[p] < 0) /\ ~(p >= FromTheTop)
                        /\ ~(created[p] < NoWatermark)
      BY <1>1, <2>1, <2>2, IdleTyped DEF PaymentsBrought
    <3> QED
      BY <1>2, PaymentNumbers, ConstantTypes DEF PaymentInv, PaymentsBrought
  <2> QED
    BY <2>3, <2>4, <2>5 DEF PaymentInv
<1> QED
  BY <1>4, <1>5

\* The webhook writes a payment, so its row is there; it takes no other away.
LEMMA DeliverKeepsPayments ==
  ASSUME TypeOK, PaymentInv, NEW e \in events, Deliver(e)
  PROVE  PaymentInv'
<1>1. /\ UNCHANGED <<now, created, version, watermark, poll, lost>>
      /\ events' \subseteq events
  BY DEF Deliver, stripe
<1>2. \A p \in Payments : row'[p] = IF p = e.payment THEN e.version ELSE row[p]
  BY DEF Deliver, RowAfter, TypeOK
<1>3. \A p \in Payments : row'[p] <= version[p] /\ (row[p] > 0 => row'[p] > 0)
  BY <1>2 DEF PaymentInv, PaymentBounds
<1>4. PaymentBounds' /\ PaymentOrder' /\ PollPhases'
  BY <1>1, <1>3 DEF PaymentInv, PaymentBounds, PaymentOrder, PollPhases
<1>5. PaymentsBrought'
  BY <1>1, <1>3 DEF PaymentInv, PaymentsBrought, Brought
<1> QED
  BY <1>4, <1>5 DEF PaymentInv

\* A payment is created: no position is later than it, and no larger number exists.
LEMMA CreateKeepsPayments ==
  ASSUME TypeOK, PaymentInv, NEW p \in Payments, Create(p)
  PROVE  PaymentInv'
<1>1. /\ UNCHANGED <<now, row, watermark, poll, lost>>
      /\ version[p] = 0 /\ \A q \in Payments : q < p => version[q] > 0
  BY PaymentNumbers DEF Create, Exists
<1>2. \A q \in Payments : /\ version'[q] = IF q = p THEN 1 ELSE version[q]
                          /\ created'[q] = IF q = p THEN now ELSE created[q]
  BY DEF Create, TypeOK
<1>3. events' = events \cup {[payment |-> p, version |-> 1]}
  BY <1>2 DEF Create, Emit
<1>4. PaymentBounds'
  <2>1. \A q \in Payments :
          created'[q] <= now /\ row[q] <= version'[q] /\ poll.page[q] <= version'[q]
    BY <1>1, <1>2, PaymentNumbers DEF PaymentInv, PaymentBounds
  <2>2. \A e \in events' \cup lost : 0 < e.version /\ e.version <= version'[e.payment]
    BY <1>1, <1>2, <1>3, PaymentNumbers DEF PaymentInv, PaymentBounds
  <2> QED
    BY <1>1, <2>1, <2>2 DEF PaymentInv, PaymentBounds
<1>5. PaymentOrder'
  <2> SUFFICES ASSUME NEW x \in Payments, NEW q \in Payments,
                      q < x, version'[x] > 0
               PROVE  version'[q] > 0 /\ created'[q] <= created'[x]
    BY DEF PaymentOrder
  <2>1. CASE x = p
    <3>1. q # p /\ version[q] > 0 /\ created[q] <= now
      BY <1>1, <2>1, PaymentNumbers DEF PaymentInv, PaymentBounds
    <3> QED
      BY <1>2, <2>1, <3>1
  <2>2. CASE x # p
    <3>1. version[q] > 0 /\ created[q] <= created[x]
      BY <1>2, <2>2 DEF PaymentInv, PaymentOrder
    <3> QED
      BY <1>1, <1>2, <2>2, <3>1
  <2> QED
    BY <2>1, <2>2
<1>6. PaymentsBrought'
  <2> SUFFICES ASSUME NEW q \in Payments, version'[q] > 0
               PROVE  /\ created'[q] < watermark => row[q] > 0
                      /\ created'[q] < poll.from => row[q] > 0
                      /\ q >= poll.startingAfter /\ created'[q] < poll.maxCreated => Brought(q)
                      /\ created'[q] < poll.cursor => Brought(q)
    BY <1>1 DEF PaymentsBrought, Brought
  <2>1. CASE q = p
    BY <1>2, <2>1, PaymentNumbers DEF PaymentInv, PaymentBounds
  <2>2. CASE q # p
    BY <1>2, <2>2 DEF PaymentInv, PaymentsBrought
  <2> QED
    BY <2>1, <2>2
<1> QED
  BY <1>1, <1>4, <1>5, <1>6 DEF PaymentInv, PollPhases

\* A payment changes its status: nothing is earlier or later for that.
LEMMA TransitionKeepsPayments ==
  ASSUME TypeOK, PaymentInv,
         NEW p \in Payments, Transition(p)
  PROVE  PaymentInv'
<1>1. /\ UNCHANGED <<now, created, row, watermark, poll, lost>> /\ version[p] > 0
      /\ \A q \in Payments : version'[q] = IF q = p THEN version[q] + 1 ELSE version[q]
  BY DEF Transition, Exists, TypeOK
<1>2. \A q \in Payments : /\ version'[q] > 0 <=> version[q] > 0
                          /\ version[q] <= version'[q] /\ version'[q] \in Nat
  BY <1>1, PaymentNumbers
<1>3. events' = events \cup {[payment |-> p, version |-> version'[p]]}
  BY DEF Transition, Emit
<1>4. PaymentBounds'
  <2>1. \A q \in Payments : row[q] <= version'[q] /\ poll.page[q] <= version'[q]
    BY <1>2, PaymentNumbers DEF PaymentInv, PaymentBounds
  <2>2. ASSUME NEW e \in events' \cup lost
        PROVE  0 < e.version /\ e.version <= version'[e.payment]
    <3>1. CASE e \in events \cup lost
      BY <1>2, <3>1, PaymentNumbers DEF PaymentInv, PaymentBounds
    <3>2. CASE e = [payment |-> p, version |-> version'[p]]
      BY <1>1, <1>2, <3>2
    <3> QED
      BY <1>3, <3>1, <3>2
  <2> QED
    BY <1>1, <2>1, <2>2 DEF PaymentInv, PaymentBounds
<1>5. PaymentOrder' /\ PaymentsBrought'
  BY <1>1, <1>2 DEF PaymentInv, PaymentOrder, PaymentsBrought, Brought
<1> QED
  BY <1>1, <1>4, <1>5 DEF PaymentInv, PollPhases

LEMMA PaymentNext ==
  ASSUME TypeOK, PaymentInv, [Next]_vars
  PROVE  PaymentInv'
<1>1. CASE Open \/ FallBack
  <2>1. PICK from \in Seconds :
          /\ from \in {0, watermark}
          /\ poll' = [Idle EXCEPT !.pc = "fetch", !.from = from, !.maxCreated = from]
    BY <1>1, OpenBegins
  <2>2. watermark' \in {watermark, NoWatermark} /\ from \in Nat
        /\ UNCHANGED <<stripe, row, events, lost>>
    BY <1>1, ConstantTypes DEF Open, FallBack
  <2> QED
    BY <2>1, <2>2, PollBegins, PollBeginsWell
<1>2. CASE FetchPage
  BY <1>2, FetchKeepsPayments
<1>3. CASE PersistPage
  BY <1>3, PersistKeepsPayments
<1>4. CASE Fail
  <2>1. poll' = Idle /\ UNCHANGED <<stripe, row, watermark, events, lost>>
    BY <1>4 DEF Fail
  <2> QED
    BY <2>1, IdleTyped, PollBeginsWell
<1>5. ASSUME NEW e \in events, Deliver(e)
      PROVE  PaymentInv'
  BY <1>5, DeliverKeepsPayments
<1>6. ASSUME UNCHANGED <<created, version, row, watermark, poll>>,
             now' \in Nat, now <= now', events' \cup lost' \subseteq events \cup lost
      PROVE  PaymentInv'
  <2>1. PaymentBounds'
    BY <1>6, PaymentNumbers DEF PaymentInv, PaymentBounds
  <2> QED
    BY <1>6, <2>1 DEF PaymentInv, PaymentOrder, PollPhases, PaymentsBrought, Brought
<1>7. ASSUME NEW e \in events, Lose(e)
      PROVE  PaymentInv'
  BY <1>6, <1>7, PaymentNumbers DEF Lose, stripe
<1>8. CASE Tick
  BY <1>6, <1>8, PaymentNumbers DEF Tick
<1>9. ASSUME NEW p \in Payments, Create(p) \/ Transition(p)
      PROVE  PaymentInv'
  BY <1>9, CreateKeepsPayments, TransitionKeepsPayments
<1>10. CASE UNCHANGED vars
  BY <1>6, <1>10, PaymentNumbers DEF vars, stripe
<1> QED
  BY <1>1, <1>2, <1>3, <1>4, <1>5, <1>7, <1>8, <1>9, <1>10 DEF Next, Poll

(***************************************************************************)
(* What a poll has still to list                                           *)
(***************************************************************************)

\* What is reached stays reached: payments are not deleted.
LEMMA ReachedStays ==
  ASSUME TypeOK, NEW n \in Int, Reached(n),
         \A p \in Payments : version[p] > 0 => version'[p] > 0 /\ created'[p] = created[p]
  PROVE  n <= 0 \/ \E p \in Payments : version'[p] > 0 /\ created'[p] >= n
  BY DEF Reached

\* A poll that begins has everything still to list.
LEMMA PollBeginsBelow ==
  ASSUME TypeOK, PaymentInv, PollAhead,
         UNCHANGED stripe, watermark' \in {watermark, NoWatermark},
         poll'.from \in {0, watermark}, poll'.from \in Nat,
         poll'.maxCreated = poll'.from, poll'.startingAfter = FromTheTop,
         poll'.cursor = NoWatermark
  PROVE  PollAhead'
<1>1. UNCHANGED <<created, version>> /\ NoWatermark \in Int /\ NoWatermark < 0
  BY ConstantTypes DEF stripe
<1>2. Reached(watermark)' /\ Reached(poll.maxCreated)' /\ Reached(poll.cursor)'
  BY <1>1, PaymentNumbers DEF PollAhead, Reached
<1>3. CASE watermark' <= poll'.from
  BY <1>1, <1>2, <1>3 DEF PollAhead
<1>4. CASE ~(watermark' <= poll'.from)
  <2>1. poll'.from = 0 /\ watermark' = watermark /\ watermark > 0
    BY <1>1, <1>4, PaymentNumbers
  <2>2. PICK p \in Payments : version[p] > 0 /\ created[p] >= watermark
    BY <2>1, PaymentNumbers DEF PollAhead, Reached
  <2>3. p < poll'.startingAfter /\ created[p] >= poll'.from
    BY <2>1, <2>2, PaymentNumbers, ConstantTypes
  <2> QED
    BY <1>1, <1>2, <2>1, <2>2, <2>3 DEF PollAhead
<1> QED
  BY <1>3, <1>4

\* A page either leaves such a payment to list or raises the maximum to the watermark.
LEMMA FetchKeepsAhead ==
  ASSUME TypeOK, PaymentInv, PollAhead, FetchPage
  PROVE  PollAhead'
<1>1. PICK ps \in SUBSET Remaining, seen \in Seconds : Listing(ps, seen)
  BY ListTyping
<1>2. UNCHANGED <<created, version, watermark>> /\ poll.pc = "fetch"
  BY DEF FetchPage, stripe
<1>3. ps \in SUBSET Payments /\ seen \in Nat
  BY ConstantTypes DEF Remaining
<1>4. Reached(seen)
  <2>1. CASE seen = poll.maxCreated
    BY <2>1 DEF PollAhead
  <2>2. CASE \E p \in ps : seen = created[p]
    BY <1>3, <2>2, PaymentNumbers DEF Reached, Remaining, Matches, Exists
  <2> QED
    BY <1>1, <2>1, <2>2 DEF Listing
<1>5. \/ watermark <= seen
      \/ \E p \in Remaining \ ps : created[p] >= watermark
  <2>1. CASE watermark <= poll.maxCreated
    BY <1>1, <1>3, <2>1, PaymentNumbers DEF Listing
  <2>2. CASE ~(watermark <= poll.maxCreated)
    <3>1. poll.cursor = NoWatermark
      BY <1>2 DEF PaymentInv, PollPhases
    <3>2. PICK p \in Payments :
            /\ p < poll.startingAfter /\ version[p] > 0
            /\ created[p] >= poll.from /\ created[p] >= watermark
      BY <1>2, <2>2, <3>1 DEF PollAhead
    <3>3. p \in Remaining
      BY <3>2 DEF Remaining, Matches, Exists
    <3>4. p \in ps => watermark <= seen
      BY <1>1, <1>3, <3>2, PaymentNumbers DEF Listing
    <3> QED
      BY <3>2, <3>3, <3>4
  <2> QED
    BY <2>1, <2>2
<1>6. Reached(watermark)' /\ Reached(poll.maxCreated)' /\ Reached(poll.cursor)'
  BY <1>1, <1>2, <1>4, ConstantTypes DEF Listing, PollAhead, Reached
<1>7. CASE ps = Remaining
  BY <1>1, <1>2, <1>3, <1>5, <1>6, <1>7, ConstantTypes DEF Listing, PollAhead
<1>8. CASE ps # Remaining
  <2>1. poll'.cursor = NoWatermark /\ poll'.maxCreated = seen /\ poll'.from = poll.from
        /\ \A q \in Remaining \ ps : q < poll'.startingAfter
    BY <1>1, <1>8 DEF Listing
  <2>2. \/ watermark <= seen
        \/ \E p \in Payments :
             /\ p < poll'.startingAfter /\ version[p] > 0
             /\ created[p] >= poll.from /\ created[p] >= watermark
    BY <1>5, <2>1 DEF Remaining, Matches, Exists
  <2> QED
    BY <1>2, <1>6, <2>1, <2>2 DEF PollAhead
<1> QED
  BY <1>7, <1>8

LEMMA PollPersistKeepsAhead ==
  ASSUME TypeOK, PaymentInv, PollAhead, PersistPage
  PROVE  PollAhead'
<1>1. UNCHANGED <<created, version>> /\ poll.pc = "persist"
      /\ watermark' = IF poll.cursor # NoWatermark THEN poll.cursor ELSE watermark
  BY PollPersists DEF PersistPage, stripe
<1>2. Reached(watermark)'
  BY <1>1 DEF PollAhead, Reached
<1>3. CASE poll.startingAfter # FromTheTop
  <2>1. /\ poll'.from = poll.from /\ poll'.startingAfter = poll.startingAfter
        /\ poll'.maxCreated = poll.maxCreated /\ poll'.cursor = poll.cursor
        /\ poll.cursor = NoWatermark
    BY <1>1, <1>3, PollPersists DEF PaymentInv, PollPhases
  <2> QED
    BY <1>1, <1>2, <2>1 DEF PollAhead, Reached
<1>4. CASE poll.startingAfter = FromTheTop
  <2>1. poll' = Idle
    BY <1>4, PollPersists
  <2> QED
    BY <1>2, <2>1, IdleTyped, ConstantTypes DEF PollAhead, Reached
<1> QED
  BY <1>3, <1>4

LEMMA PollAheadNext ==
  ASSUME TypeOK, PaymentInv, PollAhead, [Next]_vars
  PROVE  PollAhead'
<1>1. CASE Open \/ FallBack
  <2>1. PICK from \in Seconds :
          /\ from \in {0, watermark}
          /\ poll' = [Idle EXCEPT !.pc = "fetch", !.from = from, !.maxCreated = from]
    BY <1>1, OpenBegins
  <2>2. watermark' \in {watermark, NoWatermark} /\ from \in Nat
        /\ UNCHANGED stripe
    BY <1>1, ConstantTypes DEF Open, FallBack
  <2> QED
    BY <2>1, <2>2, PollBegins, PollBeginsBelow
<1>2. CASE FetchPage
  BY <1>2, FetchKeepsAhead
<1>3. CASE PersistPage
  BY <1>3, PollPersistKeepsAhead
<1>4. CASE Fail
  <2>1. poll' = Idle /\ UNCHANGED <<stripe, watermark>>
    BY <1>4 DEF Fail
  <2> QED
    BY <2>1, IdleTyped, PollBeginsBelow
<1>5. ASSUME UNCHANGED <<watermark, poll>>,
             \A p \in Payments :
               version[p] > 0 => version'[p] > 0 /\ created'[p] = created[p]
      PROVE  PollAhead'
  <2>1. Reached(watermark)' /\ Reached(poll.maxCreated)' /\ Reached(poll.cursor)'
    BY <1>5, PaymentNumbers DEF PollAhead, Reached
  <2> QED
    BY <1>5, <2>1 DEF PollAhead
<1>6. ASSUME UNCHANGED <<created, version, watermark, poll>>
      PROVE  PollAhead'
  BY <1>5, <1>6
<1>7. ASSUME NEW e \in events, Deliver(e) \/ Lose(e)
      PROVE  PollAhead'
  BY <1>6, <1>7 DEF Deliver, Lose, stripe
<1>8. ASSUME NEW p \in Payments, Create(p)
      PROVE  PollAhead'
  BY <1>5, <1>8 DEF Create, Exists, TypeOK
<1>9. ASSUME NEW p \in Payments, Transition(p)
      PROVE  PollAhead'
  BY <1>5, <1>9, PaymentNumbers DEF Transition, TypeOK
<1>10. CASE Tick \/ UNCHANGED vars
  BY <1>6, <1>10 DEF Tick, vars, stripe
<1> QED
  BY <1>1, <1>2, <1>3, <1>4, <1>7, <1>8, <1>9, <1>10 DEF Next, Poll

(***************************************************************************)
(* The causes of a status out of date                                      *)
(***************************************************************************)

LEMMA CauseInit == Init => StaleOnlyWithCause
  BY DEF Init, StaleOnlyWithCause

\* A write by an older copy is put down to it, unless another cause is left.
LEMMA WritesExplained ==
  ASSUME TypeOK, StaleOnlyWithCause, TrackWrites,
         version' = version, NEW p \in Payments,
         row'[p] \in Nat, row'[p] <= version[p], row'[p] # version[p],
         [payment |-> p, version |-> version[p]] \in events \cup lost =>
           [payment |-> p, version |-> version[p]] \in events' \cup lost'
  PROVE  \/ [payment |-> p, version |-> version[p]] \in events' \cup lost'
         \/ p \in overtaken'
<1>1. overtaken' = (overtaken \cup TakenBack) \ Current /\ p \notin Current
  BY DEF TrackWrites, Current
<1>2. CASE row[p] = version[p]
  <2>1. row'[p] < row[p]
    BY <1>2, PaymentNumbers
  <2> QED
    BY <1>1, <2>1 DEF TakenBack
<1>3. CASE row[p] # version[p]
  BY <1>1, <1>3 DEF StaleOnlyWithCause
<1> QED
  BY <1>2, <1>3

LEMMA CauseNext ==
  ASSUME TypeOK, PaymentInv, StaleOnlyWithCause,
         [Next]_vars
  PROVE  StaleOnlyWithCause'
<1>1. CASE PersistPage
  <2> SUFFICES ASSUME NEW p \in Payments, row'[p] # version'[p]
               PROVE  \/ [payment |-> p, version |-> version'[p]] \in events' \cup lost'
                      \/ p \in overtaken'
    BY DEF StaleOnlyWithCause
  <2>1. UNCHANGED <<version, events, lost>> /\ TrackWrites
    BY <1>1 DEF PersistPage, stripe
  <2>2. row'[p] \in Nat /\ row'[p] <= version[p]
    BY <1>1, PollPersists, PaymentNumbers DEF PaymentInv, PaymentBounds
  <2> QED
    BY <2>1, <2>2, WritesExplained
<1>2. ASSUME NEW e \in events, Deliver(e)
      PROVE  StaleOnlyWithCause'
  <2> SUFFICES ASSUME NEW p \in Payments, row'[p] # version'[p]
               PROVE  \/ [payment |-> p, version |-> version'[p]] \in events' \cup lost'
                      \/ p \in overtaken'
    BY DEF StaleOnlyWithCause
  <2>1. UNCHANGED <<version, lost>> /\ events' = events \ {e} /\ TrackWrites
    BY <1>2 DEF Deliver, stripe
  <2>2. row'[p] = IF p = e.payment THEN e.version ELSE row[p]
    BY <1>2 DEF Deliver, RowAfter, TypeOK
  <2>3. row'[p] \in Nat /\ row'[p] <= version[p]
    BY <2>2, PaymentNumbers DEF PaymentInv, PaymentBounds
  <2>4. ASSUME e = [payment |-> p, version |-> version[p]]
        PROVE  FALSE
    <3>1. e.payment = p /\ e.version = version[p]
      BY <2>4
    <3>2. row'[p] = version'[p]
      BY <2>1, <2>2, <3>1
    <3> QED
      BY <3>2
  <2>5. e # [payment |-> p, version |-> version[p]]
    BY <2>4
  <2> QED
    BY <2>1, <2>3, <2>5, WritesExplained
<1>3. ASSUME NEW e \in events, Lose(e)
      PROVE  StaleOnlyWithCause'
  BY <1>3 DEF Lose, stripe, StaleOnlyWithCause
<1>4. ASSUME NEW p \in Payments, Create(p) \/ Transition(p)
      PROVE  StaleOnlyWithCause'
  <2>1. /\ UNCHANGED <<row, lost, overtaken>>
        /\ events' = events \cup {[payment |-> p, version |-> version'[p]]}
        /\ \A q \in Payments : q # p => version'[q] = version[q]
    BY <1>4 DEF Create, Transition, Emit, TypeOK
  <2> QED
    BY <2>1 DEF StaleOnlyWithCause
<1>5. CASE UNCHANGED <<version, row, events, lost, overtaken>>
  BY <1>5 DEF StaleOnlyWithCause
<1> QED
  BY <1>1, <1>2, <1>3, <1>4, <1>5
     DEF Next, Poll, Open, FetchPage, FallBack, Fail, Tick, vars, stripe

(***************************************************************************)
(* Theorems about payments                                                 *)
(***************************************************************************)

\* For any number of payments and transitions: Stripe, the tables, the poll and the events
\* stay within their types (stripe-payment-provider.ts, the Stripe webhook).
THEOREM TypeCorrect == Spec => []TypeOK
  BY TypeInit, TypeNext, CountedNext, PTL DEF Spec

\* For any number of payments, any page size, and payments created, polls failing and
\* events delivered at any time: a payment created before the watermark has a row, though
\* starting_after walks away from what is created meanwhile (fetchIncremental, fetchFull).
THEOREM PaymentsArrive == Spec => []NewPaymentsSafe
<1>1. PaymentInv => NewPaymentsSafe
  BY DEF PaymentInv, PaymentsBrought, NewPaymentsSafe, Exists
<1> QED
  BY <1>1, TypeInit, TypeNext, CountedNext, PaymentInit, PaymentNext, PTL DEF Spec

\* For any order in which polls and events write a payment: a row that is not up to date
\* has an event still to come, one that was lost, or was written last by an older copy
\* (persistBatch writes what it is given, from the poll and from the webhook).
THEOREM StatusesExplained == Spec => []StaleOnlyWithCause
  BY TypeInit, TypeNext, CountedNext, PaymentInit, PaymentNext, CauseInit, CauseNext, PTL
     DEF Spec

\* For any number of payments and failures: only the fallback drops the watermark of the
\* payments, and no poll, of all payments or from the watermark on, moves it back (the
\* maximum of toFetchResult starts at 0 in a full listing).
THEOREM WatermarkHolds ==
  Spec => [][watermark' < watermark => watermark' = NoWatermark]_vars
<1>1. TypeOK /\ PollAhead /\ [Next]_vars =>
        [watermark' < watermark => watermark' = NoWatermark]_vars
  <2> SUFFICES ASSUME TypeOK, PollAhead, Next, watermark' < watermark
               PROVE  watermark' = NoWatermark
    OBVIOUS
  <2>1. CASE PersistPage
    BY <2>1, PollPersists, PaymentNumbers DEF PollAhead
  <2>2. CASE FallBack
    BY <2>2 DEF FallBack
  <2>3. CASE watermark' = watermark
    BY <2>3, PaymentNumbers
  <2> QED
    BY <2>1, <2>2, <2>3
       DEF Next, Poll, Open, FetchPage, Fail, Deliver, Lose, Tick, Create, Transition
<1> QED
  BY <1>1, TypeInit, TypeNext, CountedNext, PaymentInit, PaymentNext, PollAheadNext, PTL
     DEF Spec

===============================================================================
