------------------------- MODULE RevenueReport_proofs -------------------------
(***************************************************************************)
(* Theorems about RevenueReport, for any spellings, mapping table,         *)
(* processes, payments, queries and bounds: the mapping first, then the    *)
(* calendar, the buckets that rest on it, and the report made of them.     *)
(***************************************************************************)
EXTENDS RevenueReport, FiniteSetTheorems, WellFoundedInduction, TLAPS

\* The statuses a table gives to the spellings that fold to one key.
Given(k) == {mapping[s] : s \in {x \in RawStatuses : Folded[x] = k}} \ {Unmapped}

\* What map() answers for a key under some load of the present table.
Loaded(k, status) == IF Given(k) = {} THEN status = "unknown" ELSE status \in Given(k)

\* A process that has seen every edit holds a load of the present table.
CachesFresh ==
  /\ cache \in [Procs -> [Keys -> CanonicalStatuses]]
  /\ loadedAt \in [Procs -> 0 .. edits]
  /\ \A proc \in Procs :
       loadedAt[proc] = edits => \A k \in Keys : Loaded(k, cache[proc][k])

\* A row written by such a process has a status that the table gives.
RowsFresh ==
  /\ rows \in [Payments -> [raw : RawStatuses, status : CanonicalStatuses] \cup {NoRow}]
  /\ asOf \in [Payments -> 0 .. edits]
  /\ \A p \in Payments :
       rows[p] # NoRow /\ asOf[p] = edits => Loaded(Folded[rows[p].raw], rows[p].status)

\* Nothing is said of the report: it reads the rows and changes none.
MappingInv ==
  /\ edits \in Nat
  /\ mapping \in [RawStatuses -> CanonicalStatuses \cup {Unmapped}]
  /\ CachesFresh
  /\ RowsFresh

\* A load of the table is a function from keys to statuses that the table gives.
LEMMA LoadsAreLoaded ==
  ASSUME NEW c \in Loads
  PROVE  c \in [Keys -> CanonicalStatuses] /\ \A k \in Keys : Loaded(k, c[k])
  BY DEF Loads, Loaded, Given

\* Every spelling folds to a key.
LEMMA FoldedIsKey == \A raw \in RawStatuses : Folded[raw] \in Keys
  BY SpellingAssumption DEF Keys

\* What the table gives changes with the table only.
LEMMA TableKept ==
  ASSUME UNCHANGED mapping
  PROVE  \A k, status : Loaded(k, status)' <=> Loaded(k, status)
<1>1. \A k : Given(k)' = Given(k)
  BY DEF Given
<1> QED
  BY <1>1 DEF Loaded

\* The processes that start before the first edit hold the seeds.
LEMMA MappingInit == Init => MappingInv
<1> SUFFICES ASSUME Init PROVE MappingInv
  OBVIOUS
<1>1. edits \in Nat /\ mapping \in [RawStatuses -> CanonicalStatuses \cup {Unmapped}]
  BY MappingAssumption DEF Init
<1>2. cache \in [Procs -> Loads]
  BY DEF Init
<1>3. CachesFresh
  <2>1. \A proc \in Procs : cache[proc] \in Loads
    BY <1>2
  <2>2. cache \in [Procs -> [Keys -> CanonicalStatuses]]
    BY <1>2, LoadsAreLoaded
  <2>3. \A proc \in Procs : \A k \in Keys : Loaded(k, cache[proc][k])
    BY <2>1, LoadsAreLoaded
  <2> QED
    BY <2>2, <2>3 DEF CachesFresh, Init
<1>4. RowsFresh
  BY DEF RowsFresh, Init
<1> QED
  BY <1>1, <1>3, <1>4 DEF MappingInv

\* Only edits, starts and writes touch what the invariant speaks of.
LEMMA MappingStep == MappingInv /\ [Next]_vars => MappingInv'
<1> SUFFICES ASSUME MappingInv, [Next]_vars PROVE MappingInv'
  OBVIOUS
<1> USE DEF MappingInv
<1>1. ASSUME NEW s \in RawStatuses, NEW status \in EditStatuses, Edit(s, status)
      PROVE  MappingInv'
  <2>1. edits' = edits + 1 /\ UNCHANGED <<cache, rows, loadedAt, asOf>>
    BY <1>1 DEF Edit
  <2>2. mapping' \in [RawStatuses -> CanonicalStatuses \cup {Unmapped}]
    BY <1>1, MappingAssumption DEF Edit
  <2>3. 0 .. edits \subseteq 0 .. edits' /\ \A n \in 0 .. edits : n # edits'
    BY <2>1
  <2>4. CachesFresh'
    BY <2>1, <2>3 DEF CachesFresh
  <2>5. RowsFresh'
    BY <2>1, <2>3 DEF RowsFresh
  <2> QED
    BY <2>1, <2>2, <2>4, <2>5
<1>2. ASSUME NEW proc \in Procs, Start(proc)
      PROVE  MappingInv'
  <2>1. UNCHANGED <<mapping, rows, edits, asOf>>
    BY <1>2 DEF Start
  <2>2. PICK c \in Loads : cache' = [cache EXCEPT ![proc] = c]
    BY <1>2 DEF Start
  <2>3. c \in [Keys -> CanonicalStatuses] /\ \A k \in Keys : Loaded(k, c[k])
    BY LoadsAreLoaded
  <2>4. loadedAt' = [loadedAt EXCEPT ![proc] = edits]
    BY <1>2 DEF Start
  <2>5. CachesFresh'
    BY <2>1, <2>2, <2>3, <2>4, TableKept DEF CachesFresh
  <2>6. RowsFresh'
    BY <2>1, TableKept DEF RowsFresh
  <2> QED
    BY <2>1, <2>5, <2>6
<1>3. ASSUME NEW proc \in Procs, NEW p \in Payments, NEW raw \in RawStatuses,
             Write(proc, p, raw)
      PROVE  MappingInv'
  <2>1. UNCHANGED <<mapping, cache, edits, loadedAt>>
    BY <1>3 DEF Write
  <2>2. CachesFresh'
    BY <2>1, TableKept DEF CachesFresh
  <2>3. rows' = [rows EXCEPT ![p] = [raw |-> raw, status |-> cache[proc][Folded[raw]]]]
    BY <1>3 DEF Write, Mapped
  <2>4. asOf' = [asOf EXCEPT ![p] = loadedAt[proc]]
    BY <1>3 DEF Write
  <2>5. cache[proc][Folded[raw]] \in CanonicalStatuses
    BY FoldedIsKey DEF CachesFresh
  <2>6. loadedAt[proc] = edits => Loaded(Folded[raw], cache[proc][Folded[raw]])
    BY FoldedIsKey DEF CachesFresh
  <2>7. rows' \in [Payments -> [raw : RawStatuses, status : CanonicalStatuses] \cup {NoRow}]
    BY <2>3, <2>5 DEF RowsFresh
  <2>8. asOf' \in [Payments -> 0 .. edits']
    BY <2>1, <2>4 DEF RowsFresh, CachesFresh
  <2>9. ASSUME NEW x \in Payments, rows'[x] # NoRow, asOf'[x] = edits'
        PROVE  Loaded(Folded[rows'[x].raw], rows'[x].status)
    <3>1. CASE x = p
      BY <3>1, <2>1, <2>3, <2>4, <2>6, <2>9 DEF RowsFresh
    <3>2. CASE x # p
      BY <3>2, <2>1, <2>3, <2>4, <2>9 DEF RowsFresh
    <3> QED
      BY <3>1, <3>2
  <2>10. RowsFresh'
    BY <2>1, <2>7, <2>8, <2>9, TableKept DEF RowsFresh
  <2> QED
    BY <2>1, <2>2, <2>10
<1>4. ASSUME UNCHANGED <<mapping, cache, rows, edits, loadedAt, asOf>>
      PROVE  MappingInv'
  BY <1>4, TableKept DEF CachesFresh, RowsFresh
<1>5. ASSUME NEW query \in Queries, NEW g \in Granularities, Begin(query, g)
      PROVE  MappingInv'
  BY <1>4, <1>5 DEF Begin
<1>6. CASE Aggregate
  BY <1>4, <1>6 DEF Aggregate
<1>7. CASE FindUnknown
  BY <1>4, <1>7 DEF FindUnknown
<1>8. CASE QueryFails
  BY <1>4, <1>8 DEF QueryFails
<1>9. CASE UNCHANGED vars
  BY <1>4, <1>9 DEF vars
<1> QED
  BY <1>1, <1>2, <1>3, <1>5, <1>6, <1>7, <1>8, <1>9 DEF Next

\* For any table and any number of processes and edits: a row differs from what the
\* mapping table says of its raw status only after an edit its writer had not loaded
\* (ConfigurablePaymentStatusMapper.refresh runs at start and never again).
THEOREM RowsFollowTheTable == Spec => []StaleOnlyAfterEdit
<1>1. MappingInv => StaleOnlyAfterEdit
  BY DEF MappingInv, RowsFresh, StaleOnlyAfterEdit, Loaded, Given
<1> QED
  BY <1>1, MappingInit, MappingStep, PTL DEF Spec

(***************************************************************************)
(* The calendar                                                            *)
(***************************************************************************)

\* The day on which year y begins.
NewYear(y) == 365 * (y - 1970) + LeapDays(y - 1) - LeapDays(1969)

Years  == {y \in Nat : y >= 1970}
Months == 1 .. 12

LEMMA LeapDaysGrow ==
  ASSUME NEW a \in Nat, NEW b \in Nat, a <= b
  PROVE  /\ LeapDays(a) \in Int
         /\ LeapDays(a) <= LeapDays(b) /\ LeapDays(b) <= LeapDays(a) + (b - a)
  BY DEF LeapDays

\* A year has 365 days and a leap day if it is a leap year.
LEMMA YearsGo ==
  ASSUME NEW y \in Years
  PROVE  /\ NewYear(y) \in Nat /\ NewYear(1970) = 0
         /\ NewYear(y + 1) = NewYear(y) + 365 + (IF Leap(y) THEN 1 ELSE 0)
         /\ \A z \in Years : y <= z => NewYear(y) <= NewYear(z)
         /\ 365 * (y - 1970) <= NewYear(y) /\ NewYear(y) <= 366 * (y - 1970)
<1>1. y \in Nat /\ y >= 1970 /\ y - 1 \in Nat /\ 1969 <= y - 1
  BY DEF Years
<1>2. LeapDays(y) = LeapDays(y - 1) + (IF Leap(y) THEN 1 ELSE 0)
  BY <1>1 DEF LeapDays, Leap
<1>3. /\ LeapDays(1969) <= LeapDays(y - 1)
      /\ LeapDays(y - 1) <= LeapDays(1969) + (y - 1970)
      /\ LeapDays(y - 1) \in Int /\ LeapDays(1969) \in Int
  BY <1>1, LeapDaysGrow
<1>4. y + 1 - 1 = y /\ y + 1 - 1970 = y - 1970 + 1 /\ 1970 - 1 = 1969
  BY <1>1
<1>5. NewYear(y + 1) = NewYear(y) + 365 + (IF Leap(y) THEN 1 ELSE 0)
  BY <1>1, <1>2, <1>3, <1>4 DEF NewYear
<1>6. ASSUME NEW z \in Years, y <= z
      PROVE  NewYear(y) <= NewYear(z)
  <2>1. z \in Nat /\ z - 1 \in Nat /\ y - 1 <= z - 1
    BY <1>1, <1>6 DEF Years
  <2>2. LeapDays(y - 1) <= LeapDays(z - 1) /\ LeapDays(z - 1) \in Int
    BY <1>1, <2>1, LeapDaysGrow
  <2> QED
    BY <1>1, <1>3, <1>6, <2>1, <2>2 DEF NewYear
<1>7. NewYear(1970) = 0
  BY <1>3, <1>4 DEF NewYear
<1> QED
  BY <1>1, <1>3, <1>5, <1>6, <1>7 DEF NewYear

\* The months of a year follow each other and fill it.
LEMMA MonthsGo ==
  ASSUME NEW y \in Years
  PROVE  /\ FirstOf(y, 1) = NewYear(y) /\ FirstOf(y, 13) = NewYear(y + 1)
         /\ \A m \in Months : FirstOf(y, m) \in Nat /\ FirstOf(y, m + 1) \in Nat
         /\ \A m, n \in Months : m <= n => FirstOf(y, m) < FirstOf(y, n + 1)
         /\ \A m, n \in Months : m < n => FirstOf(y, m + 1) <= FirstOf(y, n)
<1>1. y \in Nat /\ y >= 1970
  BY DEF Years
<1>2. /\ NewYear(y) \in Nat
      /\ NewYear(y + 1) = NewYear(y) + 365 + (IF Leap(y) THEN 1 ELSE 0)
  BY YearsGo
<1>3. FirstOf(y, 1) = NewYear(y)
  BY <1>1, <1>2 DEF FirstOf, DaysBefore, NewYear
<1>4. FirstOf(y, 13) = NewYear(y + 1)
  BY <1>1, <1>2 DEF FirstOf, DaysBefore, NewYear
<1>5. ASSUME NEW m \in Months
      PROVE  FirstOf(y, m) = NewYear(y) + DaysBefore[m] + (IF Leap(y) /\ m > 2 THEN 1 ELSE 0)
  BY <1>1 DEF FirstOf, NewYear, Months
<1>6. /\ FirstOf(y, 2) = NewYear(y) + 31
      /\ FirstOf(y, 3) = NewYear(y) + 59 + (IF Leap(y) THEN 1 ELSE 0)
      /\ FirstOf(y, 4) = NewYear(y) + 90 + (IF Leap(y) THEN 1 ELSE 0)
      /\ FirstOf(y, 5) = NewYear(y) + 120 + (IF Leap(y) THEN 1 ELSE 0)
      /\ FirstOf(y, 6) = NewYear(y) + 151 + (IF Leap(y) THEN 1 ELSE 0)
      /\ FirstOf(y, 7) = NewYear(y) + 181 + (IF Leap(y) THEN 1 ELSE 0)
      /\ FirstOf(y, 8) = NewYear(y) + 212 + (IF Leap(y) THEN 1 ELSE 0)
      /\ FirstOf(y, 9) = NewYear(y) + 243 + (IF Leap(y) THEN 1 ELSE 0)
      /\ FirstOf(y, 10) = NewYear(y) + 273 + (IF Leap(y) THEN 1 ELSE 0)
      /\ FirstOf(y, 11) = NewYear(y) + 304 + (IF Leap(y) THEN 1 ELSE 0)
      /\ FirstOf(y, 12) = NewYear(y) + 334 + (IF Leap(y) THEN 1 ELSE 0)
  BY <1>2, <1>5 DEF DaysBefore, Months
<1> QED
  BY <1>2, <1>3, <1>4, <1>6 DEF Months

\* The months do not overlap, whatever the years.
LEMMA MonthsApart ==
  ASSUME NEW y \in Years, NEW z \in Years, NEW m \in Months, NEW n \in Months
  PROVE  \/ y = z /\ m = n
         \/ FirstOf(y, m + 1) <= FirstOf(z, n)
         \/ FirstOf(z, n + 1) <= FirstOf(y, m)
<1>1. ASSUME NEW x \in Years, NEW w \in Years, NEW i \in Months, NEW j \in Months, x < w
      PROVE  FirstOf(x, i + 1) <= FirstOf(w, j)
  <2>1. /\ FirstOf(x, i + 1) <= FirstOf(x, 13) /\ FirstOf(w, 1) <= FirstOf(w, j)
        /\ FirstOf(x, i + 1) \in Nat /\ FirstOf(w, j) \in Nat
    <3>1. i = 12 \/ (i < 12 /\ 12 \in Months)
      BY DEF Months
    <3>2. j = 1 \/ (1 < j /\ 1 \in Months)
      BY DEF Months
    <3>3. i < 12 => FirstOf(x, i + 1) <= FirstOf(x, 12) /\ FirstOf(x, 12) < FirstOf(x, 13)
      BY <3>1, MonthsGo
    <3>4. 1 < j => FirstOf(w, 2) <= FirstOf(w, j) /\ FirstOf(w, 1) < FirstOf(w, 2)
      BY <3>2, MonthsGo
    <3>5. /\ FirstOf(x, i + 1) \in Nat /\ FirstOf(w, j) \in Nat
          /\ FirstOf(x, 12) \in Nat /\ FirstOf(x, 13) \in Nat
          /\ FirstOf(w, 1) \in Nat /\ FirstOf(w, 2) \in Nat
      <4>1. 12 \in Months /\ 1 \in Months
        BY DEF Months
      <4> QED
        BY <4>1, MonthsGo
    <3> QED
      BY <3>1, <3>2, <3>3, <3>4, <3>5
  <2>2. NewYear(x + 1) <= NewYear(w) /\ NewYear(x + 1) \in Nat /\ NewYear(w) \in Nat
    <3>1. x + 1 \in Years /\ x + 1 <= w
      BY <1>1 DEF Years
    <3> QED
      BY <3>1, YearsGo
  <2>3. FirstOf(x, 13) = NewYear(x + 1) /\ FirstOf(w, 1) = NewYear(w)
    BY MonthsGo
  <2> QED
    BY <2>1, <2>2, <2>3
<1>2. CASE y < z
  BY <1>1, <1>2
<1>3. CASE z < y
  BY <1>1, <1>3
<1>4. CASE y = z
  <2>1. m = n \/ m < n \/ n < m
    BY DEF Months
  <2> QED
    BY <1>4, <2>1, MonthsGo
<1> QED
  BY <1>2, <1>3, <1>4 DEF Years

\* Every day is in some year: the first one that ends after it.
LEMMA YearOfDay ==
  ASSUME NEW d \in Nat
  PROVE  \E y \in Years : NewYear(y) <= d /\ d < NewYear(y + 1)
<1> DEFINE Ended == {y \in Nat : y \in Years /\ d < NewYear(y + 1)}
<1>1. 1970 + d \in Ended
  <2>1. 1970 + d \in Years /\ 1971 + d \in Years /\ 1970 + d + 1 = 1971 + d
    BY DEF Years
  <2>2. 365 * (1971 + d - 1970) <= NewYear(1971 + d) /\ NewYear(1971 + d) \in Nat
    BY <2>1, YearsGo
  <2>3. d < 365 * (1971 + d - 1970)
    OBVIOUS
  <2> QED
    BY <2>1, <2>2, <2>3 DEF Years
<1>2. PICK y \in Ended : \A x \in Ended : ~(<<x, y>> \in OpToRel(<, Nat))
  <2>1. Ended \subseteq Nat /\ Ended # {}
    BY <1>1
  <2> HIDE DEF Ended
  <2> QED
    BY <2>1, NatLessThanWellFounded, WFMin
<1>3. y \in Years /\ y \in Nat /\ d < NewYear(y + 1) /\ NewYear(y) \in Nat
  BY YearsGo
<1>4. NewYear(y) <= d
  <2>1. CASE y = 1970
    BY <1>3, <2>1, YearsGo
  <2>2. CASE y # 1970
    <3>1. y - 1 \in Years /\ y - 1 \in Nat /\ y - 1 < y /\ y - 1 + 1 = y
      BY <1>3, <2>2 DEF Years
    <3>2. y - 1 \notin Ended
      BY <1>2, <1>3, <3>1 DEF OpToRel
    <3> QED
      BY <1>3, <3>1, <3>2
  <2> QED
    BY <2>1, <2>2
<1> QED
  BY <1>3, <1>4

\* And in some month of it.
LEMMA MonthOfDay ==
  ASSUME NEW d \in Nat
  PROVE  \E y \in Years, m \in Months : FirstOf(y, m) <= d /\ d < FirstOf(y, m + 1)
<1>1. PICK y \in Years : NewYear(y) <= d /\ d < NewYear(y + 1)
  BY YearOfDay
<1>2. FirstOf(y, 1) <= d /\ d < FirstOf(y, 13)
  BY <1>1, MonthsGo
<1>3. \A m \in Months : FirstOf(y, m) \in Nat /\ FirstOf(y, m + 1) \in Nat
  BY MonthsGo
<1> SUFFICES ASSUME \A m \in Months : FirstOf(y, m) <= d => FirstOf(y, m + 1) <= d
             PROVE  FALSE
  BY <1>3
<1>4. /\ FirstOf(y, 2) <= d /\ FirstOf(y, 3) <= d /\ FirstOf(y, 4) <= d /\ FirstOf(y, 5) <= d
      /\ FirstOf(y, 6) <= d /\ FirstOf(y, 7) <= d /\ FirstOf(y, 8) <= d /\ FirstOf(y, 9) <= d
      /\ FirstOf(y, 10) <= d /\ FirstOf(y, 11) <= d /\ FirstOf(y, 12) <= d
      /\ FirstOf(y, 13) <= d
  BY <1>2 DEF Months
<1>5. FirstOf(y, 13) \in Nat
  <2>1. 12 \in Months /\ 12 + 1 = 13
    BY DEF Months
  <2> QED
    BY <1>3, <2>1
<1> QED
  BY <1>2, <1>4, <1>5

\* YearMonth finds the month of a day, and the first of a month is in that month.
LEMMA YearMonthFinds ==
  ASSUME NEW d \in Nat
  PROVE  LET ym == YearMonth(d) IN
         /\ ym[1] \in Years /\ ym[2] \in Months
         /\ FirstOf(ym[1], ym[2]) <= d /\ d < FirstOf(ym[1], ym[2] + 1)
<1> DEFINE Candidates == ((1970 + d \div 366) .. (1970 + d \div 365)) \X (1 .. 12)
<1>1. PICK y \in Years, m \in Months : FirstOf(y, m) <= d /\ d < FirstOf(y, m + 1)
  BY MonthOfDay
<1>2. NewYear(y) <= d /\ d < NewYear(y + 1)
  <2>1. NewYear(y) <= FirstOf(y, m)
    <3>1. m = 1 \/ (1 < m /\ 1 \in Months)
      BY DEF Months
    <3>2. 1 < m => FirstOf(y, 2) <= FirstOf(y, m) /\ FirstOf(y, 1) < FirstOf(y, 2)
      BY <3>1, MonthsGo
    <3>3. /\ FirstOf(y, m) \in Nat /\ FirstOf(y, 1) \in Nat /\ FirstOf(y, 2) \in Nat
          /\ FirstOf(y, 1) = NewYear(y)
      <4>1. 1 \in Months /\ 1 + 1 = 2
        BY DEF Months
      <4> QED
        BY <4>1, MonthsGo
    <3> QED
      BY <3>1, <3>2, <3>3
  <2>2. FirstOf(y, m + 1) <= NewYear(y + 1)
    <3>1. m = 12 \/ (m < 12 /\ 12 \in Months)
      BY DEF Months
    <3>2. m < 12 => FirstOf(y, m + 1) <= FirstOf(y, 12) /\ FirstOf(y, 12) < FirstOf(y, 13)
      BY <3>1, MonthsGo
    <3>3. /\ FirstOf(y, m + 1) \in Nat /\ FirstOf(y, 12) \in Nat /\ FirstOf(y, 13) \in Nat
          /\ FirstOf(y, 13) = NewYear(y + 1)
      <4>1. 12 \in Months /\ 12 + 1 = 13
        BY DEF Months
      <4> QED
        BY <4>1, MonthsGo
    <3> QED
      BY <3>1, <3>2, <3>3
  <2>3. /\ FirstOf(y, m) \in Nat /\ FirstOf(y, m + 1) \in Nat
        /\ NewYear(y) \in Nat /\ NewYear(y + 1) \in Nat
    <3>1. y + 1 \in Years
      BY DEF Years
    <3> QED
      BY <3>1, MonthsGo, YearsGo
  <2> QED
    BY <1>1, <2>1, <2>2, <2>3
<1>3. y \in (1970 + d \div 366) .. (1970 + d \div 365)
  <2>1. /\ y \in Nat /\ y >= 1970 /\ y + 1 \in Years
        /\ NewYear(y) \in Nat /\ NewYear(y + 1) \in Nat
    BY YearsGo DEF Years
  <2>2. 365 * (y - 1970) <= NewYear(y) /\ NewYear(y + 1) <= 366 * (y + 1 - 1970)
    BY <2>1, YearsGo
  <2>3. 365 * (y - 1970) <= d /\ d < 366 * (y + 1 - 1970)
    BY <1>2, <2>1, <2>2
  <2>4. d \div 366 <= y - 1970 /\ y - 1970 <= d \div 365 /\ d \div 365 \in Nat /\ d \div 366 \in Nat
    BY <2>1, <2>3
  <2> QED
    BY <2>1, <2>4
<1>4. <<y, m>> \in Candidates /\ <<y, m>>[1] = y /\ <<y, m>>[2] = m
  BY <1>3 DEF Months
<1>5. /\ YearMonth(d) \in Candidates
      /\ FirstOf(YearMonth(d)[1], YearMonth(d)[2]) <= d
      /\ d < FirstOf(YearMonth(d)[1], YearMonth(d)[2] + 1)
  BY <1>1, <1>4 DEF YearMonth
<1>6. \A ym \in Candidates : ym[1] \in Years /\ ym[2] \in Months
  BY DEF Years, Months
<1> QED
  BY <1>5, <1>6

LEMMA YearMonthOfFirst ==
  ASSUME NEW y \in Years, NEW m \in Months
  PROVE  /\ FirstOf(y, m) \in Nat
         /\ YearMonth(FirstOf(y, m))[1] = y /\ YearMonth(FirstOf(y, m))[2] = m
<1>1. /\ FirstOf(y, m) \in Nat /\ FirstOf(y, m) < FirstOf(y, m + 1)
      /\ FirstOf(y, m + 1) \in Nat
  BY MonthsGo DEF Months
<1> DEFINE ym == YearMonth(FirstOf(y, m))
<1>2. /\ ym[1] \in Years /\ ym[2] \in Months
      /\ FirstOf(ym[1], ym[2]) <= FirstOf(y, m)
      /\ FirstOf(y, m) < FirstOf(ym[1], ym[2] + 1)
  BY <1>1, YearMonthFinds
<1> HIDE DEF ym
<1>3. FirstOf(ym[1], ym[2]) \in Nat /\ FirstOf(ym[1], ym[2] + 1) \in Nat
  BY <1>2, MonthsGo
<1>4. ym[1] = y /\ ym[2] = m
  BY <1>1, <1>2, <1>3, MonthsApart
<1> QED
  BY <1>1, <1>4 DEF ym

(***************************************************************************)
(* Buckets                                                                 *)
(***************************************************************************)

\* The bucket of a time in the range, from its start to its end.
StartOf(g, t, range) == BucketStart(g, t, range)
EndOf(g, t, range)   == BucketEnd(g, BucketStart(g, t, range), range)

\* A bucket of months is one month.
LEMMA MonthBucket ==
  ASSUME NEW t \in Nat, NEW range
  PROVE  \E y \in Years, m \in Months :
           /\ StartOf("month", t, range) = Day * FirstOf(y, m)
           /\ EndOf("month", t, range) = Day * FirstOf(y, m + 1)
           /\ FirstOf(y, m) <= t \div Day /\ t \div Day < FirstOf(y, m + 1)
<1>1. t \div Day \in Nat
  BY DEF Day
<1> DEFINE y == YearMonth(t \div Day)[1]
           m == YearMonth(t \div Day)[2]
<1>2. /\ y \in Years /\ m \in Months
      /\ FirstOf(y, m) <= t \div Day /\ t \div Day < FirstOf(y, m + 1)
  BY <1>1, YearMonthFinds
<1>3. StartOf("month", t, range) = Day * FirstOf(y, m)
  BY DEF StartOf, BucketStart
<1> HIDE DEF y, m
<1>4. /\ FirstOf(y, m) \in Nat
      /\ YearMonth(FirstOf(y, m))[1] = y /\ YearMonth(FirstOf(y, m))[2] = m
  BY <1>2, YearMonthOfFirst
<1>5. (Day * FirstOf(y, m)) \div Day = FirstOf(y, m)
  BY <1>4 DEF Day
<1>6. BucketEnd("month", Day * FirstOf(y, m), range) = Day * FirstOf(y, m + 1)
  BY <1>4, <1>5 DEF BucketEnd
<1>7. EndOf("month", t, range) = Day * FirstOf(y, m + 1)
  BY <1>3, <1>6 DEF EndOf, StartOf
<1> QED
  BY <1>2, <1>3, <1>7

\* A bucket covers the times that start it.
LEMMA BucketCovers ==
  ASSUME NEW g \in Granularities, NEW range \in [start : Int, end : Int], NEW t \in Nat,
         InRange(t, range)
  PROVE  /\ StartOf(g, t, range) \in Int /\ EndOf(g, t, range) \in Int
         /\ StartOf(g, t, range) <= t /\ t < EndOf(g, t, range)
<1>1. CASE g = "total"
  BY <1>1 DEF StartOf, EndOf, BucketStart, BucketEnd, InRange
<1>2. CASE g = "day"
  BY <1>2 DEF StartOf, EndOf, BucketStart, BucketEnd, Day
<1>3. CASE g = "week"
  BY <1>3 DEF StartOf, EndOf, BucketStart, BucketEnd, Day
<1>4. CASE g = "month"
  <2>1. PICK y \in Years, m \in Months :
           /\ StartOf(g, t, range) = Day * FirstOf(y, m)
           /\ EndOf(g, t, range) = Day * FirstOf(y, m + 1)
           /\ FirstOf(y, m) <= t \div Day /\ t \div Day < FirstOf(y, m + 1)
    BY <1>4, MonthBucket
  <2>2. FirstOf(y, m) \in Nat /\ FirstOf(y, m + 1) \in Nat
    BY MonthsGo
  <2> QED
    BY <2>1, <2>2 DEF Day
<1> QED
  BY <1>1, <1>2, <1>3, <1>4 DEF Granularities

\* Two buckets are one or lie apart.
LEMMA BucketsApart ==
  ASSUME NEW g \in Granularities, NEW range \in [start : Int, end : Int],
         NEW t \in Nat, NEW u \in Nat
  PROVE  \/ StartOf(g, t, range) = StartOf(g, u, range)
         \/ EndOf(g, t, range) <= StartOf(g, u, range)
         \/ EndOf(g, u, range) <= StartOf(g, t, range)
<1>1. CASE g = "total"
  BY <1>1 DEF StartOf, BucketStart
<1>2. CASE g = "day"
  BY <1>2 DEF StartOf, EndOf, BucketStart, BucketEnd, Day
<1>3. CASE g = "week"
  BY <1>3 DEF StartOf, EndOf, BucketStart, BucketEnd, Day
<1>4. CASE g = "month"
  <2>1. PICK y \in Years, m \in Months :
           /\ StartOf(g, t, range) = Day * FirstOf(y, m)
           /\ EndOf(g, t, range) = Day * FirstOf(y, m + 1)
    BY <1>4, MonthBucket
  <2>2. PICK z \in Years, n \in Months :
           /\ StartOf(g, u, range) = Day * FirstOf(z, n)
           /\ EndOf(g, u, range) = Day * FirstOf(z, n + 1)
    BY <1>4, MonthBucket
  <2>3. /\ FirstOf(y, m) \in Nat /\ FirstOf(y, m + 1) \in Nat
        /\ FirstOf(z, n) \in Nat /\ FirstOf(z, n + 1) \in Nat
    BY MonthsGo
  <2>4. \/ FirstOf(y, m) = FirstOf(z, n)
        \/ FirstOf(y, m + 1) <= FirstOf(z, n)
        \/ FirstOf(z, n + 1) <= FirstOf(y, m)
    BY MonthsApart
  <2> QED
    BY <2>1, <2>2, <2>3, <2>4 DEF Day
<1> QED
  BY <1>1, <1>2, <1>3, <1>4 DEF Granularities

(***************************************************************************)
(* The report                                                              *)
(***************************************************************************)

ReportType == [pc : {"idle", "querying", "done"}, granularity : Granularities,
               range : [start : Int, end : Int], due : SUBSET {"aggregate", "unknown"},
               buckets : SUBSET [start : Int, end : Int, payments : (SUBSET Payments) \ {{}}],
               warned : SUBSET Payments]

Types ==
  /\ report \in ReportType
  /\ report.pc = "querying" <=> report.due # {}
  /\ edits \in 0 .. MaxEdits
  /\ written \in 0 .. MaxWrites
  /\ touched \subseteq Payments

\* The bucket of a payment in the report being made.
StartFor(p) == StartOf(report.granularity, OccurredAt[p], report.range)
EndFor(p)   == EndOf(report.granularity, OccurredAt[p], report.range)

Inside(p) == InRange(OccurredAt[p], report.range)

Answers(query) == report.pc # "idle" /\ query \notin report.due

\* The answer of aggregate: its buckets are those of the payments in them, which lie in the
\* range, and a payment that was not touched is in one if it is collected.
Bucketed ==
  Answers("aggregate") =>
    /\ \A b \in report.buckets : \A p \in b.payments :
         Inside(p) /\ b.start = StartFor(p) /\ b.end = EndFor(p)
    /\ \A b, c \in report.buckets : b.start = c.start => b = c
    /\ \A p \in Payments \ touched :
         (\E b \in report.buckets : p \in b.payments) <=> Inside(p) /\ rows[p].status = "collected"

\* The answer of findUnknownStatuses.
Warned ==
  Answers("unknown") =>
    \A p \in Payments \ touched : p \in report.warned <=> Inside(p) /\ rows[p].status = "unknown"

ReportInv == Types /\ Bucketed /\ Warned

\* Times and ranges are numbers.
LEMMA RangesTyped ==
  ASSUME NEW query \in Queries
  PROVE  Resolve(query) \in [start : Int, end : Int]
<1>1. /\ query.from \in Nat \cup {Absent} /\ query.to \in Nat \cup {Absent}
      /\ Now \in Nat /\ Absent \in Int
  BY QueryAssumption, CalendarAssumption DEF Absent
<1>2. /\ Resolve(query).start \in Int /\ Resolve(query).end \in Int
      /\ Resolve(query) = [start |-> Resolve(query).start, end |-> Resolve(query).end]
  BY <1>1 DEF Resolve, Day
<1> QED
  BY <1>2

LEMMA ReportInit == Init => ReportInv
<1> SUFFICES ASSUME Init PROVE ReportInv
  OBVIOUS
<1>1. report = Idle /\ edits = 0 /\ written = 0 /\ touched = {}
  BY DEF Init
<1>2. /\ Idle \in ReportType /\ Idle.pc = "idle" /\ Idle.due = {}
  BY DEF Idle, ReportType, Granularities
<1>3. MaxEdits \in Nat /\ MaxWrites \in Nat
  BY BoundsAssumption
<1> QED
  BY <1>1, <1>2, <1>3 DEF ReportInv, Types, Bucketed, Warned, Answers

\* What a step keeps that leaves the report alone: it may write rows, and says which.
LEMMA ReportKept ==
  ASSUME ReportInv, UNCHANGED report, touched \subseteq touched', touched' \subseteq Payments,
         \A p \in Payments \ touched' : UNCHANGED rows[p],
         edits' \in 0 .. MaxEdits, written' \in 0 .. MaxWrites
  PROVE  ReportInv'
<1> USE DEF ReportInv
<1>1. Types'
  BY DEF Types
<1>2. \A p \in Payments : /\ Inside(p)' <=> Inside(p)
                          /\ StartFor(p)' = StartFor(p) /\ EndFor(p)' = EndFor(p)
  BY DEF Inside, StartFor, EndFor
<1>3. \A query : Answers(query)' <=> Answers(query)
  BY DEF Answers
<1>4. \A b \in report.buckets : b.payments \subseteq Payments
  BY DEF Types, ReportType
<1>5. Bucketed'
  BY <1>2, <1>3, <1>4 DEF Bucketed
<1>6. Warned'
  BY <1>2, <1>3 DEF Warned
<1> QED
  BY <1>1, <1>5, <1>6

LEMMA BeginReport ==
  ASSUME ReportInv, NEW query \in Queries, NEW g \in Granularities, Begin(query, g)
  PROVE  ReportInv'
<1> DEFINE r == [Idle EXCEPT !.pc = "querying", !.granularity = g, !.range = Resolve(query),
                             !.due = {"aggregate", "unknown"}]
<1>1. report' = r /\ touched' = {} /\ UNCHANGED <<edits, written>>
  BY DEF Begin
<1>2. r \in ReportType /\ r.pc = "querying" /\ r.due = {"aggregate", "unknown"}
  BY RangesTyped DEF Idle, ReportType
<1> HIDE DEF r
<1>3. Types'
  BY <1>1, <1>2 DEF ReportInv, Types
<1>4. Bucketed' /\ Warned'
  BY <1>1, <1>2 DEF Bucketed, Warned, Answers
<1> QED
  BY <1>3, <1>4 DEF ReportInv

\* What an answer to either query does to the report.
LEMMA AnsweredKeeps ==
  ASSUME Types, NEW query \in {"aggregate", "unknown"}, query \in report.due
  PROVE  LET r == Answered(query, report) IN
         /\ r \in ReportType /\ r.due = report.due \ {query}
         /\ r.pc \in {"querying", "done"} /\ report.pc = "querying"
         /\ r.pc = "querying" <=> r.due # {}
         /\ r.granularity = report.granularity /\ r.range = report.range
         /\ r.buckets = report.buckets /\ r.warned = report.warned
<1>1. report \in ReportType /\ report.pc = "querying"
  BY DEF Types
<1> DEFINE r == Answered(query, report)
<1>2. /\ r.due = report.due \ {query}
      /\ r.pc = IF report.due = {query} THEN "done" ELSE "querying"
      /\ r.granularity = report.granularity /\ r.range = report.range
      /\ r.buckets = report.buckets /\ r.warned = report.warned
  BY <1>1 DEF Answered, ReportType
<1>3. r \in ReportType
  BY <1>1 DEF Answered, ReportType
<1> QED
  BY <1>1, <1>2, <1>3

\* A payment in the range has a bucket, which covers it.
LEMMA BucketOf ==
  ASSUME Types, NEW p \in Payments, Inside(p)
  PROVE  /\ StartFor(p) \in Int /\ EndFor(p) \in Int
         /\ StartFor(p) <= OccurredAt[p] /\ OccurredAt[p] < EndFor(p)
<1>1. OccurredAt[p] \in Nat
  BY CalendarAssumption
<1>2. report.granularity \in Granularities /\ report.range \in [start : Int, end : Int]
  BY DEF Types, ReportType
<1> QED
  BY <1>1, <1>2, BucketCovers DEF StartFor, EndFor, Inside

\* Every payment that counts is in the bucket that its own time starts.
LEMMA AggregateReport ==
  ASSUME ReportInv, Aggregate
  PROVE  ReportInv'
<1> DEFINE B == {[start    |-> at,
                  end      |-> BucketEnd(report.granularity, at, report.range),
                  payments |-> {p \in Counted : StartFor(p) = at}]
                    : at \in {StartFor(p) : p \in Counted}}
           r == Answered("aggregate", report)
<1>1. /\ Types /\ "aggregate" \in report.due
      /\ report' = [r EXCEPT !.buckets = B]
      /\ UNCHANGED <<rows, edits, written, touched>>
  BY DEF Aggregate, StartFor, StartOf, ReportInv
<1>2. /\ r \in ReportType /\ r.due = report.due \ {"aggregate"}
      /\ r.pc \in {"querying", "done"} /\ report.pc = "querying"
      /\ r.pc = "querying" <=> r.due # {}
      /\ r.granularity = report.granularity /\ r.range = report.range
      /\ r.warned = report.warned
  BY <1>1, AnsweredKeeps
<1> HIDE DEF r
<1>3. ASSUME NEW p \in Counted
      PROVE  /\ p \in Payments /\ Inside(p) /\ rows[p].status = "collected"
             /\ StartFor(p) \in Int /\ EndFor(p) \in Int
             /\ EndFor(p) = BucketEnd(report.granularity, StartFor(p), report.range)
  <2>1. p \in Payments /\ Inside(p) /\ rows[p].status = "collected"
    BY DEF Counted, Selected, CollectedStatuses, Inside
  <2> QED
    BY <1>1, <2>1, BucketOf DEF EndFor, EndOf, StartFor, StartOf
<1>4. ASSUME NEW b \in B
      PROVE  /\ b \in [start : Int, end : Int, payments : (SUBSET Payments) \ {{}}]
             /\ b.payments = {p \in Counted : StartFor(p) = b.start}
             /\ b.end = BucketEnd(report.granularity, b.start, report.range)
  <2>1. PICK p \in Counted :
          b = [start    |-> StartFor(p),
               end      |-> BucketEnd(report.granularity, StartFor(p), report.range),
               payments |-> {q \in Counted : StartFor(q) = StartFor(p)}]
    BY <1>4
  <2>2. p \in {q \in Counted : StartFor(q) = StartFor(p)}
    OBVIOUS
  <2>3. Counted \subseteq Payments
    BY <1>3
  <2>4. {q \in Counted : StartFor(q) = StartFor(p)} \in (SUBSET Payments) \ {{}}
    <3>1. {q \in Counted : StartFor(q) = StartFor(p)} \subseteq Payments
      BY <2>3
    <3>2. {q \in Counted : StartFor(q) = StartFor(p)} # {}
      BY <2>2
    <3> QED
      BY <3>1, <3>2
  <2>5. BucketEnd(report.granularity, StartFor(p), report.range) \in Int /\ StartFor(p) \in Int
    BY <1>3
  <2>6. /\ b.start = StartFor(p) /\ b.payments = {q \in Counted : StartFor(q) = StartFor(p)}
        /\ b.end = BucketEnd(report.granularity, StartFor(p), report.range)
    BY <2>1
  <2>7. b = [start |-> b.start, end |-> b.end, payments |-> b.payments]
    BY <2>1, <2>6
  <2>8. b.start \in Int /\ b.end \in Int /\ b.payments \in (SUBSET Payments) \ {{}}
    BY <2>4, <2>5, <2>6
  <2>9. b \in [start : Int, end : Int, payments : (SUBSET Payments) \ {{}}]
    BY <2>7, <2>8
  <2> QED
    BY <2>6, <2>9
<1>5. ASSUME NEW p \in Counted
      PROVE  \E b \in B : b.start = StartFor(p) /\ p \in b.payments
  <2> DEFINE b == [start    |-> StartFor(p),
                   end      |-> BucketEnd(report.granularity, StartFor(p), report.range),
                   payments |-> {q \in Counted : StartFor(q) = StartFor(p)}]
  <2>1. b \in B
    OBVIOUS
  <2>2. b.start = StartFor(p) /\ p \in b.payments
    OBVIOUS
  <2> QED
    BY <2>1, <2>2
<1>6. ASSUME NEW b \in B, NEW c \in B, b.start = c.start
      PROVE  b = c
  <2>1. /\ b = [start |-> b.start, end |-> b.end, payments |-> b.payments]
        /\ c = [start |-> c.start, end |-> c.end, payments |-> c.payments]
    BY <1>4
  <2> QED
    BY <1>4, <1>6, <2>1
<1>7. B \subseteq [start : Int, end : Int, payments : (SUBSET Payments) \ {{}}]
  BY <1>4
<1> HIDE DEF B
<1>8. /\ report' \in ReportType /\ report'.buckets = B /\ report'.warned = report.warned
      /\ report'.due = r.due /\ report'.pc = r.pc
      /\ report'.granularity = report.granularity /\ report'.range = report.range
  BY <1>1, <1>2, <1>7 DEF ReportType
<1>9. Types'
  BY <1>1, <1>2, <1>8 DEF Types
<1>10. \A p \in Payments : /\ Inside(p)' <=> Inside(p)
                           /\ StartFor(p)' = StartFor(p) /\ EndFor(p)' = EndFor(p)
  BY <1>8 DEF Inside, StartFor, EndFor
<1>11. Bucketed'
  <2>1. ASSUME NEW b \in B, NEW p \in b.payments
        PROVE  p \in Counted /\ Inside(p) /\ b.start = StartFor(p) /\ b.end = EndFor(p)
    BY <1>3, <1>4, <2>1
  <2>2. ASSUME NEW p \in Payments
        PROVE  (\E b \in B : p \in b.payments) <=> Inside(p) /\ rows[p].status = "collected"
    <3>1. p \in Counted <=> Inside(p) /\ rows[p].status = "collected"
      BY DEF Counted, Selected, CollectedStatuses, Inside
    <3> QED
      BY <1>5, <2>1, <3>1
  <2>3. \A b \in B : b.payments \subseteq Payments
    BY <1>7
  <2> QED
    BY <1>1, <1>6, <1>8, <1>10, <2>1, <2>2, <2>3 DEF Bucketed
<1>12. Warned'
  <2>1. Answers("unknown")' => Answers("unknown")
    BY <1>2, <1>8 DEF Answers
  <2> QED
    BY <1>1, <1>8, <1>10, <2>1 DEF ReportInv, Warned
<1> QED
  BY <1>9, <1>11, <1>12 DEF ReportInv

LEMMA FindUnknownReport ==
  ASSUME ReportInv, FindUnknown
  PROVE  ReportInv'
<1> DEFINE r == Answered("unknown", report)
<1>1. /\ Types /\ "unknown" \in report.due
      /\ report' = [r EXCEPT !.warned = Selected({"unknown"})]
      /\ UNCHANGED <<rows, edits, written, touched>>
  BY DEF FindUnknown, ReportInv
<1>2. /\ r \in ReportType /\ r.due = report.due \ {"unknown"}
      /\ r.pc \in {"querying", "done"} /\ report.pc = "querying"
      /\ r.pc = "querying" <=> r.due # {}
      /\ r.granularity = report.granularity /\ r.range = report.range
      /\ r.buckets = report.buckets
  BY <1>1, AnsweredKeeps
<1> HIDE DEF r
<1>3. \A p \in Payments : p \in Selected({"unknown"}) <=> Inside(p) /\ rows[p].status = "unknown"
  BY DEF Selected, Inside
<1>4. Selected({"unknown"}) \subseteq Payments
  BY DEF Selected
<1>5. /\ report' \in ReportType /\ report'.warned = Selected({"unknown"})
      /\ report'.buckets = report.buckets /\ report'.due = r.due /\ report'.pc = r.pc
      /\ report'.granularity = report.granularity /\ report'.range = report.range
  BY <1>1, <1>2, <1>4 DEF ReportType
<1>6. Types'
  BY <1>1, <1>2, <1>5 DEF Types
<1>7. \A p \in Payments : /\ Inside(p)' <=> Inside(p)
                          /\ StartFor(p)' = StartFor(p) /\ EndFor(p)' = EndFor(p)
  BY <1>5 DEF Inside, StartFor, EndFor
<1>8. Bucketed'
  <2>1. Answers("aggregate")' => Answers("aggregate")
    BY <1>2, <1>5 DEF Answers
  <2>2. \A b \in report.buckets : b.payments \subseteq Payments
    BY <1>1 DEF Types, ReportType
  <2> QED
    BY <1>1, <1>5, <1>7, <2>1, <2>2 DEF ReportInv, Bucketed
<1>9. Warned'
  BY <1>1, <1>3, <1>5, <1>7 DEF Warned
<1> QED
  BY <1>6, <1>8, <1>9 DEF ReportInv

LEMMA ReportStep == MappingInv /\ ReportInv /\ [Next]_vars => ReportInv'
<1> SUFFICES ASSUME MappingInv, ReportInv, [Next]_vars PROVE ReportInv'
  OBVIOUS
<1>1. /\ edits \in 0 .. MaxEdits /\ written \in 0 .. MaxWrites /\ touched \subseteq Payments
      /\ MaxEdits \in Nat /\ MaxWrites \in Nat
  BY BoundsAssumption DEF ReportInv, Types
<1>2. ASSUME NEW s \in RawStatuses, NEW status \in EditStatuses, Edit(s, status)
      PROVE  ReportInv'
  <2>1. UNCHANGED <<report, rows, written, touched>> /\ edits' \in 0 .. MaxEdits
    BY <1>1, <1>2 DEF Edit
  <2> QED
    BY <1>1, <2>1, ReportKept
<1>3. ASSUME NEW proc \in Procs, Start(proc)
      PROVE  ReportInv'
  BY <1>1, <1>3, ReportKept DEF Start
<1>4. ASSUME NEW proc \in Procs, NEW p \in Payments, NEW raw \in RawStatuses,
             Write(proc, p, raw)
      PROVE  ReportInv'
  <2>1. /\ UNCHANGED <<report, edits>> /\ written' \in 0 .. MaxWrites
        /\ touched' = touched \cup {p}
    BY <1>1, <1>4 DEF Write
  <2>2. \A q \in Payments \ touched' : UNCHANGED rows[q]
    BY <1>4, <2>1 DEF Write, MappingInv, RowsFresh
  <2> QED
    BY <1>1, <2>1, <2>2, ReportKept
<1>5. ASSUME NEW query \in Queries, NEW g \in Granularities, Begin(query, g)
      PROVE  ReportInv'
  BY <1>5, BeginReport
<1>6. CASE Aggregate
  BY <1>6, AggregateReport
<1>7. CASE FindUnknown
  BY <1>7, FindUnknownReport
<1>8. CASE QueryFails
  <2>1. report' = Idle /\ UNCHANGED <<edits, written, touched>>
    BY <1>8 DEF QueryFails
  <2>2. Idle \in ReportType /\ Idle.pc = "idle" /\ Idle.due = {}
    BY DEF Idle, ReportType, Granularities
  <2> QED
    BY <1>1, <2>1, <2>2 DEF ReportInv, Types, Bucketed, Warned, Answers
<1>9. CASE UNCHANGED vars
  BY <1>1, <1>9, ReportKept DEF vars
<1> QED
  BY <1>2, <1>3, <1>4, <1>5, <1>6, <1>7, <1>8, <1>9 DEF Next

LEMMA ReportAlways == Spec => [](MappingInv /\ ReportInv)
  BY MappingInit, MappingStep, ReportInit, ReportStep, PTL DEF Spec

\* For any table, processes, payments and queries: every row has a canonical status, and
\* a report has a granularity, a range and non-empty buckets.
THEOREM TypeCorrect == Spec => []TypeOK
<1>1. MappingInv /\ ReportInv => TypeOK
  <2> SUFFICES ASSUME MappingInv, ReportInv PROVE TypeOK
    OBVIOUS
  <2>1. /\ report \in ReportType /\ (report.pc = "querying" <=> report.due # {})
        /\ edits \in 0 .. MaxEdits /\ written \in 0 .. MaxWrites /\ touched \subseteq Payments
        /\ MaxEdits \in Nat
    BY BoundsAssumption DEF ReportInv, Types
  <2>2. 0 .. edits \subseteq 0 .. MaxEdits
    BY <2>1
  <2>3. /\ mapping \in [RawStatuses -> CanonicalStatuses \cup {Unmapped}]
        /\ cache \in [Procs -> [Keys -> CanonicalStatuses]]
        /\ rows \in [Payments -> [raw : RawStatuses, status : CanonicalStatuses] \cup {NoRow}]
        /\ loadedAt \in [Procs -> 0 .. MaxEdits] /\ asOf \in [Payments -> 0 .. MaxEdits]
    BY <2>2 DEF MappingInv, CachesFresh, RowsFresh
  <2>4. \A b \in report.buckets :
          b.start \in Int /\ b.end \in Int /\ b.payments \in (SUBSET Payments) \ {{}}
    BY <2>1 DEF ReportType
  <2> QED
    BY <2>1, <2>3, <2>4 DEF TypeOK, ReportType
<1> QED
  BY <1>1, ReportAlways, PTL

\* For any payments, times, ranges and granularities: a finished report has every payment
\* that nobody wrote meanwhile in exactly one bucket, which covers its time, or in the
\* warnings, or in neither, as its row says; and its buckets lie apart.  The buckets of
\* date_trunc and those of computeBucketEnd fit together in every month of every year.
THEOREM ReportsAddUp == Spec => []AccountedOnce
<1>1. ReportInv => AccountedOnce
  <2> SUFFICES ASSUME ReportInv, report.pc = "done" PROVE AccountedOnce
    BY DEF AccountedOnce
  <2>1. Types /\ report.due = {} /\ report \in ReportType
    BY DEF ReportInv, Types
  <2>2. Bucketed /\ Warned /\ Answers("aggregate") /\ Answers("unknown")
    BY <2>1 DEF ReportInv, Answers
  <2>3. ASSUME NEW b \in report.buckets, NEW p \in b.payments
        PROVE  /\ p \in Payments /\ Inside(p) /\ b.start = StartFor(p) /\ b.end = EndFor(p)
    BY <2>1, <2>2 DEF Bucketed, ReportType
  <2>4. ASSUME NEW b \in report.buckets, NEW p \in b.payments, NEW c \in report.buckets,
               p \in c.payments
        PROVE  b = c
    BY <2>2, <2>3, <2>4 DEF Bucketed
  <2>5. ASSUME NEW p \in Payments \ touched
        PROVE  LET mine   == {b \in report.buckets : p \in b.payments}
                   inside == /\ report.range.start <= OccurredAt[p]
                             /\ OccurredAt[p] < report.range.end
               IN  /\ Cardinality(mine) = IF inside /\ rows[p].status = "collected" THEN 1 ELSE 0
                   /\ \A b \in mine : b.start <= OccurredAt[p] /\ OccurredAt[p] < b.end
                   /\ p \in report.warned <=> inside /\ rows[p].status = "unknown"
    <3> DEFINE mine   == {b \in report.buckets : p \in b.payments}
               inside == /\ report.range.start <= OccurredAt[p]
                         /\ OccurredAt[p] < report.range.end
    <3>1. inside <=> Inside(p)
      BY DEF Inside, InRange
    <3>2. mine # {} <=> inside /\ rows[p].status = "collected"
      BY <2>2, <3>1 DEF Bucketed
    <3>3. \A b, c \in mine : b = c
      BY <2>4
    <3>4. \A b \in mine : b.start <= OccurredAt[p] /\ OccurredAt[p] < b.end
      BY <2>1, <2>3, BucketOf
    <3>5. p \in report.warned <=> inside /\ rows[p].status = "unknown"
      BY <2>2, <3>1 DEF Warned
    <3>6. Cardinality(mine) = IF mine # {} THEN 1 ELSE 0
      <4>1. CASE mine = {}
        BY <4>1, FS_EmptySet
      <4>2. CASE mine # {}
        <5>1. PICK b \in mine : TRUE
          BY <4>2
        <5>2. mine = {b}
          BY <3>3, <5>1
        <5> QED
          BY <4>2, <5>2, FS_Singleton
      <4> QED
        BY <4>1, <4>2
    <3> QED
      BY <3>2, <3>4, <3>5, <3>6
  <2>6. ASSUME NEW b \in report.buckets, NEW c \in report.buckets
        PROVE  b = c \/ b.end <= c.start \/ c.end <= b.start
    <3>1. b.payments # {} /\ c.payments # {}
      <4>1. \A x \in report.buckets : x.payments \in (SUBSET Payments) \ {{}}
        BY <2>1 DEF ReportType
      <4> QED
        BY <4>1, <2>6
    <3>2. PICK p \in b.payments, q \in c.payments : TRUE
      BY <3>1
    <3>3. /\ b.start = StartFor(p) /\ b.end = EndFor(p) /\ p \in Payments
          /\ c.start = StartFor(q) /\ c.end = EndFor(q) /\ q \in Payments
      BY <2>3
    <3>4. /\ OccurredAt[p] \in Nat /\ OccurredAt[q] \in Nat
          /\ report.granularity \in Granularities /\ report.range \in [start : Int, end : Int]
      BY <2>1, <3>3, CalendarAssumption DEF ReportType
    <3>5. b.start = c.start \/ b.end <= c.start \/ c.end <= b.start
      BY <3>3, <3>4, BucketsApart DEF StartFor, EndFor
    <3> QED
      BY <2>2, <3>5 DEF Bucketed
  <2> QED
    BY <2>5, <2>6 DEF AccountedOnce
<1> QED
  BY <1>1, ReportAlways, PTL
=============================================================================
