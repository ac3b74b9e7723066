--------------------------- MODULE RetentionProofs ---------------------------
(***************************************************************************)
(* Retention for any lengths of hours, days and retention periods: what a  *)
(* run carries down the tiers, how long a sample is safe, and which rows   *)
(* can lose what they were computed from.                                  *)
(*                                                                         *)
(* None of the four properties is inductive.  Each is proved from what one *)
(* tier still knows of the other: a raw row that no hourly row has counted *)
(* was recorded at most an hour before the last aggregation; a young       *)
(* hourly row holds only raw rows that are still there, and a young daily  *)
(* row only samples of hourly rows that are; what an hourly row still      *)
(* holds of deleted raw rows is older than all the others.                 *)
(***************************************************************************)
EXTENDS Retention, TLAPS

-----------------------------------------------------------------------------
\* Arithmetic of the buckets.

\* What \div means, for the solver.
LEMMA DivBounds ==
  ASSUME NEW a \in Nat, NEW n \in Nat \ {0}
  PROVE  a \div n \in Nat /\ n * (a \div n) <= a /\ a < n * (a \div n) + n
  OBVIOUS

\* The quotient is the largest number that fits.
LEMMA DivLargest ==
  ASSUME NEW a \in Nat, NEW n \in Nat \ {0}, NEW q \in Nat, n * q <= a
  PROVE  q <= a \div n
<1>1. ASSUME a \div n < q
      PROVE  FALSE
  <2>1. n * (a \div n + 1) <= n * q
    BY <1>1, DivBounds
  <2>2. n * (a \div n + 1) = n * (a \div n) + n
    BY DivBounds
  <2>3. QED
    BY <2>1, <2>2, DivBounds
<1>2. QED
  BY <1>1, DivBounds

\* Later times have later buckets.
LEMMA DivMonotone ==
  ASSUME NEW a \in Nat, NEW b \in Nat, a <= b, NEW n \in Nat \ {0}
  PROVE  a \div n <= b \div n
  BY DivBounds, DivLargest

\* Truncating to hours and then to days is truncating to days.
LEMMA DivTwice ==
  ASSUME NEW a \in Nat, NEW m \in Nat \ {0}, NEW n \in Nat \ {0}
  PROVE  (a \div m) \div n = a \div (m * n)
  OBVIOUS

LEMMA Periods ==
  /\ RawTicks \in Nat /\ HourlyTicks \in Nat /\ DailyTicks \in Nat
  /\ DayTicks \in Nat \ {0}
<1>1. DayTicks \in Nat \ {0}
  BY RetentionAssumption DEF DayTicks
<1>2. QED
  BY <1>1, RetentionAssumption DEF RawTicks, HourlyTicks, DailyTicks

\* A time lies in its hour, and its hour in its day.
LEMMA TimeFacts ==
  ASSUME NEW r \in Time
  PROVE  /\ Hour(r) \in Hours /\ Day(r) \in Days
         /\ HourStart(Hour(r)) <= r /\ r < HourStart(Hour(r)) + TicksPerHour
         /\ HourStart(Hour(r)) \in Nat
         /\ DayOfHour(Hour(r)) = Day(r)
<1>1. r \in Nat /\ MaxTime \in Nat /\ r <= MaxTime
  BY RetentionAssumption DEF Time
<1>2. Hour(r) \in Nat /\ Hour(MaxTime) \in Nat /\ Hour(r) <= Hour(MaxTime)
  BY <1>1, RetentionAssumption, DivBounds, DivMonotone DEF Hour
<1>3. Day(r) \in Nat /\ Day(MaxTime) \in Nat /\ Day(r) <= Day(MaxTime)
  BY <1>1, Periods, DivBounds, DivMonotone DEF Day
<1>4. /\ HourStart(Hour(r)) <= r /\ r < HourStart(Hour(r)) + TicksPerHour
      /\ HourStart(Hour(r)) \in Nat
  BY <1>1, RetentionAssumption, DivBounds DEF Hour, HourStart
<1>5. DayOfHour(Hour(r)) = Day(r)
  BY <1>1, RetentionAssumption, DivTwice DEF Hour, DayOfHour, Day, DayTicks
<1>6. QED
  BY <1>2, <1>3, <1>4, <1>5 DEF Hours, Days

\* An earlier day means an earlier hour.
LEMMA EarlierHour ==
  ASSUME NEW r \in Time, NEW s \in Time, Day(r) < Day(s)
  PROVE  Hour(r) < Hour(s)
<1>1. Hour(r) \in Nat /\ Hour(s) \in Nat
  BY TimeFacts, RetentionAssumption, DivBounds DEF Hours, Hour, Time
<1>2. ASSUME Hour(s) <= Hour(r)
      PROVE  FALSE
  <2>1. DayOfHour(Hour(s)) <= DayOfHour(Hour(r))
    BY <1>1, <1>2, RetentionAssumption, DivMonotone DEF DayOfHour
  <2>2. Day(s) <= Day(r)
    BY <2>1, TimeFacts
  <2>3. Day(s) \in Int /\ Day(r) \in Int
    BY TimeFacts DEF Days
  <2>4. QED
    BY <2>2, <2>3
<1>3. QED
  BY <1>1, <1>2

\* Days are ordered like times.
LEMMA DayMonotone ==
  ASSUME NEW r \in Time, NEW s \in Time, r <= s
  PROVE  Day(r) <= Day(s)
  BY Periods, DivMonotone DEF Day, Time

\* A time in an earlier or the same hour is less than an hour later.
LEMMA HourApart ==
  ASSUME NEW r \in Time, NEW s \in Time, Hour(s) <= Hour(r)
  PROVE  s <= r + TicksPerHour
<1>1. Hour(s) \in Nat /\ Hour(r) \in Nat
  BY RetentionAssumption, DivBounds DEF Hour, Time
<1>2. HourStart(Hour(s)) <= HourStart(Hour(r))
  BY <1>1, RetentionAssumption DEF HourStart
<1>3. QED
  BY <1>2, TimeFacts, RetentionAssumption DEF Time

\* A day begins no later than its hours.
LEMMA DayBegins ==
  ASSUME NEW h \in Hours
  PROVE  /\ HourStart(h) \in Nat /\ DayStart(DayOfHour(h)) \in Nat
         /\ DayStart(DayOfHour(h)) <= HourStart(h)
<1>1. h \in Nat
  BY DEF Hours
<1>2. DayOfHour(h) \in Nat /\ HoursPerDay * DayOfHour(h) <= h
  BY <1>1, RetentionAssumption, DivBounds DEF DayOfHour
<1>3. TicksPerHour * (HoursPerDay * DayOfHour(h)) <= TicksPerHour * h
  BY <1>1, <1>2, RetentionAssumption
<1>4. DayStart(DayOfHour(h)) = TicksPerHour * (HoursPerDay * DayOfHour(h))
  BY <1>2, RetentionAssumption DEF DayStart, DayTicks
<1>5. QED
  BY <1>1, <1>2, <1>3, <1>4, RetentionAssumption DEF HourStart

-----------------------------------------------------------------------------
\* The invariant, in parts.

\* Nothing is stamped later than now, and the open insert began in this tick or the
\* one before.
Clocks ==
  /\ \A r \in open : r <= now /\ now <= r + 1
  /\ lastHourly <= now
  /\ started <= now

\* A raw row that no hourly row has counted is no more than an hour older than the
\* last hourly aggregation.
UncountedIsRecent == \A r \in raw \ aggregated : lastHourly <= r + TicksPerHour

\* An hourly row was computed from samples of its hour, and as long as its hour
\* begins within the raw retention they are all still there.
HourlyFromRaw ==
  \A h \in Hours : \A r \in hourly[h] :
    Hour(r) = h /\ (HourStart(h) >= now - RawTicks => r \in raw)

\* The raw table loses its oldest rows only, of whichever pod: a sample of an hourly row
\* that is no longer in it is older than all that are or will be.
DeletedAreOldest ==
  \A h \in Hours : \A s \in hourly[h] :
    s \in raw \/ (s < now /\ \A r \in times \cup open : s < r)

\* The pod's rows are rows of the table.
RawInTable == raw \subseteq times

\* A daily row, as long as its day begins within the retention of the tiers above,
\* holds only what the hourly rows of its day hold.
DailyFromHourly ==
  \A d \in Days : DayStart(d) >= now - RawTicks /\ DayStart(d) >= now - HourlyTicks =>
    \A r \in daily[d] : \E h \in Hours : DayOfHour(h) = d /\ r \in hourly[h]

\* The way of a closed day's samples through a run.
RunProgress ==
  /\ pc = "hourly" => found \subseteq raw
  /\ pc = "daily" /\ bothOk =>
       \A r \in found : Day(r) < Day(started) => r \in hourly[Hour(r)]
  /\ RunCoversClosedDays

Inv == TypeOK /\ Clocks /\ UncountedIsRecent /\ HourlyFromRaw /\ DeletedAreOldest
         /\ RawInTable /\ DailyFromHourly /\ RunProgress

\* The upserts and the deletes keep the shape of their tables.
LEMMA TablesTyped ==
  ASSUME TypeOK
  PROVE  /\ HourlyUpserted \in [Hours -> SUBSET Time]
         /\ DailyUpserted \in [Days -> SUBSET Time]
         /\ HourlyKept \in [Hours -> SUBSET Time]
         /\ DailyKept \in [Days -> SUBSET Time]
<1> USE DEF TypeOK
<1>1. HourlyUpserted \in [Hours -> SUBSET Time]
  BY DEF HourlyUpserted, Upsert
<1>2. ASSUME NEW d \in Days
      PROVE  UNION {hourly[h] : h \in {g \in Hours : DayOfHour(g) = d}} \in SUBSET Time
  OBVIOUS
<1>3. DailyUpserted \in [Days -> SUBSET Time]
  BY <1>2 DEF DailyUpserted, Upsert
<1>4. HourlyKept \in [Hours -> SUBSET Time] /\ DailyKept \in [Days -> SUBSET Time]
  BY DEF HourlyKept, DailyKept
<1>5. QED
  BY <1>1, <1>3, <1>4

LEMMA InitInv == Init => Inv
<1> SUFFICES ASSUME Init
             PROVE  Inv
  OBVIOUS
<1>1. 0 \in Time /\ NoTicker \in Int
  BY RetentionAssumption DEF Time, NoTicker
<1>2. TypeOK
  BY <1>1 DEF Init, TypeOK
<1>3. Clocks /\ UncountedIsRecent /\ HourlyFromRaw /\ DeletedAreOldest /\ RawInTable
      /\ DailyFromHourly
  BY DEF Init, Clocks, UncountedIsRecent, HourlyFromRaw, DeletedAreOldest, RawInTable,
         DailyFromHourly
<1>4. RunProgress
  BY DEF Init, RunProgress, RunCoversClosedDays
<1>5. QED
  BY <1>2, <1>3, <1>4 DEF Inv

\* TypeOK is inductive on its own.
LEMMA TypeOKStep == TypeOK /\ [Next]_vars => TypeOK'
<1> SUFFICES ASSUME TypeOK, [Next]_vars
             PROVE  TypeOK'
  OBVIOUS
<1> USE DEF TypeOK, rows, tables, history
<1>1. CASE BeginInsert \/ CommitInsert \/ RollbackInsert
  BY <1>1 DEF BeginInsert, CommitInsert, RollbackInsert
<1>2. CASE TickerRun
  BY <1>2, RetentionAssumption DEF TickerRun, StartRun
<1>3. CASE AggregateHourly
  <2>1. aggregated' \subseteq Time /\ lastHourly' \in Time /\ bothOk' \in BOOLEAN
    BY <1>3, TablesTyped DEF AggregateHourly
  <2>2. hourly' \in [Hours -> SUBSET Time]
    BY <1>3, TablesTyped DEF AggregateHourly
  <2>3. QED
    BY <1>3, <2>1, <2>2 DEF AggregateHourly
<1>4. CASE AggregateDaily
  <2>1. daily' \in [Days -> SUBSET Time] /\ bothOk' \in BOOLEAN
    BY <1>4, TablesTyped DEF AggregateDaily
  <2>2. QED
    BY <1>4, <2>1 DEF AggregateDaily
<1>5. CASE CleanRaw
  BY <1>5 DEF CleanRaw, Kept, NextDelete
<1>6. CASE CleanHourly
  BY <1>6, TablesTyped DEF CleanHourly, NextDelete
<1>7. ASSUME EndRun
      PROVE  /\ pc' = "idle" /\ due' \in Int /\ found' = {} /\ bothOk' \in BOOLEAN
             /\ UNCHANGED <<started, aggregated, lastHourly>>
  <2>1. now \in Int /\ now + TicksPerHour \in Int
    BY RetentionAssumption DEF Time
  <2>2. due' \in Int
    BY <1>7, <2>1 DEF EndRun
  <2>3. QED
    BY <1>7, <2>2 DEF EndRun
<1>8. CASE CleanDaily
  BY <1>7, <1>8, TablesTyped DEF CleanDaily
<1>9. CASE CleanupFails
  <2>1. EndRun /\ UNCHANGED <<now, rows, hourly, daily, open>>
    BY <1>9 DEF CleanupFails
  <2>2. QED
    BY <1>7, <2>1
<1>10. CASE Crash
  <2>1. bothOk' \in BOOLEAN
    BY <1>10 DEF Crash
  <2>2. due' \in Int
    BY <1>10 DEF Crash, NoTicker
  <2>3. QED
    BY <1>10, <2>1, <2>2 DEF Crash
<1>11. CASE Start
  BY <1>11 DEF Start, StartRun
<1>12. CASE Tick
  BY <1>12, RetentionAssumption DEF Tick, Time
<1>13. CASE UNCHANGED vars
  BY <1>13 DEF vars
<1>14. QED
  BY <1>1, <1>2, <1>3, <1>4, <1>5, <1>6, <1>8, <1>9, <1>10, <1>11, <1>12, <1>13 DEF Next

-----------------------------------------------------------------------------
\* The four other parts, each given the ones it rests on.

LEMMA ClocksStep == TypeOK /\ Clocks /\ [Next]_vars => Clocks'
<1> SUFFICES ASSUME TypeOK, Clocks, [Next]_vars
             PROVE  Clocks'
  OBVIOUS
<1> USE DEF Clocks, rows, tables, history
<1>1. now \in Int /\ open \subseteq Int /\ started \in Int /\ lastHourly \in Int
  BY DEF TypeOK, Time
<1>2. CASE BeginInsert \/ CommitInsert \/ RollbackInsert
  <2>1. open' \subseteq open \cup {now} /\ UNCHANGED <<now, started, lastHourly>>
    BY <1>2 DEF BeginInsert, CommitInsert, RollbackInsert
  <2>2. QED
    BY <1>1, <2>1
<1>3. CASE TickerRun \/ Start
  <2>1. started' = now /\ UNCHANGED <<now, open, lastHourly>>
    BY <1>3 DEF TickerRun, Start, StartRun
  <2>2. QED
    BY <1>1, <2>1
<1>4. CASE AggregateHourly \/ AggregateDaily
  <2>1. lastHourly' \in {lastHourly, now} /\ UNCHANGED <<now, open, started>>
    BY <1>4 DEF AggregateHourly, AggregateDaily
  <2>2. QED
    BY <1>1, <2>1
<1>5. CASE CleanRaw \/ CleanHourly
  BY <1>5 DEF CleanRaw, CleanHourly, NextDelete
<1>6. CASE CleanDaily \/ CleanupFails
  BY <1>6 DEF CleanDaily, CleanupFails, EndRun
<1>7. CASE Crash
  BY <1>7 DEF Crash
<1>8. CASE Tick
  BY <1>1, <1>8 DEF Tick
<1>9. CASE UNCHANGED vars
  BY <1>9 DEF vars
<1>10. QED
  BY <1>2, <1>3, <1>4, <1>5, <1>6, <1>7, <1>8, <1>9 DEF Next

\* After an hourly aggregation the only rows not counted are of the current hour.
LEMMA UncountedStep ==
  TypeOK /\ Clocks /\ UncountedIsRecent /\ [Next]_vars => UncountedIsRecent'
<1> SUFFICES ASSUME TypeOK, Clocks, UncountedIsRecent, [Next]_vars
             PROVE  UncountedIsRecent'
  OBVIOUS
<1> USE DEF UncountedIsRecent, rows, tables, history
<1>1. CASE CommitInsert
  <2>1. ASSUME NEW r \in open
        PROVE  lastHourly <= r + TicksPerHour
    BY <2>1, RetentionAssumption DEF Clocks, TypeOK, Time
  <2>2. QED
    BY <1>1, <2>1 DEF CommitInsert
<1>2. CASE AggregateHourly
  <2>1. CASE /\ aggregated' = aggregated \cup UNION {HourlyUpserted[h] : h \in Hours}
             /\ lastHourly' = now
    <3>1. SUFFICES ASSUME NEW r \in raw, r \notin aggregated'
                   PROVE  now <= r + TicksPerHour
      BY <1>2, <2>1 DEF AggregateHourly
    <3>2. r \in Time /\ now \in Time /\ Hour(r) \in Hours
      BY TimeFacts DEF TypeOK
    <3>3. r \notin HourlyUpserted[Hour(r)]
      BY <2>1, <3>1, <3>2
    <3>4. ~(Hour(r) < Hour(now))
      BY <3>1, <3>2, <3>3 DEF HourlyUpserted, Upsert
    <3>5. Hour(r) \in Int /\ Hour(now) \in Int
      BY <3>2, TimeFacts DEF Hours
    <3>6. QED
      BY <3>2, <3>4, <3>5, HourApart
  <2>2. CASE UNCHANGED <<hourly, aggregated, lastHourly>>
    BY <1>2, <2>2 DEF AggregateHourly
  <2>3. QED
    BY <1>2, <2>1, <2>2 DEF AggregateHourly
<1>3. CASE CleanRaw
  BY <1>3 DEF CleanRaw, Kept, NextDelete
<1>4. CASE UNCHANGED <<raw, aggregated, lastHourly>>
  BY <1>4
<1>5. QED
  BY <1>1, <1>2, <1>3, <1>4
     DEF Next, BeginInsert, RollbackInsert, TickerRun, StartRun, AggregateDaily,
         CleanHourly, CleanDaily, CleanupFails, NextDelete, EndRun, Crash, Start, Tick, vars

\* The raw cleanup takes nothing from an hour that begins within its retention.
LEMMA HourlyStep == TypeOK /\ HourlyFromRaw /\ [Next]_vars => HourlyFromRaw'
<1> SUFFICES ASSUME TypeOK, HourlyFromRaw, [Next]_vars,
                    NEW h \in Hours, NEW r \in hourly'[h]
             PROVE  Hour(r) = h /\ (HourStart(h) >= now' - RawTicks => r \in raw')
  BY DEF HourlyFromRaw
<1> USE DEF rows, tables, history
<1>1. HourStart(h) \in Int /\ now \in Int /\ RawTicks \in Int
  BY DayBegins, Periods DEF TypeOK, Time
<1>2. CASE CommitInsert
  BY <1>2 DEF CommitInsert, HourlyFromRaw
<1>3. CASE AggregateHourly
  <2>1. now' = now /\ raw' = raw
    BY <1>3 DEF AggregateHourly
  <2>2. r \in hourly[h] \/ (r \in raw /\ Hour(r) = h)
    BY <1>3 DEF AggregateHourly, HourlyUpserted, Upsert
  <2>3. QED
    BY <2>1, <2>2 DEF HourlyFromRaw
<1>4. CASE CleanRaw
  <2>1. now' = now /\ r \in hourly[h] /\ raw' = Kept(raw)
    BY <1>4 DEF CleanRaw
  <2>2. Hour(r) = h /\ r \in Time
    BY <2>1 DEF HourlyFromRaw, TypeOK
  <2>3. HourStart(h) <= r /\ r \in Int
    BY <2>2, TimeFacts DEF Time
  <2>4. QED
    BY <1>1, <2>1, <2>2, <2>3 DEF HourlyFromRaw, Kept
<1>5. CASE CleanHourly
  <2>1. r \in hourly[h] /\ now' = now /\ raw' = raw
    BY <1>5 DEF CleanHourly, HourlyKept
  <2>2. QED
    BY <2>1 DEF HourlyFromRaw
<1>6. CASE Tick
  <2>1. now' = now + 1 /\ hourly' = hourly /\ raw' = raw
    BY <1>6 DEF Tick
  <2>2. QED
    BY <1>1, <2>1 DEF HourlyFromRaw
<1>7. CASE UNCHANGED <<now, raw, hourly>>
  BY <1>7 DEF HourlyFromRaw
<1>8. QED
  BY <1>2, <1>3, <1>4, <1>5, <1>6, <1>7
     DEF Next, BeginInsert, RollbackInsert, TickerRun, StartRun, AggregateDaily,
         CleanDaily, CleanupFails, EndRun, Crash, Start, vars

\* A cleanup takes a prefix of the raw rows, and what is inserted later, or was open
\* then, is younger than a tick.
LEMMA OldestStep ==
  TypeOK /\ Clocks /\ DeletedAreOldest /\ [Next]_vars => DeletedAreOldest'
<1> SUFFICES ASSUME TypeOK, Clocks, DeletedAreOldest, [Next]_vars,
                    NEW h \in Hours, NEW s \in hourly'[h], s \notin raw'
             PROVE  s < now' /\ \A r \in times' \cup open' : s < r
  BY DEF DeletedAreOldest
<1> USE DEF rows, tables, history
<1>1. /\ now \in Nat /\ raw \subseteq Nat /\ times \subseteq Nat /\ open \subseteq Nat
      /\ RawTicks \in Nat \ {0}
  BY RetentionAssumption, Periods DEF TypeOK, Time, RawTicks
<1>2. ASSUME s \in hourly[h], s \notin raw
      PROVE  s < now /\ \A r \in times \cup open : s < r
  BY <1>2 DEF DeletedAreOldest
<1>3. CASE BeginInsert \/ CommitInsert \/ RollbackInsert
  <2>1. /\ hourly' = hourly /\ now' = now /\ raw \subseteq raw'
        /\ times' \cup open' \subseteq times \cup open \cup {now}
    BY <1>3 DEF BeginInsert, CommitInsert, RollbackInsert
  <2>2. QED
    BY <1>2, <2>1
<1>4. CASE AggregateHourly
  <2>1. now' = now /\ rows' = rows /\ open' = open
    BY <1>4 DEF AggregateHourly
  <2>2. s \in hourly[h] \/ s \in raw
    BY <1>4 DEF AggregateHourly, HourlyUpserted, Upsert
  <2>3. QED
    BY <1>2, <2>1, <2>2
<1>5. CASE CleanRaw
  <2>1. now' = now /\ s \in hourly[h] /\ open' = open
        /\ raw' = Kept(raw) /\ times' = Kept(times)
    BY <1>5 DEF CleanRaw
  <2>2. Kept(raw) \subseteq raw /\ Kept(times) \subseteq times
    BY DEF Kept
  <2>3. CASE s \in raw
    <3>1. s \notin Kept(raw) /\ s \in Nat /\ now - RawTicks \in Int
      BY <1>1, <2>1, <2>3
    <3>2. s < now - RawTicks
      BY <2>3, <3>1 DEF Kept
    <3>3. ASSUME NEW r \in Kept(times)
          PROVE  s < r
      BY <1>1, <2>2, <2>3, <3>2 DEF Kept
    <3>4. ASSUME NEW r \in open
          PROVE  s < r
      BY <1>1, <2>3, <3>2 DEF Clocks
    <3>5. s < now
      BY <1>1, <3>2, <3>1
    <3>6. QED
      BY <2>1, <3>3, <3>4, <3>5
  <2>4. CASE s \notin raw
    BY <1>2, <2>1, <2>2, <2>4
  <2>5. QED
    BY <2>3, <2>4
<1>6. CASE CleanHourly
  <2>1. s \in hourly[h] /\ now' = now /\ rows' = rows /\ open' = open
    BY <1>6 DEF CleanHourly, HourlyKept
  <2>2. QED
    BY <1>2, <2>1
<1>7. CASE Tick
  <2>1. now' = now + 1 /\ s \in hourly[h] /\ rows' = rows /\ open' = open
    BY <1>7 DEF Tick
  <2>2. s \in Int
    BY <2>1 DEF TypeOK, Time
  <2>3. QED
    BY <1>1, <1>2, <2>1, <2>2
<1>8. CASE Crash
  <2>1. s \in hourly[h] /\ now' = now /\ rows' = rows /\ open' = {}
    BY <1>8 DEF Crash
  <2>2. QED
    BY <1>2, <2>1
<1>9. CASE UNCHANGED <<now, rows, hourly, open>>
  BY <1>2, <1>9
<1>10. QED
  BY <1>3, <1>4, <1>5, <1>6, <1>7, <1>8, <1>9
     DEF Next, TickerRun, StartRun, AggregateDaily, CleanDaily, CleanupFails, EndRun,
         Start, vars

\* Rows come and go in both views of the raw table alike.
LEMMA InTableStep == RawInTable /\ [Next]_vars => RawInTable'
<1> SUFFICES ASSUME RawInTable, [Next]_vars
             PROVE  RawInTable'
  OBVIOUS
<1> USE DEF RawInTable, rows, tables
<1>1. CASE CommitInsert
  BY <1>1 DEF CommitInsert
<1>2. CASE CleanRaw
  BY <1>2 DEF CleanRaw, Kept
<1>3. CASE UNCHANGED rows
  BY <1>3
<1>4. QED
  BY <1>1, <1>2, <1>3
     DEF Next, BeginInsert, RollbackInsert, TickerRun, StartRun, AggregateHourly,
         AggregateDaily, CleanHourly, CleanDaily, CleanupFails, Crash, Start, Tick, vars

\* An hourly row only grows while its hour begins within the retention of its tier
\* and of the raw one.
LEMMA HoursGrow ==
  ASSUME TypeOK, HourlyFromRaw, [Next]_vars, NEW h \in Hours,
         HourStart(h) >= now - RawTicks, HourStart(h) >= now - HourlyTicks
  PROVE  hourly[h] \subseteq hourly'[h]
<1> USE DEF rows, tables, history
<1>1. HourStart(h) \in Int /\ now \in Int /\ HourlyTicks \in Int
  BY DayBegins, Periods DEF TypeOK, Time
<1>2. CASE AggregateHourly
  <2>1. hourly[h] \subseteq {r \in raw : Hour(r) = h}
    BY DEF HourlyFromRaw
  <2>2. QED
    BY <1>2, <2>1 DEF AggregateHourly, HourlyUpserted, Upsert
<1>3. CASE CleanHourly
  BY <1>1, <1>3 DEF CleanHourly, HourlyKept
<1>4. CASE UNCHANGED hourly
  BY <1>4
<1>5. QED
  BY <1>2, <1>3, <1>4
     DEF Next, BeginInsert, CommitInsert, RollbackInsert, TickerRun, StartRun,
         AggregateDaily, CleanRaw, CleanDaily, CleanupFails, Crash, Start, Tick, vars

\* As hours of a young day only grow, its row never holds more than they do.
LEMMA DailyStep ==
  TypeOK /\ HourlyFromRaw /\ DailyFromHourly /\ [Next]_vars => DailyFromHourly'
<1> SUFFICES ASSUME TypeOK, HourlyFromRaw, DailyFromHourly, [Next]_vars,
                    NEW d \in Days,
                    DayStart(d) >= now' - RawTicks, DayStart(d) >= now' - HourlyTicks,
                    NEW r \in daily'[d]
             PROVE  \E h \in Hours : DayOfHour(h) = d /\ r \in hourly'[h]
  BY DEF DailyFromHourly
<1>1. now' = now \/ now' = now + 1
  BY DEF Next, BeginInsert, CommitInsert, RollbackInsert, TickerRun, AggregateHourly,
         AggregateDaily, CleanRaw, CleanHourly, CleanDaily, CleanupFails, Crash, Start,
         Tick, vars
<1>2. DayStart(d) >= now - RawTicks /\ DayStart(d) >= now - HourlyTicks
  <2>1. DayStart(d) \in Int /\ now \in Int /\ RawTicks \in Int /\ HourlyTicks \in Int
    BY Periods DEF TypeOK, Time, DayStart, Days
  <2>2. QED
    BY <1>1, <2>1
<1>3. r \in daily[d] \/ \E h \in Hours : DayOfHour(h) = d /\ r \in hourly[h]
  <2>1. CASE AggregateDaily
    BY <2>1 DEF AggregateDaily, DailyUpserted, Upsert
  <2>2. CASE CleanDaily
    BY <2>2 DEF CleanDaily, DailyKept
  <2>3. CASE UNCHANGED daily
    BY <2>3
  <2>4. QED
    BY <2>1, <2>2, <2>3
       DEF Next, BeginInsert, CommitInsert, RollbackInsert, TickerRun, AggregateHourly,
           CleanRaw, CleanHourly, CleanupFails, Crash, Start, Tick, vars, rows, tables
<1>4. PICK h \in Hours : DayOfHour(h) = d /\ r \in hourly[h]
  BY <1>2, <1>3 DEF DailyFromHourly
<1>5. HourStart(h) >= now - RawTicks /\ HourStart(h) >= now - HourlyTicks
  BY <1>2, <1>4, DayBegins, Periods DEF TypeOK, Time
<1>6. QED
  BY <1>4, <1>5, HoursGrow

\* What the run found goes down with it.
LEMMA ProgressStep ==
  TypeOK /\ Clocks /\ RunProgress /\ [Next]_vars => RunProgress'
<1> SUFFICES ASSUME TypeOK, Clocks, RunProgress, [Next]_vars
             PROVE  RunProgress'
  OBVIOUS
<1> USE DEF RunProgress, RunCoversClosedDays, rows, tables, history
<1>1. CASE BeginInsert \/ CommitInsert \/ RollbackInsert
  BY <1>1 DEF BeginInsert, CommitInsert, RollbackInsert
<1>2. CASE TickerRun \/ Start
  BY <1>2 DEF TickerRun, Start, StartRun
<1>3. CASE AggregateHourly
  <2>1. SUFFICES ASSUME bothOk', NEW r \in found, Day(r) < Day(started)
                 PROVE  r \in hourly'[Hour(r)]
    BY <1>3 DEF AggregateHourly
  <2>2. hourly' = HourlyUpserted /\ found \subseteq raw
    BY <1>3, <2>1 DEF AggregateHourly
  <2>3. r \in Time /\ started \in Time /\ now \in Time /\ started <= now
    BY DEF TypeOK, Clocks
  <2>4. Day(r) < Day(now)
    <3>1. Day(started) <= Day(now)
      BY <2>3, DayMonotone
    <3>2. Day(r) \in Int /\ Day(started) \in Int /\ Day(now) \in Int
      BY <2>3, TimeFacts DEF Days
    <3>3. QED
      BY <2>1, <3>1, <3>2
  <2>5. Hour(r) < Hour(now) /\ Hour(r) \in Hours
    BY <2>3, <2>4, EarlierHour, TimeFacts
  <2>6. r \in {s \in raw : Hour(s) = Hour(r)}
    BY <2>2
  <2>7. QED
    BY <2>2, <2>5, <2>6 DEF HourlyUpserted, Upsert
<1>4. CASE AggregateDaily
  <2>1. SUFFICES ASSUME bothOk', NEW r \in found, Day(r) < Day(started)
                 PROVE  r \in daily'[Day(r)]
    BY <1>4 DEF AggregateDaily
  <2>2. daily' = DailyUpserted /\ bothOk
    BY <1>4, <2>1 DEF AggregateDaily
  <2>3. r \in hourly[Hour(r)]
    BY <1>4, <2>1, <2>2 DEF AggregateDaily
  <2>4. r \in Time /\ started \in Time /\ now \in Time /\ started <= now
    BY DEF TypeOK, Clocks
  <2>5. Day(r) < Day(now)
    <3>1. Day(started) <= Day(now)
      BY <2>4, DayMonotone
    <3>2. Day(r) \in Int /\ Day(started) \in Int /\ Day(now) \in Int
      BY <2>4, TimeFacts DEF Days
    <3>3. QED
      BY <2>1, <3>1, <3>2
  <2>6. Hour(r) \in Hours /\ Day(r) \in Days /\ DayOfHour(Hour(r)) = Day(r)
    BY <2>4, TimeFacts
  <2>7. r \in UNION {hourly[h] : h \in {g \in Hours : DayOfHour(g) = Day(r)}}
    BY <2>3, <2>6
  <2>8. QED
    BY <2>2, <2>5, <2>6, <2>7 DEF DailyUpserted, Upsert
<1>5. CASE CleanRaw \/ CleanHourly
  BY <1>5 DEF CleanRaw, CleanHourly, NextDelete
<1>6. CASE CleanDaily \/ CleanupFails
  BY <1>6 DEF CleanDaily, CleanupFails, EndRun
<1>7. CASE Crash
  BY <1>7 DEF Crash
<1>8. CASE Tick
  BY <1>8 DEF Tick
<1>9. CASE UNCHANGED vars
  BY <1>9 DEF vars
<1>10. QED
  BY <1>1, <1>2, <1>3, <1>4, <1>5, <1>6, <1>7, <1>8, <1>9 DEF Next

\* The invariant holds in every reachable state.
THEOREM Invariance == Spec => []Inv
<1>1. Inv /\ [Next]_vars => Inv'
  BY TypeOKStep, ClocksStep, UncountedStep, HourlyStep, OldestStep, InTableStep,
     DailyStep, ProgressStep DEF Inv
<1>2. QED
  BY <1>1, InitInv, PTL DEF Spec

\* The tables, the worker and the histories have their types: every hourly and daily
\* bucket is a set of samples, whatever was upserted into it.
THEOREM TypeCorrect == Spec => []TypeOK
<1>1. Inv => TypeOK
  BY DEF Inv
<1>2. QED
  BY <1>1, Invariance, PTL

\* A run whose two aggregations succeed has every sample it found of a closed day in
\* that day's row before it starts to delete (RunRetentionJobs).
THEOREM RunsCoverClosedDays == Spec => []RunCoversClosedDays
<1>1. Inv => RunCoversClosedDays
  BY DEF Inv, RunProgress
<1>2. QED
  BY <1>1, Invariance, PTL

\* Points are times, and in order.
LEMMA PointsOrdered == TypeOK => Points \subseteq Int
<1> SUFFICES ASSUME TypeOK PROVE Points \subseteq Int
  OBVIOUS
<1>1. HistoryRaw \subseteq Int
  <2>1. HistoryRaw \subseteq raw /\ raw \subseteq Time
    BY DEF HistoryRaw, TypeOK
  <2>2. QED
    BY <2>1 DEF Time
<1>2. \A h \in HistoryHours : HourStart(h) \in Int
  BY RetentionAssumption DEF HistoryHours, HourStart, Hours
<1>3. QED
  BY <1>1, <1>2 DEF Points

\* A point that is not sent comes after all that are, and then some are.
LEMMA LastIsDropped ==
  ASSUME Points \subseteq Int, NEW p \in Points, p \notin SentPoints
  PROVE  SentPoints # {} /\ \A q \in SentPoints : q < p
<1>1. Points # {p} /\ \A q \in Points : ~(p < q)
  BY DEF SentPoints
<1>2. ASSUME NEW q \in Points, q # p
      PROVE  q < p /\ q \in SentPoints
  <2>1. q < p
    BY <1>1, <1>2
  <2>2. QED
    BY <2>1 DEF SentPoints
<1>3. SentPoints \subseteq Points
  BY DEF SentPoints
<1>4. QED
  BY <1>1, <1>2, <1>3

\* The 24 h history that is sent has no hole: while there is a raw row, a sample of the day
\* that the hourly table still knows is missing only at its end; and samples are counted
\* from both tiers only in the hour of the oldest raw row (handleHistory).
THEOREM HistoryHasNoHole == Spec => []HistoryOfADay
<1>1. ASSUME Inv
      PROVE  HistoryOfADay
  <2> USE <1>1 DEF Inv
  <2>1. now \in Int /\ DayAgo \in Int /\ times \subseteq Time /\ times \subseteq Int
    BY Periods DEF TypeOK, Time, DayAgo
  <2>2. ASSUME NEW h \in Hours, NEW s \in hourly[h]
        PROVE  s \in Time /\ s \in Int /\ Hour(s) = h /\ HourStart(h) \in Int /\ HourStart(h) <= s
    <3>1. s \in Time /\ Hour(s) = h
      BY DEF TypeOK, HourlyFromRaw
    <3>2. HourStart(h) \in Nat /\ HourStart(h) <= s
      BY <3>1, TimeFacts
    <3>3. s \in Int /\ HourStart(h) \in Int
      BY <3>1, <3>2 DEF Time
    <3>4. QED
      BY <3>1, <3>2, <3>3
  <2>3. ASSUME times # {}, NEW h \in Hours, HourStart(h) > DayAgo, NEW s \in hourly[h]
        PROVE  \E p \in Points : Tells(p, h, s) /\ p <= s
    <3>1. CASE h \in HistoryHours
      <4>1. HourStart(h) \in Points /\ HourStart(h) <= s
        BY <2>2, <3>1 DEF Points
      <4>2. QED
        BY <3>1, <4>1 DEF Tells
    <3>2. CASE h \notin HistoryHours
      <4>1. PICK r \in times : ~(HourStart(h) < r)
        BY <2>3, <3>2 DEF HistoryHours
      <4>2. ~(s < r) /\ s > DayAgo
        BY <2>1, <2>2, <2>3, <4>1
      <4>3. s \in HistoryRaw
        BY <4>2 DEF DeletedAreOldest, HistoryRaw
      <4>4. s <= s
        BY <2>2
      <4>5. QED
        BY <4>3, <4>4 DEF Points, Tells
    <3>3. QED
      BY <3>1, <3>2
  <2>4. ASSUME times # {}, NEW h \in Hours, HourStart(h) > DayAgo, NEW s \in hourly[h]
        PROVE  \/ \E p \in SentPoints : Tells(p, h, s)
               \/ SentPoints # {} /\ \A q \in SentPoints : q < s
    <3>1. PICK p \in Points : Tells(p, h, s) /\ p <= s
      BY <2>3, <2>4
    <3>2. CASE p \in SentPoints
      BY <3>1, <3>2
    <3>3. CASE p \notin SentPoints
      <4>1. Points \subseteq Int /\ SentPoints \subseteq Points /\ s \in Int
        BY <2>2, PointsOrdered DEF SentPoints
      <4>2. SentPoints # {} /\ \A q \in SentPoints : q < p
        BY <3>3, <4>1, LastIsDropped
      <4>3. QED
        BY <3>1, <4>1, <4>2
    <3>4. QED
      BY <3>2, <3>3
  <2>5. ASSUME NEW h \in HistoryHours, hourly[h] \cap HistoryRaw # {}, NEW r \in times
        PROVE  h <= Hour(r)
    <3>1. h \in Hours /\ h \in Nat /\ r \in Nat
      BY <2>1 DEF HistoryHours, Hours, Time
    <3>2. HourStart(h) < r
      BY DEF HistoryHours
    <3>3. TicksPerHour * h <= r /\ TicksPerHour \in Nat \ {0}
      BY <3>1, <3>2, RetentionAssumption DEF HourStart
    <3>4. QED
      BY <3>1, <3>3, DivLargest DEF Hour
  <2>6. QED
    BY <2>4, <2>5 DEF HistoryOfADay
<1>2. QED
  BY <1>1, Invariance, PTL

\* The raw cleanup deletes a sample that no hourly row has counted only after the
\* hourly aggregation has been failing for the raw retention less one hour.
THEOREM LossIsLate == Spec => LossNeedsLongOutage
<1>1. Inv /\ [Next]_vars =>
        [\A r \in raw \ raw' : r \notin aggregated =>
           now - lastHourly > RawTicks - TicksPerHour]_vars
  <2> SUFFICES ASSUME Inv, [Next]_vars, NEW r \in raw \ raw', r \notin aggregated
               PROVE  now - lastHourly > RawTicks - TicksPerHour
    OBVIOUS
  <2>1. CASE CleanRaw
    <3>1. r < now - RawTicks
      <4>1. r \in Int /\ now - RawTicks \in Int
        BY Periods DEF Inv, TypeOK, Time
      <4>2. QED
        BY <2>1, <4>1 DEF CleanRaw, Kept
    <3>2. lastHourly <= r + TicksPerHour
      BY DEF Inv, UncountedIsRecent
    <3>3. r \in Int /\ now \in Int /\ lastHourly \in Int /\ RawTicks \in Int
      BY Periods DEF Inv, TypeOK, Time
    <3>4. QED
      BY <3>1, <3>2, <3>3, RetentionAssumption
  <2>2. CASE raw \subseteq raw'
    BY <2>2
  <2>3. QED
    BY <2>1, <2>2
       DEF Next, BeginInsert, CommitInsert, RollbackInsert, TickerRun, AggregateHourly,
           AggregateDaily, CleanHourly, CleanDaily, CleanupFails, Crash, Start, Tick,
           vars, rows, tables
<1>2. QED
  BY <1>1, Invariance, PTL DEF Spec, LossNeedsLongOutage

\* Recomputing a bucket takes nothing out of it while it begins within the retention
\* of every tier: the damage of a partial recomputation is confined to older buckets.
THEOREM YoungBucketsAreSafe == Spec => YoungBucketsOnlyGrow
<1>1. Inv /\ [Next]_vars =>
        [/\ \A h \in Hours : Young(HourStart(h)) => hourly[h] \subseteq hourly'[h]
         /\ \A d \in Days : Young(DayStart(d)) => daily[d] \subseteq daily'[d]]_vars
  <2> SUFFICES ASSUME Inv, [Next]_vars
               PROVE  /\ \A h \in Hours : Young(HourStart(h)) => hourly[h] \subseteq hourly'[h]
                      /\ \A d \in Days : Young(DayStart(d)) => daily[d] \subseteq daily'[d]
    OBVIOUS
  <2>1. ASSUME NEW h \in Hours, Young(HourStart(h))
        PROVE  hourly[h] \subseteq hourly'[h]
    BY <2>1, HoursGrow DEF Inv, Young
  <2>2. ASSUME NEW d \in Days, Young(DayStart(d))
        PROVE  daily[d] \subseteq daily'[d]
    <3>1. CASE AggregateDaily
      <4>1. daily[d] \subseteq UNION {hourly[h] : h \in {g \in Hours : DayOfHour(g) = d}}
        BY <2>2 DEF Inv, DailyFromHourly, Young
      <4>2. QED
        BY <3>1, <4>1 DEF AggregateDaily, DailyUpserted, Upsert
    <3>2. CASE CleanDaily
      <4>1. DayStart(d) \in Int /\ now - DailyTicks \in Int
        BY Periods DEF Inv, TypeOK, Time, DayStart, Days
      <4>2. ~(DayStart(d) < now - DailyTicks)
        BY <2>2, <4>1 DEF Young
      <4>3. QED
        BY <3>2, <4>2 DEF CleanDaily, DailyKept
    <3>3. CASE UNCHANGED daily
      BY <3>3
    <3>4. QED
      BY <3>1, <3>2, <3>3
         DEF Next, BeginInsert, CommitInsert, RollbackInsert, TickerRun, AggregateHourly,
             CleanRaw, CleanHourly, CleanupFails, Crash, Start, Tick, vars, rows, tables
  <2>3. QED
    BY <2>1, <2>2
<1>2. QED
  BY <1>1, Invariance, PTL DEF Spec, YoungBucketsOnlyGrow

=============================================================================
