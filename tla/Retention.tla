------------------------------ MODULE Retention ------------------------------
(***************************************************************************)
(* The three metric tiers in PostgreSQL and the worker that moves samples  *)
(* down them (agent/pkg/store/store.go 123-281), beside the collector that *)
(* inserts (agent/main.go 336-402).                                        *)
(*                                                                         *)
(* Tables are keyed by pod and no statement of the worker relates two      *)
(* pods, so one pod stands for all; of the others only the times of their  *)
(* raw rows are kept, which the history asks for (MIN(recorded_at)).  A    *)
(* raw row is the time it was recorded at.  An hourly or daily row is the  *)
(* set of samples it was computed from: averages, maxima and counts are    *)
(* functions of that set, and what a row can lose is visible only there.   *)
(* {} is "no row".                                                         *)
(*                                                                         *)
(* The worker's statements are separate steps: the clock, the collector,   *)
(* a failed statement (an error, or a breaker that refuses it) or a crash  *)
(* may come between any two.                                               *)
(***************************************************************************)
EXTENDS Integers, FiniteSets

CONSTANTS
  TicksPerHour, HoursPerDay,
  RawHours, HourlyDays, DailyDays,   \* RETENTION_RAW_HOURS, _HOURLY_DAYS, _DAILY_DAYS
  MaxTime,                           \* bound on the clock
  MaxOthers                          \* bound on the raw times that only other pods have

ASSUME RetentionAssumption ==
  /\ TicksPerHour \in Nat \ {0} /\ HoursPerDay \in Nat \ {0}
  /\ RawHours \in Nat \ {0} /\ HourlyDays \in Nat \ {0} /\ DailyDays \in Nat \ {0}
  /\ MaxTime \in Nat /\ MaxOthers \in Nat

VARIABLES
  now,          \* NOW(), in ticks
  raw,          \* table metrics: the recorded_at of the pod's rows
  times,        \* table metrics: the recorded_at of the rows of all pods
  hourly,       \* table metrics_hourly: bucket -> samples it was computed from
  daily,        \* table metrics_daily: bucket -> samples it was computed from
  open,         \* the collector's open transaction: {} or {its CURRENT_TIMESTAMP}
  pc,           \* the worker's next statement, "idle", or "down" for the process
  due,          \* when the worker's ticker fires next; NoTicker before the first run ends
  started,      \* when the current run began
  found,        \* history: the raw rows the current run began with
  bothOk,       \* history: both aggregations of the current run have succeeded so far
  aggregated,   \* history: samples that some hourly row was computed from
  lastHourly    \* history: when the hourly aggregation last succeeded

rows    == <<raw, times>>
tables  == <<rows, hourly, daily>>
history == <<found, bothOk, aggregated, lastHourly>>
vars == <<now, raw, times, hourly, daily, open, pc, due, started, found, bothOk, aggregated, lastHourly>>

-----------------------------------------------------------------------------
Time == 0..MaxTime
NoTicker == -1

DayTicks == TicksPerHour * HoursPerDay

\* date_trunc, as the number of the bucket.
Hour(t) == t \div TicksPerHour
Day(t) == t \div DayTicks
DayOfHour(h) == h \div HoursPerDay

Hours == 0..Hour(MaxTime)
Days == 0..Day(MaxTime)

HourStart(h) == h * TicksPerHour
DayStart(d) == d * DayTicks

RawTicks == RawHours * TicksPerHour
HourlyTicks == HourlyDays * DayTicks
DailyTicks == DailyDays * DayTicks

Init ==
  /\ now = 0
  /\ raw = {} /\ times = {}
  /\ hourly = [h \in Hours |-> {}]
  /\ daily = [d \in Days |-> {}]
  /\ open = {}
  /\ pc = "down"
  /\ due = NoTicker
  /\ started = 0
  /\ found = {}
  /\ bothOk = FALSE
  /\ aggregated = {}
  /\ lastHourly = 0

-----------------------------------------------------------------------------
\* The collector's transaction.  CURRENT_TIMESTAMP is the time it began.

BeginInsert ==
  /\ pc # "down"
  /\ open = {}
  /\ now \notin times
  /\ open' = {now}
  /\ UNCHANGED <<now, tables, pc, due, started, history>>

\* Pods come and go: the metrics API may not have listed this one.
CommitInsert ==
  /\ pc # "down"
  /\ open # {}
  /\ \/ raw' = raw \cup open
     \/ Cardinality(times \ raw) < MaxOthers /\ UNCHANGED raw
  /\ times' = times \cup open
  /\ open' = {}
  /\ UNCHANGED <<now, hourly, daily, pc, due, started, history>>

RollbackInsert ==
  /\ pc # "down"
  /\ open # {}
  /\ open' = {}
  /\ UNCHANGED <<now, tables, pc, due, started, history>>

-----------------------------------------------------------------------------
\* The statements.

\* What a GROUP BY with ON CONFLICT DO UPDATE leaves in a bucket: the rows found
\* now replace the old content, and a bucket with no row found is not touched.
Upsert(old, new) == IF new = {} THEN old ELSE new

\* Mutant: "older than 1 hour" read as the hour before the last one.
HourlyLagged == [h \in Hours |->
  IF h < Hour(now) - 1 THEN Upsert(hourly[h], {r \in raw : Hour(r) = h}) ELSE hourly[h]]

HourlyUpserted == [h \in Hours |->
  IF h < Hour(now) THEN Upsert(hourly[h], {r \in raw : Hour(r) = h}) ELSE hourly[h]]

\* Mutant: the daily statement groups by the hourly bucket itself.
DailyByHour == [h \in Hours |-> IF DayOfHour(h) < Day(now) THEN hourly[h] ELSE {}]

DailyUpserted == [d \in Days |->
  IF d < Day(now)
  THEN Upsert(daily[d], UNION {hourly[h] : h \in {g \in Hours : DayOfHour(g) = d}})
  ELSE daily[d]]

\* Mutant: the interval is one tick short.
KeptOneShort(recorded) == {r \in recorded : r > now - RawTicks}

Kept(recorded) == {r \in recorded : r >= now - RawTicks}
HourlyKept == [h \in Hours |-> IF HourStart(h) < now - HourlyTicks THEN {} ELSE hourly[h]]
DailyKept == [d \in Days |-> IF DayStart(d) < now - DailyTicks THEN {} ELSE daily[d]]

-----------------------------------------------------------------------------
\* The worker: RunRetentionJobs, statement by statement.  An aggregation that
\* fails is logged and the run goes on; a delete that fails ends the cleanup.

StartRun ==
  /\ started' = now
  /\ found' = raw
  /\ bothOk' = TRUE
  /\ pc' = "hourly"

\* The ticker fires.
TickerRun ==
  /\ pc = "idle"
  /\ now >= due
  /\ due' = due + TicksPerHour
  /\ StartRun
  /\ UNCHANGED <<now, tables, open, aggregated, lastHourly>>

AggregateHourly ==
  /\ pc = "hourly"
  /\ pc' = "daily"
  /\ \/ /\ hourly' = HourlyUpserted
        /\ aggregated' = aggregated \cup UNION {HourlyUpserted[h] : h \in Hours}
        /\ lastHourly' = now
        /\ UNCHANGED bothOk
     \/ /\ bothOk' = FALSE
        /\ UNCHANGED <<hourly, aggregated, lastHourly>>
  /\ UNCHANGED <<now, rows, daily, open, due, started, found>>

AggregateDaily ==
  /\ pc = "daily"
  /\ pc' = "cleanRaw"
  /\ \/ /\ daily' = DailyUpserted
        /\ UNCHANGED bothOk
     \/ /\ bothOk' = FALSE
        /\ UNCHANGED daily
  /\ UNCHANGED <<now, rows, hourly, open, due, started, found, aggregated, lastHourly>>

\* The run is over: the first one creates the ticker.
EndRun ==
  /\ pc' = "idle"
  /\ due' = IF due = NoTicker THEN now + TicksPerHour ELSE due
  /\ found' = {}
  /\ bothOk' = FALSE
  /\ UNCHANGED <<started, aggregated, lastHourly>>

NextDelete(statement) ==
  /\ pc' = statement
  /\ UNCHANGED <<due, started, history>>

CleanRaw ==
  /\ pc = "cleanRaw"
  /\ raw' = Kept(raw) /\ times' = Kept(times)
  /\ NextDelete("cleanHourly")
  /\ UNCHANGED <<now, hourly, daily, open>>

CleanHourly ==
  /\ pc = "cleanHourly"
  /\ hourly' = HourlyKept
  /\ NextDelete("cleanDaily")
  /\ UNCHANGED <<now, rows, daily, open>>

\* With it the delete from cost_history, which nothing reads.
CleanDaily ==
  /\ pc = "cleanDaily"
  /\ daily' = DailyKept
  /\ EndRun
  /\ UNCHANGED <<now, rows, hourly, open>>

CleanupFails ==
  /\ pc \in {"cleanRaw", "cleanHourly", "cleanDaily"}
  /\ EndRun
  /\ UNCHANGED <<now, tables, open>>

-----------------------------------------------------------------------------
\* The history of the last 24 hours of the pod's namespace (handleHistory), which has
\* no other pod: raw rows, and above them the hourly rows of the hours that began before
\* the oldest raw row of any pod.  MIN over an empty table is NULL, and no hourly row is
\* before that.

DayAgo == now - DayTicks
HistoryRaw == {r \in raw : r > DayAgo}

\* Mutant: the hourly rows are not cut off where the raw rows begin.
HistoryHoursAll == {h \in Hours : hourly[h] # {} /\ HourStart(h) > DayAgo}

HistoryHours ==
  {h \in Hours : /\ hourly[h] # {} /\ HourStart(h) > DayAgo
                 /\ times # {} /\ \A r \in times : HourStart(h) < r}

\* GROUP BY bucket: a point for a tick of raw rows (15 minutes), a point for an hour,
\* one for both where they fall together.
Points == HistoryRaw \cup {HourStart(h) : h \in HistoryHours}

\* The last of several points is not sent.
SentPoints ==
  LET points == Points IN
  {p \in points : points = {p} \/ \E q \in points : p < q}

-----------------------------------------------------------------------------
\* The process and the clock.

\* The pod dies: PostgreSQL rolls the open transaction back.
Crash ==
  /\ pc # "down"
  /\ pc' = "down"
  /\ open' = {}
  /\ due' = NoTicker
  /\ found' = {}
  /\ bothOk' = FALSE
  /\ UNCHANGED <<now, tables, started, aggregated, lastHourly>>

\* StartRetentionWorker runs the jobs at once.
Start ==
  /\ pc = "down"
  /\ StartRun
  /\ UNCHANGED <<now, tables, open, due, aggregated, lastHourly>>

\* A tick is longer than the 5 minutes of a run and the 5 seconds of an insert:
\* neither sees more than one, and an idle worker does not sleep past its ticker.
Tick ==
  /\ now < MaxTime
  /\ open \subseteq {now}
  /\ \/ pc = "down"
     \/ pc = "idle" /\ now < due
     \/ pc \notin {"down", "idle"} /\ now = started
  /\ now' = now + 1
  /\ UNCHANGED <<tables, open, pc, due, started, history>>

Next ==
  \/ BeginInsert \/ CommitInsert \/ RollbackInsert
  \/ TickerRun \/ AggregateHourly \/ AggregateDaily
  \/ CleanRaw \/ CleanHourly \/ CleanDaily \/ CleanupFails
  \/ Crash \/ Start \/ Tick

Spec == Init /\ [][Next]_vars

-----------------------------------------------------------------------------
TypeOK ==
  /\ now \in Time
  /\ raw \subseteq Time /\ times \subseteq Time
  /\ hourly \in [Hours -> SUBSET Time]
  /\ daily \in [Days -> SUBSET Time]
  /\ open \subseteq Time
  /\ pc \in {"down", "idle", "hourly", "daily", "cleanRaw", "cleanHourly", "cleanDaily"}
  /\ due \in Int
  /\ started \in Time
  /\ found \subseteq Time
  /\ bothOk \in BOOLEAN
  /\ aggregated \subseteq Time
  /\ lastHourly \in Time

\* A raw sample is deleted without ever having reached an hourly row only if no
\* hourly aggregation has succeeded for RawHours - 1 hours: cleanup runs although
\* aggregation failed (store.go 214-228), and this is how long it is harmless,
\* whatever crashes, late commits and missed runs there were.
LossNeedsLongOutage ==
  [][\A r \in raw \ raw' : r \notin aggregated => now - lastHourly > RawTicks - TicksPerHour]_vars

\* Rewriting a bucket from what the tier above still holds never takes a sample
\* out of it while the bucket starts within every tier's retention.
Young(t) == t >= now - RawTicks /\ t >= now - HourlyTicks /\ t >= now - DailyTicks

YoungBucketsOnlyGrow ==
  [][/\ \A h \in Hours : Young(HourStart(h)) => hourly[h] \subseteq hourly'[h]
     /\ \A d \in Days : Young(DayStart(d)) => daily[d] \subseteq daily'[d]]_vars

\* When both aggregations of a run have succeeded, every raw row that the run began
\* with, of a day that was over when it began, is in its day's row: the last hour
\* of the day reaches the daily tier in the same run, through the hourly one.
RunCoversClosedDays ==
  pc = "cleanRaw" /\ bothOk =>
    \A r \in found : Day(r) < Day(started) => r \in daily[Day(r)]

\* A point of the history that counts sample s of hour h.
Tells(p, h, s) == (p = s /\ s \in HistoryRaw) \/ (p = HourStart(h) /\ h \in HistoryHours)

\* Wherever the cleanup has moved the edge between the tiers, and in the middle of a run
\* too, the history of a day has no hole: unless there is no raw row at all, a sample of
\* an hour that began within the day and that the hourly table still knows is missing
\* only if it is younger than every point sent, that is, where the handler drops the last
\* one.  A sample is counted from both tiers only in the hour of the oldest raw row.
HistoryOfADay ==
  LET sent == SentPoints IN
  /\ times # {} =>
       \A h \in Hours : HourStart(h) > DayAgo =>
         \A s \in hourly[h] :
           \/ \E p \in sent : Tells(p, h, s)
           \/ sent # {} /\ \A p \in sent : p < s
  /\ \A h \in HistoryHours :
       hourly[h] \cap HistoryRaw # {} => \A r \in times : h <= Hour(r)

\* README.md 365: hourly rows are kept 30 days (an aggregate of their hour).
HourlyKeepsItsSamples ==
  [][\A h \in Hours : hourly'[h] = {} \/ hourly[h] \subseteq hourly'[h]]_vars

\* README.md 366: daily rows are kept 365 days (an aggregate of their day).
HoursIn(samples) == {Hour(r) : r \in samples}

DailyKeepsItsHours ==
  [][\A d \in Days : daily'[d] = {} \/ HoursIn(daily[d]) \subseteq HoursIn(daily'[d])]_vars

=============================================================================
