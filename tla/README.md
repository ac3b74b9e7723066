# Sentinel: a TLA+ development

Sentinel is a Go agent that watches one Kubernetes cluster. It collects pod
metrics every ten seconds, stores them in PostgreSQL, thins them out over time,
and serves a JSON API and a dashboard. This directory holds TLA+ models of the
parts of the agent and of its dashboard whose correctness depends on order, time
or failure, the TLC runs that check them on small instances, and TLAPS proofs for
every instance.
Source paths are relative to `src/`.

## The system

| Part | Code | State it keeps | Operations |
|---|---|---|---|
| Circuit breaker | `agent/pkg/store/breaker.go` | state, failure count, time of the last failure | `Execute` = `allowRequest`, the query, `recordResult` |
| Retention worker | `agent/pkg/store/store.go` | the tables `metrics`, `metrics_hourly`, `metrics_daily`; a ticker | aggregate hourly, aggregate daily, three deletes that matter |
| Collector | `agent/main.go` 252-431 | `latestStats`, `latestSummary`, `lastCollectTime`, backoff | one cycle: three lists, a transaction, publish, stamp, sleep |
| Rate limiter | `agent/pkg/api/api.go` 75-126 | a map from remote address to limiter | allow or refuse a request, sweep |
| API handlers | `agent/pkg/api/api_handlers.go` | none of their own | read the snapshot, query through the breaker, call Kubernetes |
| Waste analysis | `agent/pkg/incidents` | none | `AnalyzeWaste` |
| Lifecycle | `agent/main.go` 197-250, 477-523 | the database handle, `appCtx` | connect with retries, start the goroutines, shut down |
| Page filters | `agent/static/js` 01, 03, 06 | namespace filter, system toggle, list of namespaces | choose, toggle, load the list |
| Overview panels | `agent/static/js` 04, 05, 07 | what each panel shows | a five-second timer; chains of requests whose answers redraw a panel |
| Detail drawers | `agent/static/js` 04-06 | one title, one body, the choices of each drawer | open, close, filter, sort, go back; twelve renderers |
| Cost chart | `agent/static/js` 02, 04, 06 | range, dates, namespace of the tile, curves and title | `fetchChart` and the six controls that call it |
| First run | `agent/static/js` 07 | panel, guided tour, a mark in localStorage, three health signals | the buttons and keys of the tour, `refreshHealthSignals` |

How they interact. `main` opens the database, creates the schema and starts the
retention worker, the collector and the HTTP server. The worker and the
handlers query PostgreSQL only through the one global breaker; the collector's
transaction bypasses it. The collector inserts into `metrics` while the worker
reads and deletes there. Handlers see the collector through two mutexes, one
for the snapshot and one for the timestamp that `/health` judges. The dashboard
polls the API every five seconds and, besides, on every click; its parts share the
namespace filter and the toggle for system namespaces, which every request reads
at a moment of its own, and the one drawer.

What is hard: goroutines that act on a copy of the breaker's state after the
lock is released; a database that fails between two statements; a process that
dies there; deletes that cut a bucket in two before it is computed again; five
durations that add up against one threshold; an answer that arrives after the
question has changed. `PROJECT.json` lists each of these hazards at its line.

What makes each part correct:
* breaker: its state follows the results recorded since the last success, it
  cannot get stuck half-open, and it closes again when the database is back;
* tiers: a sample reaches the tier below before it is deleted, and an aggregate
  stays an aggregate of its whole bucket;
* collector: a cycle stores everything or nothing, shows what it stored, stamps
  within a bound, recovers from errors and stops when told;
* rate limiter: forgetting idle clients is invisible, and does happen;
* history: the answer for 24 h has no hole and counts no hour twice but one;
* page: the filter shown is the filter used, and the panels come to follow it;
* drawers: an open drawer shows what its title names and what is chosen, its rows
  agree with its controls, and it does not stay at "Loading";
* chart: it is of the choices in force, its title says of what it is, and its two
  curves meet;
* first run: the tour points at something, makes progress and marks only what is
  finished; the health signals say the same.

## Modules

### `BreakerPromise`, `CircuitBreaker`

`BreakerPromise` is what the breaker promises: a state and a streak of
failures, moved by `Succeed`, `Fail` and `TryAgain`. It says nothing of
goroutines or clocks, and allows any number of trials while half-open, because
the code does (`StateHalfOpen` returns true to everybody).

`CircuitBreaker` is the code. Every caller has a program counter: `Admit` and
`SeeOpen` are the read-locked copy of `allowRequest`; `FailFast` and
`WaitedEnough` are its test of the copied time, without a lock; `Promote` is the
write-locked double check; `CallSucceeds`, `CallFails` and `Cancel` are the
ways a query ends; `RecordFailure` and `RecordSuccess` are `recordResult`. Time
is kept as an age that stops just above the timeout, so the state space is
finite without a clock. `wasDown` is a history variable that no guard reads:
PostgreSQL has been down at some time.
The worker is told apart from the clients because its context cannot be
cancelled by anybody and because it is sure to call again.

### `Retention`

The tables for one pod (no statement of the worker relates two pods), and `times`,
when the raw rows of all pods were recorded: a cycle may find other pods and not this
one. A raw row is its timestamp; an aggregate row is the set of samples it was computed from, because
averages, maxima and counts are functions of that set. `AggregateHourly` and
`AggregateDaily` are the two upserts, `CleanRaw`, `CleanHourly`, `CleanDaily`
the deletes, in the order of `RunRetentionJobs`. An aggregation may fail and the
run goes on; a delete may fail and the cleanup ends (`CleanupFails`).
`BeginInsert`, `CommitInsert` and `RollbackInsert` are the collector's
transaction, whose rows carry the time it began. A statement that is done
although its answer is lost leaves what a success and the failure of the next
one leave. `Crash` and `Start` are the
process; a start runs the jobs at once, so runs drift against the hours.

`HistoryHours` and `HistoryRaw` are the two halves of the 24 h query of
`handleHistory` for the pod's namespace, over the same tables; their boundary
`MIN(recorded_at)` is over `times`, because the subquery has no namespace. `Points` are
the buckets of the answer, and `SentPoints` what is left of them when the handler has
dropped the last one. A query is a function of the tables, so that `HistoryOfADay` is an
invariant of every state, in the middle of a run too.

`Tick` encodes two facts: a run has five minutes and an insert five seconds,
both shorter than a tick, so neither sees more than one.

### `CollectorPromise`, `Collector`

`pc` walks through the cycle. `ListNodes`, `ListPods` and `ListMetrics` may
fail independently; only a failure of the last skips the transaction
(`BeginTx`, `Insert`, `Commit`). `left` counts the ticks until the deadline of
where the collector is, and `age` is `time.Since(lastCollectTime)`. Time passes while
the collector waits for a dependency or sleeps, and in `WorkTicks`, which stand for all
its own work between the calls: at most so many per cycle, spent before it publishes. A
COMMIT
can succeed, fail, or succeed with its answer lost. `Publish` and `Stamp` are
the two critical sections, `Wake` and `Stop` the two cases of the `select`.
`CollectorCheck` is the verdict of `handleHealth`.

`CollectorPromise` is what others see of it: the rows of a cycle appear all at once,
no snapshot is published with less than them, a cycle ends with the verdict "ok" only
once they are shown, and only a verdict that was "ok" turns to "degraded", at any time
(how late a stamp can be is `StampsInTime`). It knows no deadlines and no steps of a cycle; `Promise` in `Collector` is the mapping.

### `CollectorDeadlines`

`Collector` with two stopwatches, both history. `calm` is for how long every
dependency has been up and has answered before its deadline, with nobody
cancelling; `leaving` is the time since `appCtx` was cancelled. `RecoveryTicks` and
`CycleTicks` turn the two liveness properties of the collector into bounds, so that
they are invariants. Time passes only where the collector may spend it (`left`), as in
`Collector`: a call that is not answered ends at its deadline.

### `TokenBucket`, `RateLimiter`

`TokenBucket` gives every address a bucket for ever, filled every second.
`RateLimiter` is the code: an entry exists only from a request until the sweep,
refills are computed when needed, a refusal leaves the limiter alone. The
limiter is golang.org/x/time/rate v0.5.0, modelled from how the middleware uses
it. The mutex is held for a whole lookup and a whole sweep, so those are single
steps. The refinement mapping sends an address without an entry to a full
bucket, and an entry to what it could hand out now.

### `Page`, `Overview`

`Page` is what the user chooses and every panel follows. `activeNs` is what the
panels read, `nsFilter` what the select shows; the actions keep them apart as the
code does, `renderDropdowns` with its rebuilt options included. A refused list of
namespaces is a JSON object that is stored like a list (`Refused`): from then on
`renderDropdowns` throws and the toggle's listeners with it (`ToggleUnheard`).
`Page` has no specification of its own; `Overview` and `CostChart` extend it and
add to each choice what it sends for: `RefreshOnNs` of `Overview` and `UserChoosesNs`
of `CostChart` are the two halves of one listener.

`Overview` is what the five-second timer refreshes. A refresh is a chain: the
answers of `ShowSummary` start the tiles and the metrics, those of `ShowMetrics`
the incidents. `flying` counts the requests of each kind in flight, a panel is the
choices it stands for, and each action reads a choice where the code reads it: some
before a request (the toggle, a namespace in a URL), some after its answer. `Cards` are
the parts that an empty list leaves as they are: the cards of the pods that use most,
which follow the metrics, and average, donut and worst of the efficiency tile. `bare`
has the choices for which the agent has no pods, and `Nothing` adds that it leaves
system namespaces out of the efficiency list.

### `Drawers`

The shared drawer. `waiting` holds the renders in flight, each with what it took
along when it started; `Finish` replaces the body whatever the drawer has become,
`Advance` is the first of two answers, `Fail` the `catch` of each renderer. `body`
carries what wrote it, what it was asked for, and, for the drawers with controls,
the setting of the rows and the setting shown. The controls exist only in the body:
`Toolbar` finds nothing when the body is another drawer's. An incidents drawer
that starts aborts the one before it (`Aborted`, `AfterAbort`). `overlap` is a
history variable that no guard reads.

### `CostChart`

`fetchChart` in two steps, `HistoryComes` and `ForecastComes`, and everything that
calls it. `NoFetch` marks the changes after which the code does not fetch. `Asking`
is read before the first request, `Titled` after the last answer. `HistLine` and
`ForecastLine` build the padded arrays of `uLine`.

### `Dashboard`

The page with panels and chart. A control that both hear is one action, the
conjunction of its two halves (`NsChosen`, `SysToggled`, `TileNsChosen`,
`ListLoaded`); every other step is of one part, and of the other's variables it leaves
all alone. `ActsAsOverview` and `ActsAsChart` are the specifications of the parts: that
the page implements both is what makes the proofs about each part alone proofs about
the page. The module has theorems and no run: its actions are those that `overview` and
`cost_chart` check, two at a time, and they meet only in the variables of `Page`.

### `FirstRun`

The panel, the tour and the signals. `RenderStep` skips the steps whose element is
missing, `present` says which are there. `Reload` keeps the mark only. The three
signals are computed from one answer of `/health`, and `HandleHealth` is that
answer for any outcome of the pings, of the breaker and of the age of the last
collect.

`MC*` modules only name the model values of a run.

## Runs

| Run | Bounds | What it shows |
|---|---|---|
| `breaker` | worker and two clients, two failures open, timeout of one tick, failures counted to three | the safety properties, the refinement of `BreakerPromise`, `Recovers`, `OutageTrips` |
| `breaker_early_test` | the same | the breaker can test before its timeout |
| `breaker_cancel` | the same | the breaker can open on a database that has never been down |
| `retention` | 2 ticks an hour, 3 hours a day, raw for 2 hours, the other tiers for 1 day, 8 ticks (0 to 7), one raw time without the pod | what reaches the lower tiers, when samples are lost, when buckets shrink, what the 24 h history shows |
| `retention_hourly` | hourly rows for 2 days, daily for 3, 9 ticks | an hourly row loses samples |
| `retention_daily` | raw 1 hour, hourly 1 day, daily 3 days, 10 ticks | a daily row loses hours |
| `collector` | two pods, ticks of 5 s, the code's default durations, one tick of work in a cycle | the properties of the cycle, the age of the last stamp, that it implements `CollectorPromise`, recovery within two cycles and the longest backoff, shutdown within a cycle |
| `rate_limiter` | two addresses, two requests a second, a sweep every three seconds | the refinement of `TokenBucket`, and the bound on the map |
| `drawers` | two renders in flight, one node, one namespace, two settings of the controls, two periods, four settings of the page | no drawer stays at "Loading", rows and controls agree, title, body and choices agree |
| `overview` | two requests in flight when a refresh starts, one system namespace, with pods or without, one resource tile | `FilterIsHonest`, what can turn a panel back, and that the panels settle |
| `cost_chart` | two calls in flight, one system namespace, two ranges and two pairs of dates, curves of two points | chart, title, select and curves |
| `first_run` | a tour of four steps, any of them missing | the tour, its mark, and the health signals |

Why the bounds are enough. *Breaker*: three callers allow one that stalls with a
stale copy, one that trips the breaker and one that tests it; the counter only
matters up to the limit, and a cap one above it distinguishes "reached" from
"passed". *Retention*: eight ticks are a day and a third of the model, so a day ends
and every tier deletes; two ticks an hour are what a mid-hour cleanup needs; the day
is longer than the raw retention, so the history of a day has both tiers.
*Collector*: no duration is shorter than the code's default, and the tick of work makes the
sum of all pass the threshold, so that all three verdicts occur after clean cycles. Two pods are enough for part of a
transaction. The bound of `StopsInTime` is reached; that of `RecoversInTime` has
four ticks to spare with these durations, because the stopwatch starts again when a
call takes all of its deadline. *Rate limiter*: the sweep period exceeds the time to
fill a bucket by as little as possible, which is the hard case. *Drawers*: two
renders in flight are what overtaking needs, and the proofs hold for any number; the
four settings of the page have every pair of values among them. *Overview*: a system
namespace is the one the toggle takes away; a refresh starts while another is in
flight, and the chain of a refresh is longer than the bound, which only stops new
ones. Which namespaces have pods is chosen once (`bare` does not change): all, all but
the system namespace, or none. The efficiency cards follow no system namespace, so in
this run they stay with all namespaces; the proof of `PanelsKeepUp` has any others. *Cost chart*: as for the drawers; `LinesMeet` is proved for curves of any
length. *First run*: four steps have a first, a last and two between that can be
missing together; the code's tour is longer, and the proofs are for any length.

Deadlock is checked in every run of the agent's parts. The runs of the dashboard do
not check it: a user may stop, with nothing in flight.

### Fairness

*Breaker*: a started `Execute` continues, because goroutines are scheduled and
every query has a deadline; time passes; the worker calls again, because its
ticker never stops. No client has to call, and none has to leave. `Recovers`
assumes what it must: the database stays up, and clients stop walking away from
their queries, since each one that does counts as a failure. *Collector*: the
goroutine runs, time passes, a cancelled context wakes the `select`; `Recovers`
assumes that the dependencies come back and answer before their deadlines.
*Overview*: `setInterval` keeps firing, and `fetch` settles every request (weak
fairness of `Tick` and of every `Land`). `PanelsSettle` assumes that from some time
on the user changes nothing and requests succeed (`quiet`): a request that fails
leaves its panel to the next refresh. Drawers and chart are not refreshed by any
timer, and have no liveness to state.

### What the failing runs show

* `TestsOnlyAfterTimeout`. A goroutine copies an old `lastFailure`, stalls, and
  promotes the breaker after another trial has just failed. The state is checked
  again under the write lock, the time is not.
* `OpenMeansDbFailed`. Queries run under the request's context, and
  `recordResult` counts any error: enough impatient clients open the breaker of a
  PostgreSQL that is up in every state of the trace.
* `HourlyKeepsItsSamples`. The cleanup deletes raw rows to the minute, and the
  next aggregation recomputes the oldest hour from the rest.
* `DailyKeepsItsHours`. The same one tier down, where it does not stop: every run
  of the day after the daily row's hours expire recomputes it from fewer hours,
  and the value of the last remaining hour is what stays for a year.

`YoungBucketsOnlyGrow`, which holds, says how far the damage reaches: only
buckets that begin before the retention window of some tier.

### What the exceptions of the passing runs say

Some properties hold only with an exception that the code makes necessary, and
name it.
* `HistoryOfADay`: a sample can be counted from the raw and from the hourly tier, in
  the hour of the oldest raw row, which the cleanup cuts in two. With the default
  raw retention of 24 h this is the only hour that the hourly half of the query can
  add at all. A tier without any raw row hides the hourly rows as well, because `MIN`
  is then null. The handler drops the last of several points, and with it the newest
  samples of the pod: usually a quarter of an hour, but a whole hour if no raw row of
  the pod is young enough to be a point of its own. What is missing is always younger
  than all that is sent.
* `PanelsSettle`: the cards of the pods that use most, and average, donut and worst of
  the efficiency tile, keep what they show when the list for a new choice is empty: the
  pod of the namespace before stays for as long as the new one has none. For a system
  namespace the efficiency tile always does this.
* `ShowsCurrent`: a drawer that is opened, or rendered again, while a render is in
  flight may end with the body of the other one. No renderer looks whose body it
  replaces, but the incidents drawer, after its first answer only.
* `ChartIsCurrent`: two calls of `fetchChart` that overlap are drawn in the order of
  their answers; an empty history leaves the old curve.
* `TitleTells`: the title does not know the namespace of the tile, and names a
  custom range before it is applied.
* `TileSelectTells`: hiding the system namespaces takes the chosen option away from
  the tile's select and leaves the chart filtered by it.
* `SignalsAgree`: an open breaker alone degrades the overall status of `/health` and
  none of its checks, and the page reads the checks.

## Proofs

All proofs are checked by TLAPS, for all values of the constants that satisfy
the named assumptions.

`CircuitBreakerProofs` (from `BreakerAssumption`): `TypeOK`, `StateTracksFailures`
and `HalfOpenHasTrial` are proved inductive together, and from them that every
step is a step of `BreakerPromise` or a stutter. `StateTracksFailures` needs
`HalfOpen` to coincide with a full streak, which is why the double check under the
write lock matters: without it a late promotion would leave a closed breaker
half-open with no failures. `HalfOpenHasTrial` survives because whoever promotes
is in flight afterwards, and every recorded result leaves `HalfOpen`.

`RetentionProofs` (from `RetentionAssumption`, for any number of ticks in an hour,
hours in a day and retention periods): all properties of the run `retention`. Its
first part is the arithmetic of `date_trunc`: hours nest in days, and buckets are
ordered like times. The invariant has a part for each property. `UncountedIsRecent`:
a raw row no hourly row has counted is at most an hour older than the last hourly
aggregation, since an aggregation leaves only the current hour out; hence
`LossNeedsLongOutage`. `HourlyFromRaw` and `DailyFromHourly`: what a young row was
computed from is still in the tier above, so computing it again cannot lose
anything; hence `YoungBucketsOnlyGrow`. `RunProgress` follows the samples a run
found through its two aggregations; hence `RunCoversClosedDays`. `DeletedAreOldest`:
a sample that is only in an hourly row is older than every raw row of any pod, since the
cleanup deletes by age and inserts carry the present; so only a point that is dropped
can hide a sample, and `LastIsDropped` says that this is the last; hence `HistoryOfADay`.
`Clocks` supports them all: an insert is never committed more than a tick after the
time it carries.

`CollectorProofs` (from `CollectorAssumption`, which says nothing of how the durations
compare):
`StorageInv` adds to `SavedIsWhole` and `SavedIsShown` that an unbroken transaction
holds all pods when it commits, and that what is committed is among what will
be published. `InTime` bounds, for every place of the cycle, the age of the last
stamp plus the ticks the collector may still spend there. With it
`StampsInTime` follows: a backoff, the lists, the longer of transaction and retry
sleeps, and the work. With the default values that is 10 + 15 + 5 s after a cycle
without list errors, which is the threshold of 30 s exactly, plus the work; so a database
at its deadline can make the verdict "degraded" after a clean cycle, and nothing is
claimed of the threshold. `StorageInv` makes every step one of `CollectorPromise` or a
stutter (`PromiseStep`): the COMMIT is its `Store` because an unbroken transaction is
whole.

Its second half is about `CollectorDeadlines` (and takes `DeadlineAssumption` too: a
deadline is not zero). `Flawless` says of every place of a cycle that it has met no
error and has time left; while all is well no step spoils it (`FlawlessStep`), and
`Wake` begins such a cycle. A cycle that is not flawless was under way when all became
well, so `SpoiltLeft` bounds calm plus the ticks left by what is left of that cycle;
`RecoveryLeft` goes on through the backoff and the next cycle, until the stamp that
leaves the collector `Settled`. `TickTrade` is the arithmetic of both: a tick takes
from the ticks left what it adds to the stopwatch. `ShutdownInv` is the same for
`leaving`.

`RateLimiterProofs` (from `LimiterAssumption`): an entry's last successful request is
as old as its last request or older (`LazyClock`), so an entry the sweep may
delete is full (`FullWhenIdle`), and `LimiterActsAsBucket` follows step by step.
`SweepInTime` gives the bound on the map.

`OverviewProofs` (from `PageAssumption` and `OverviewAssumption`, for any tiles and any
number of requests in flight) begins with lemmas on the choices of the page: each of its
actions keeps `FilterIsHonest`. With the types of requests and panels this is all that
`OverviewTypeOK` and `FilterIsHonest` need. `PanelsKeepUp` is about single steps: while
the choices stay, what a refresh, a chain or a click sends is never outdated, and an
answer that is not outdated makes its panel show the choices of now, and a card that
shows them is either left alone or written with them.

`DashboardProofs` (from `CostChartAssumption` as well) has the chart, and the page.
`Controls` says what the controls make of each other, and that the tile's select shows
an option it has; hence `TileSelectTells` and `FilterIsHonest`. `Drawing` says what
will be drawn: unless excused, there is one call in flight and it has asked for what
is in force (`OneCall`, `CallIsCurrent`), because a control that changes the choices
either fetches (`FetchDrawing`) or changes nothing that a call could be wrong about
(`NoFetchDrawing`); hence `ChartIsCurrent` and `TitleTells`. `LineFacts` gives the two
padded arrays point by point, and with it `LinesMeet` for curves of any length. Each
step of `Dashboard` is a step of `Overview` or leaves the panels alone, and a step of
`CostChart` or leaves the chart alone (`PanelsAsAlone`, `ChartAsAlone`);
`PageKeepsBoth` collects what follows for the page.

`DrawersProofs` (from `DrawersAssumption`, for any number of renders in flight): its
types and all properties of the run `drawers`. `Flight` is the strengthening `ShowsCurrent`
needs: without overlap there is one render in flight, it is the one the title
names, and it has asked for what is chosen (`Fits`); this is kept because the page
cannot be changed under an open drawer and every control of a drawer renders it
again. `RenderedFacts` says what each renderer writes, `StartFacts` what a start
leaves of the others; `OpenDrawerStep`, `RerenderStep` and `OpenDetailStep` are the
three ways in.

`FirstRunProofs` (from `FirstRunAssumption`, for a tour of any length, whichever of its
elements are missing): all properties of the run `first_run`. `TourHasTarget` is
inductive with the types, and gives that `Back` finds the step it came from;
`SignalsOfAnswer`, that all three signals are of one answer, gives `SignalsAgree`.

Only model-checked: the liveness properties `Recovers` (of the breaker and of the
collector), `OutageTrips`, `StopsOnCancel` and `PanelsSettle`, because liveness under
fairness is out of the prover's reach. Three of them have a counterpart among the
theorems that needs no fairness: `RecoversInTime` and `StopsInTime` bound the time of the
collector's, and `PanelsKeepUp` is the step that `PanelsSettle` repeats. They say what
cannot happen in the meantime, not that the goroutine or the timer runs on. Every other
property of the passing runs is proved. The types of `Overview`, `Drawers` and
`CostChart` are proved and no run checks them.

## What is not modelled

In the agent: the contents of rows and answers; parsing of the environment;
authentication and logging, which keep no state; the pass-through handlers; the
history of ranges other than 24 h, which reads one tier; the forecast and the waste
analysis, which are functions of one answer; startup, which is sequential, and
shutdown beyond what `Collector` and the crashes of `Retention` have of it.

In the dashboard: drawing, wording, legends and the order of rows; info cards and
copy buttons; the tab of the waste drawer that groups by deployment; the login form.
The pods and workloads tabs, the log window and the workloads drawer are in the
scripts, but `dashboard.html` has no element that opens them (`tile-ns-events`,
`tile-ns-eff`, `tile-ns-workloads` and `eff-expand-btn` are missing from it), so they
are never in a state the program can be in. The debounce of search boxes counts as
part of the request. Panels are the choices they stand for and not their numbers, so
that a list of incidents that failed and counts as empty is not told from an empty one.

The scripts of `tools` and `harness` make one pass over a file or an endpoint.

A panic in a
query, which would skip `recordResult`, is left out. The database
pool is not modelled: a call that waits for a connection is a call that fails at
its deadline. `docs/self-observability-guide.md` 100-101 lists a failing database among
the likely causes of a degraded collector check. The model agrees: a transaction at its
deadline can carry a cycle over the threshold, and further with a larger
`DB_TIMEOUT_SEC`. But transaction errors neither lengthen the backoff nor suppress the
stamp, so by `StampsInTime` the verdict is "ok" again after the next stamp; and a
database that refuses at once degrades nothing, while the snapshot stays empty
(`main.go` 340). `Recovers` and `RecoversInTime` say that this ends with the outage, and
nothing of the time before.

## Plan

1. Done: breaker, retention, collector, rate limiter.
2. Done: page, overview, drawers, cost chart, first run, with proofs; the 24 h history
   over the tables of `Retention`.
3. Done: the composition of panels and chart on one page; the promise of the collector
   and the bounds on its recovery and shutdown, with proofs.
4. Left: the choice of tier and the units of the other ranges; `AnalyzeWaste` against
   a reference definition; connection retries with 64-bit durations. Each is a
   computation without interleaving.
5. Left to prove: a bounded counterpart of the breaker's recovery, and an abstract
   specification of the drawers.
