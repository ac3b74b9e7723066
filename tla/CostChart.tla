----------------------------- MODULE CostChart -----------------------------
(***************************************************************************)
(* The chart of the cost tile: fetchChart (agent/static/js/04-overview.js  *)
(* 716-769), the controls that call it (06-drawers.js 18-58, 07-polling.js *)
(* 53-67, the period of the FinOps drawer in 05-workloads.js) and the      *)
(* curves that uLine draws (02-charts.js 23-183).                          *)
(*                                                                         *)
(* fetchChart asks for the history and then for the forecast, and draws    *)
(* what came; nothing keeps two of its calls apart.  The agent refuses     *)
(* with a JSON object, which the page takes for a list until it uses it.   *)
(***************************************************************************)
EXTENDS Page, Integers, Sequences

CONSTANTS
  Presets,     \* ranges with a button
  Dates,       \* pairs of dates for the custom range
  Histories,   \* lengths of a history that is not empty
  Forecasts,   \* lengths of a forecast
  Slots        \* calls of fetchChart in flight (a bound of the model)

Custom == "custom"
NoDates == ""

ASSUME CostChartAssumption ==
  /\ Custom \notin Presets /\ NoDates \notin Dates
  /\ Histories \subseteq Nat \ {0} /\ Forecasts \subseteq Nat

VARIABLES
  activeRange,   \* the range in force
  dates,         \* customFrom and customTo, NoDates if one of them is empty
  tileNs,        \* tileNs.finops
  tileShown,     \* the option that the select of the tile shows
  waiting,       \* the calls in flight
  chart,         \* what the curves stand for, and how many points they have
  title,         \* the namespace and the range that the title names
  excused        \* history: since fetchChart was last called with no call in flight, one
                 \* was called over another, or drew nothing

controls == <<activeRange, dates, tileNs, tileShown>>
vars == <<page, controls, waiting, chart, title, excused>>

-----------------------------------------------------------------------------
Ranges == Presets \cup {Custom}

\* What fetchChart asks for: the namespace of the tile goes before that of the page.
ChartNs == IF tileNs # AllNs THEN tileNs ELSE activeNs
Asking == [range |-> activeRange, dates |-> IF activeRange = Custom THEN dates ELSE NoDates,
           ns |-> ChartNs, sys |-> showSys]
Asked == [range : Ranges, dates : Dates \cup {NoDates}, ns : Ns, sys : BOOLEAN]

Free == [of |-> "free"]
Calls == {Free} \cup [of : {"history", "forecast"}, for : Asked, hist : Histories \cup {0}]
Idle == \A s \in Slots : waiting[s] = Free

\* Without both dates the custom range is asked for like a preset, and is refused.
Refusable(asked) == asked.range = Custom /\ asked.dates = NoDates
HasForecast(asked) == asked.range # Custom

-----------------------------------------------------------------------------
(* The curves: a sequence of points for each, with Gap for null. *)

Gap == 0
Gaps(n) == [i \in 1..n |-> Gap]

\* The points of the history are 1..h, those of the forecast h+1..h+f.
HistLine(h, f) == [i \in 1..h |-> i] \o Gaps(f)

\* Mutant: the forecast starts where the history ends, without its last point.
ForecastLineUnbridged(h, f) == Gaps(h) \o [i \in 1..f |-> h + i]

ForecastLine(h, f) == [Gaps(h) EXCEPT ![h] = h] \o [i \in 1..f |-> h + i]
Labels(h, f) == h + f

-----------------------------------------------------------------------------
Init ==
  /\ PageInit
  /\ activeRange \in Presets /\ dates = NoDates
  /\ tileNs = AllNs /\ tileShown = AllNs
  /\ \E s \in Slots :
       waiting = [t \in Slots |->
         IF t = s THEN [of |-> "history", for |-> Asking, hist |-> 0] ELSE Free]
  /\ chart = [for |-> Asking, hist |-> 0, forecast |-> 0]
  /\ title = [ns |-> AllNs, range |-> activeRange]
  /\ excused = FALSE

\* The synchronous part of fetchChart, which reads the choices as the caller leaves them.
FetchChart ==
  /\ \E s \in Slots :
       /\ waiting[s] = Free
       /\ waiting' = [waiting EXCEPT ![s] = [of |-> "history", for |-> Asking', hist |-> 0]]
  /\ excused' = ~Idle
  /\ UNCHANGED <<chart, title>>

NoFetch == UNCHANGED <<waiting, chart, title, excused>>

NamespacesCome ==
  /\ LoadNamespaces
  /\ tileShown' = IF allNamespaces' = Refused THEN tileShown
                  ELSE Kept(tileShown, Offered(allNamespaces', showSys))
  /\ UNCHANGED <<activeRange, dates, tileNs>>
  /\ NoFetch

UserChoosesNs ==
  /\ ChooseNs
  /\ UNCHANGED controls
  /\ FetchChart

\* renderDropdowns takes the option of the tile's select away and leaves tileNs.
UserTogglesSys ==
  /\ ToggleSys
  /\ tileShown' = Kept(tileShown, Offered(allNamespaces, showSys'))
  /\ UNCHANGED <<activeRange, dates, tileNs>>
  /\ FetchChart

UserTogglesUnheard ==
  /\ ToggleUnheard
  /\ UNCHANGED controls
  /\ NoFetch

\* Mutant: the select is heard by the efficiency table only.
ChooseTileNsUnheard ==
  /\ tileShown' \in Offered(allNamespaces, showSys) \ {tileShown}
  /\ UNCHANGED <<page, activeRange, dates, tileNs>>
  /\ NoFetch

\* Mutant: the chart is fetched by the next control only.
ChooseTileNsLater ==
  /\ tileShown' \in Offered(allNamespaces, showSys) \ {tileShown}
  /\ tileNs' = tileShown'
  /\ UNCHANGED <<page, activeRange, dates>>
  /\ NoFetch

ChooseTileNs ==
  /\ tileShown' \in Offered(allNamespaces, showSys) \ {tileShown}
  /\ tileNs' = tileShown'
  /\ UNCHANGED <<page, activeRange, dates>>
  /\ FetchChart

\* A button, or the period of the FinOps drawer.
PickPreset ==
  /\ activeRange' \in Presets
  /\ UNCHANGED <<page, dates, tileNs, tileShown>>
  /\ FetchChart

\* The button of the custom range only shows the fields for its dates.
PickCustom ==
  /\ activeRange' = Custom
  /\ UNCHANGED <<page, dates, tileNs, tileShown>>
  /\ NoFetch

\* The dates are taken before they are looked at.
ApplyCustom ==
  /\ activeRange = Custom
  /\ dates' \in Dates \cup {NoDates}
  /\ UNCHANGED <<page, activeRange, tileNs, tileShown>>
  /\ IF dates' = NoDates THEN NoFetch ELSE FetchChart

-----------------------------------------------------------------------------
(* Answers, in any order. *)

\* Mutant: the namespace is left out.
TitledRange == [ns |-> AllNs, range |-> activeRange]

\* The title names the choices of now.
Titled == [ns |-> activeNs, range |-> activeRange]

\* The end of the call in slot s, with both answers good: uLine draws nothing without a
\* history, the title is written in any case.
Draw(s, h, f) ==
  /\ chart' = IF h > 0
              THEN [for |-> waiting[s].for, hist |-> h, forecast |-> f] ELSE chart
  /\ title' = Titled
  /\ waiting' = [waiting EXCEPT ![s] = Free]
  /\ excused' = (excused \/ h = 0)
  /\ UNCHANGED <<page, controls>>

\* An error or a refusal: uLine throws before it draws, or fetchChart before that.
Give(s) ==
  /\ waiting' = [waiting EXCEPT ![s] = Free]
  /\ excused' = TRUE
  /\ UNCHANGED <<page, controls, chart, title>>

AskForecast(s, h) ==
  /\ waiting' = [waiting EXCEPT ![s].of = "forecast", ![s].hist = h]
  /\ UNCHANGED <<page, controls, chart, title, excused>>

HistoryComes(s) ==
  /\ waiting[s].of = "history"
  /\ ~Refusable(waiting[s].for)
  /\ \E h \in Histories \cup {0} :
       IF HasForecast(waiting[s].for) THEN AskForecast(s, h) ELSE Draw(s, h, 0)

\* What is refused is not seen before the forecast is in, which changes nothing.
HistoryFails(s) == waiting[s].of = "history" /\ Give(s)

\* A forecast that the network loses counts as empty.
ForecastComes(s) ==
  /\ waiting[s].of = "forecast"
  /\ \E f \in Forecasts \cup {0} : Draw(s, waiting[s].hist, f)

\* The forecast is refused: its object has no map, and the chart is not drawn either.
ForecastRefused(s) ==
  /\ waiting[s].of = "forecast" /\ waiting[s].hist > 0
  /\ Give(s)

Next ==
  \/ NamespacesCome
  \/ UserChoosesNs
  \/ UserTogglesSys
  \/ UserTogglesUnheard
  \/ ChooseTileNs
  \/ PickPreset
  \/ PickCustom
  \/ ApplyCustom
  \/ \E s \in Slots :
       HistoryComes(s) \/ HistoryFails(s) \/ ForecastComes(s) \/ ForecastRefused(s)

Spec == Init /\ [][Next]_vars

-----------------------------------------------------------------------------
TypeOK ==
  /\ PageTypeOK
  /\ activeRange \in Ranges /\ dates \in Dates \cup {NoDates}
  /\ tileNs \in Ns /\ tileShown \in Ns
  /\ waiting \in [Slots -> Calls]
  /\ chart \in [for : Asked, hist : Histories \cup {0}, forecast : Forecasts \cup {0}]
  /\ title \in [ns : Ns, range : Ranges]
  /\ excused \in BOOLEAN

Settled == Idle /\ ~excused

\* Once nothing is in flight the chart is of the choices in force, whichever control or
\* drawer changed them last: except for a custom range that is not applied yet, for
\* calls that overlapped, for answers with nothing to draw, and for a page whose list
\* of namespaces was refused.
ChartIsCurrent ==
  Settled /\ allNamespaces # Refused =>
    /\ chart.for.ns = ChartNs /\ chart.for.sys = showSys
    /\ activeRange # Custom => chart.for.range = activeRange
    /\ activeRange = Custom /\ chart.for.range = Custom /\ dates # NoDates =>
         chart.for.dates = dates

\* The title is written with the choices of when the answer came and without the
\* namespace of the tile.  It can differ from the chart in these two ways only.
TitleTells ==
  Settled =>
    /\ title.ns = chart.for.ns \/ chart.for.ns = tileNs
    /\ title.range = chart.for.range \/ title.range = Custom

\* The select of the tile shows what filters the chart, unless a system namespace was
\* hidden while it was chosen: then it shows all and the chart stays with that one.
TileSelectTells ==
  tileShown # tileNs => tileShown = AllNs /\ tileNs \in System

\* Under every label there is a point, and the history and the forecast meet in the last
\* point of the history and nowhere else.
LinesMeet ==
  chart.forecast > 0 =>
    LET hist == HistLine(chart.hist, chart.forecast)
        next == ForecastLine(chart.hist, chart.forecast)
        at == 1..Labels(chart.hist, chart.forecast)
    IN  /\ DOMAIN hist = at /\ DOMAIN next = at
        /\ \A i \in at : hist[i] # Gap \/ next[i] # Gap
        /\ {i \in at : hist[i] # Gap /\ next[i] # Gap} = {chart.hist}
        /\ hist[chart.hist] = next[chart.hist]
=============================================================================
