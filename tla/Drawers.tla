------------------------------ MODULE Drawers ------------------------------
(***************************************************************************)
(* The detail drawer of the dashboard (agent/static/js/06-drawers.js, and  *)
(* the drawers of 04-overview.js and 05-workloads.js): one title and one   *)
(* body, which eight asynchronous renderers and four synchronous ones      *)
(* write.  A renderer fetches one or two answers and then replaces the     *)
(* body, whatever the drawer has become meanwhile.  Some read what they    *)
(* filter by before they fetch, some after the last answer, one in         *)
(* between.                                                                *)
(*                                                                         *)
(* The controls of a drawer are in its body: reading them finds nothing    *)
(* when the body is another one's.  The overlay behind an open drawer      *)
(* covers the page, so that the filters and the toggle of the page change  *)
(* only while it is closed.  The debounce of the search boxes counts as    *)
(* part of the request they start.  The order of the rows is left out: a   *)
(* click on a column header is a render that asks for the same again.      *)
(***************************************************************************)
EXTENDS Naturals

CONSTANTS
  Nodes,        \* node names
  Namespaces,   \* namespace names
  Filters,      \* settings of a drawer's own controls, AllRows among them
  Periods,      \* settings of the period select of the FinOps drawer
  Pages,        \* settings of the page
  Slots         \* renders that may wait for answers at one time (a bound of the model)

AllRows == ""
AllNs == ""
NoNode == ""

PageSettings ==
  [ns : Namespaces \cup {AllNs}, tile : Namespaces \cup {AllNs}, sys : BOOLEAN]

ASSUME DrawersAssumption == AllRows \in Filters /\ Pages \subseteq PageSettings

VARIABLES
  open,       \* drawerOpen
  title,      \* the drawer named in drawer-title; its node, if it names one, is focus
  body,       \* drawer-body: what wrote it, and what its rows and controls stand for
  waiting,    \* the renders in flight
  focus,      \* _evtDrawerState.focusNode
  clearNs,    \* _evtDrawerState.clearNsFilter
  evt,        \* _evtDrawerState.ns, range and search
  period,     \* finopsDrawerRange
  page,       \* the namespace filter of the page, the one of its cost tile
              \* (tileNs.finops), and global-show-system
  overlap     \* history: since a drawer was last opened with a request and with no render
              \* in flight, one was started or opened over a render in flight

choices == <<focus, clearNs, evt, period>>
vars == <<open, title, body, waiting, choices, page, overlap>>

-----------------------------------------------------------------------------
(* What a renderer takes with it when it starts, and what it leaves behind. *)

Live == {"pods", "cpu", "mem", "waste"}
Async == Live \cup {"node", "alerts", "events", "finops"}
Detail == {"efficiency", "incident", "podDetail", "wasteDetail"}
Titles == (Async \cup Detail) \ {"wasteDetail"}

Fetches(k) == IF k \in {"pods", "alerts", "waste"} THEN 1 ELSE 2

Nothing == [focus |-> NoNode, ns |-> AllNs, sys |-> FALSE, filter |-> AllRows, period |-> ""]
Asked == [focus : Nodes \cup {NoNode}, ns : Namespaces \cup {AllNs}, sys : BOOLEAN,
          filter : Filters, period : Periods \cup {""}]
Request == [of : Async, step : 1..2, for : Asked]
Free == [of |-> "free", step |-> 1, for |-> Nothing]

\* rows: the setting the rows were selected by.  ctl: what the controls show.
\* lost: the rows are not of what was asked for, because the answer does not know it.
Body == [of : Async \cup Detail \cup {"loading", "error"}, for : Asked,
         rows : Filters, ctl : Filters, lost : BOOLEAN]
Blank == [of |-> "loading", for |-> Nothing, rows |-> AllRows, ctl |-> AllRows, lost |-> FALSE]
Loading == Blank
Error == [Blank EXCEPT !.of = "error"]

NodeAsks == [Nothing EXCEPT !.focus = focus]
AlertsAsks == [Nothing EXCEPT !.sys = page.sys]
WasteAsks == [Nothing EXCEPT !.ns = page.ns]
EventsAsks(e) == [Nothing EXCEPT !.filter = e]

\* The namespace of the cost tile, if it has one, goes before that of the page.
ChartNs == IF page.tile # AllNs THEN page.tile ELSE page.ns
FinOpsAsks(p) == [Nothing EXCEPT !.period = p, !.ns = ChartNs, !.sys = page.sys]

\* The namespace in the URL of the second request is read when the first is answered.
CpuAsksNext == [Nothing EXCEPT !.ns = page.ns]
MemAsksNext == [Nothing EXCEPT !.ns = page.ns]

AsksNext(r) ==
  CASE r.of = "cpu" -> CpuAsksNext
    [] r.of = "mem" -> MemAsksNext
    [] OTHER -> r.for

\* document.getElementById on the controls of drawer k.
Toolbar(k) == IF body.of = k THEN body.ctl ELSE AllRows

\* A select whose chosen option is not in the answer falls back to its first option,
\* after the rows have been selected by the old one.
LiveRows(k, r, offered) ==
  [Blank EXCEPT !.of = k, !.for = r.for, !.rows = Toolbar(k),
                !.ctl = IF offered THEN Toolbar(k) ELSE AllRows,
                !.lost = ~offered /\ Toolbar(k) # AllRows]

\* Mutant: the toolbar is written without `selected'.
PodsRowsUnselected(r, offered) == [LiveRows("pods", r, TRUE) EXCEPT !.ctl = AllRows]

PodsRows(r, offered) == LiveRows("pods", r, offered)
CpuRows(r) == LiveRows("cpu", r, TRUE)
MemRows(r) == LiveRows("mem", r, TRUE)
WasteRows(r, offered) == LiveRows("waste", r, offered)

\* The pods of the node asked for, or of all nodes if the answer does not have it.
NodeRows(r, known) ==
  [Blank EXCEPT !.of = "node",
                !.for = [r.for EXCEPT !.ns = IF clearNs THEN AllNs ELSE page.ns],
                !.lost = r.for.focus # NoNode /\ ~known]

\* The toggle of before the request, the namespace of after it.
AlertsRows(r) == [Blank EXCEPT !.of = "alerts", !.for = [r.for EXCEPT !.ns = page.ns]]

\* The selects are set to what was asked for.
EventsRows(r) ==
  [Blank EXCEPT !.of = "events", !.for = r.for, !.rows = r.for.filter, !.ctl = r.for.filter]

FinOpsRows(r) == [Blank EXCEPT !.of = "finops", !.for = r.for]

EfficiencyRows == [Blank EXCEPT !.of = "efficiency"]
IncidentDetail == [Blank EXCEPT !.of = "incident"]
WasteDetail == [Blank EXCEPT !.of = "wasteDetail"]

\* for.focus: the node from whose list the pod was picked.
PodDetail == [Blank EXCEPT !.of = "podDetail", !.for = [Nothing EXCEPT !.focus = body.for.focus]]

\* What a render writes with its last answer; known: what it asked for is in it.
Rendered(r, known) ==
  CASE r.of = "node" -> NodeRows(r, known)
    [] r.of = "pods" -> PodsRows(r, known)
    [] r.of = "alerts" -> AlertsRows(r)
    [] r.of = "cpu" -> CpuRows(r)
    [] r.of = "mem" -> MemRows(r)
    [] r.of = "waste" -> WasteRows(r, known)
    [] r.of = "events" -> EventsRows(r)
    [] r.of = "finops" -> FinOpsRows(r)

-----------------------------------------------------------------------------
Init ==
  /\ open = FALSE /\ title = "pods" /\ body = Blank
  /\ waiting = [s \in Slots |-> Free]
  /\ focus = NoNode /\ clearNs = FALSE /\ evt = AllRows /\ period \in Periods
  /\ page \in Pages
  /\ overlap = FALSE

\* A render of the events drawer aborts the one before it if that has not got its
\* incidents: what is in flight after that, and what the abort leaves in the body.
Aborted(k, s) == k = "events" /\ waiting[s].of = "events" /\ waiting[s].step = 1
InFlight(k) == {s \in Slots : waiting[s] # Free /\ ~Aborted(k, s)}
AfterAbort(k, shown) == IF \E s \in Slots : Aborted(k, s) THEN Error ELSE shown

\* A call of renderer k, with the body it finds: its synchronous part.
Start(k, asks, shown) ==
  /\ \E s \in Slots \ InFlight(k) :
       waiting' = [t \in Slots |-> IF t = s THEN [of |-> k, step |-> 1, for |-> asks]
                                   ELSE IF Aborted(k, t) THEN Free ELSE waiting[t]]
  /\ body' = AfterAbort(k, shown)

Rerender(k, asks, shown) ==
  /\ Start(k, asks, shown)
  /\ overlap' = (overlap \/ InFlight(k) # {})
  /\ UNCHANGED <<open, title>>

\* Mutant: the old body stays until the new one is there.
OpenDrawerKeeping(k, asks) ==
  /\ open' = TRUE /\ title' = k
  /\ Start(k, asks, body)
  /\ overlap' = (InFlight(k) # {})

\* openDrawer with an asynchronous renderer, and with one that writes at once.
OpenDrawer(k, asks) ==
  /\ open' = TRUE /\ title' = k
  /\ Start(k, asks, Loading)
  /\ overlap' = (InFlight(k) # {})

OpenDetail(k, written) ==
  /\ open' = TRUE /\ title' = k
  /\ body' = written
  /\ overlap' = ((open /\ overlap) \/ InFlight(k) # {})
  /\ UNCHANGED waiting

-----------------------------------------------------------------------------
(* Cards and panel headers of the page. *)

OpenNode(n) ==
  /\ focus' = n /\ clearNs' = FALSE
  /\ OpenDrawer("node", [Nothing EXCEPT !.focus = n])
  /\ UNCHANGED <<evt, period, page>>

OpenEvents ==
  /\ focus' = NoNode /\ clearNs' = FALSE /\ evt' = AllRows
  /\ OpenDrawer("events", EventsAsks(AllRows))
  /\ UNCHANGED <<period, page>>

OpenIncident ==
  /\ OpenDetail("incident", IncidentDetail)
  /\ UNCHANGED <<choices, page>>

OpenPods == OpenDrawer("pods", Nothing) /\ UNCHANGED <<choices, page>>
OpenAlerts == OpenDrawer("alerts", AlertsAsks) /\ UNCHANGED <<choices, page>>
OpenCpu == OpenDrawer("cpu", Nothing) /\ UNCHANGED <<choices, page>>
OpenMem == OpenDrawer("mem", Nothing) /\ UNCHANGED <<choices, page>>
OpenWaste == OpenDrawer("waste", WasteAsks) /\ UNCHANGED <<choices, page>>
OpenEfficiency == OpenDetail("efficiency", EfficiencyRows) /\ UNCHANGED <<choices, page>>

PeriodAtOpen(activeRange) == activeRange

\* The drawer opens with the range of the page's chart, whichever it is.
OpenFinOps ==
  \E activeRange \in Periods :
    /\ period' = PeriodAtOpen(activeRange)
    /\ OpenDrawer("finops", FinOpsAsks(activeRange))
    /\ UNCHANGED <<focus, clearNs, evt, page>>

OpenFromPage ==
  /\ ~open
  /\ \/ \E n \in Nodes \cup {NoNode} : OpenNode(n)
     \/ OpenEvents
     \/ OpenIncident
     \/ OpenPods
     \/ OpenAlerts
     \/ OpenCpu
     \/ OpenMem
     \/ OpenWaste
     \/ OpenEfficiency
     \/ OpenFinOps

ChangePage ==
  /\ ~open
  /\ page' \in Pages
  /\ UNCHANGED <<open, title, body, waiting, choices, overlap>>

Close ==
  /\ open
  /\ open' = FALSE
  /\ UNCHANGED <<title, body, waiting, choices, page, overlap>>

-----------------------------------------------------------------------------
(* Controls inside the body, which act for the drawer that wrote it. *)

\* Mutant: the handler is on the controls of the first render and not on later ones.
ChangeFilterUnheard ==
  /\ open /\ body.of \in Live
  /\ \E f \in Filters \ {body.ctl} : body' = [body EXCEPT !.ctl = f]
  /\ UNCHANGED <<open, title, waiting, choices, page, overlap>>

ChangeFilter ==
  /\ open /\ body.of \in Live
  /\ \E f \in Filters \ {body.ctl} :
       Rerender(body.of, IF body.of = "waste" THEN WasteAsks ELSE Nothing,
                [body EXCEPT !.ctl = f])
  /\ UNCHANGED <<choices, page>>

ChangeEventsFilter ==
  /\ open /\ body.of = "events"
  /\ \E f \in Filters \ {body.ctl} :
       /\ evt' = f
       /\ Rerender("events", EventsAsks(f), [body EXCEPT !.ctl = f])
  /\ UNCHANGED <<focus, clearNs, period, page>>

\* The select shows the period of the rows until the user changes it.
ChangePeriod ==
  /\ open /\ body.of = "finops"
  /\ \E p \in Periods :
       /\ period' = p
       /\ Rerender("finops", FinOpsAsks(p), body)
  /\ UNCHANGED <<focus, clearNs, evt, page>>

\* attachSortHandlers, on the tables that have sortable columns.
ClickHeader ==
  /\ open
  /\ \/ body.of = "node" /\ body.for.focus # NoNode /\ Rerender("node", NodeAsks, body)
     \/ body.of \in Live \ {"waste"} /\ Rerender(body.of, Nothing, body)
     \/ body.of = "waste" /\ Rerender("waste", WasteAsks, body)
     \/ body.of = "events" /\ Rerender("events", EventsAsks(evt), body)
     \/ body.of = "finops" /\ Rerender("finops", FinOpsAsks(period), body)
  /\ UNCHANGED <<choices, page>>

\* Cards are shown in the list of nodes, and when the node asked for is not known.
PickNode ==
  /\ open /\ body.of = "node"
  /\ body.for.focus = NoNode \/ body.lost
  /\ \E n \in Nodes : OpenNode(n)

BackToNodes ==
  /\ open /\ body.of = "node" /\ body.for.focus # NoNode
  /\ OpenNode(NoNode)

ClearNsFilter ==
  /\ open /\ body.of = "node" /\ body.for.focus # NoNode /\ body.for.ns # AllNs
  /\ clearNs' = TRUE
  /\ Rerender("node", NodeAsks, body)
  /\ UNCHANGED <<focus, evt, period, page>>

PickPod ==
  /\ open /\ body.of = "node" /\ body.for.focus # NoNode
  /\ OpenDetail("podDetail", PodDetail)
  /\ UNCHANGED <<choices, page>>

BackToNode ==
  /\ open /\ body.of = "podDetail" /\ focus # NoNode
  /\ OpenNode(focus)

PickIncident ==
  /\ open /\ body.of = "events"
  /\ OpenIncident

BackToEvents ==
  /\ open /\ body.of = "incident"
  /\ OpenEvents

\* The detail replaces the body only, the way back re-renders the list.
PickWaste ==
  /\ open /\ body.of = "waste"
  /\ body' = WasteDetail
  /\ UNCHANGED <<open, title, waiting, choices, page, overlap>>

BackToWaste ==
  /\ open /\ body.of = "wasteDetail"
  /\ Rerender("waste", WasteAsks, body)
  /\ UNCHANGED <<choices, page>>

UseBody ==
  \/ ChangeFilter
  \/ ChangeEventsFilter
  \/ ChangePeriod
  \/ ClickHeader
  \/ PickNode
  \/ BackToNodes
  \/ ClearNsFilter
  \/ PickPod
  \/ BackToNode
  \/ PickIncident
  \/ BackToEvents
  \/ PickWaste
  \/ BackToWaste

-----------------------------------------------------------------------------
(* Answers, in any order. *)

\* Every answer but the last only starts the next request.
Advance(s) ==
  /\ waiting[s].of \in Async /\ waiting[s].step < Fetches(waiting[s].of)
  /\ waiting' = [waiting EXCEPT ![s].step = 2, ![s].for = AsksNext(waiting[s])]
  /\ UNCHANGED <<open, title, body, choices, page, overlap>>

Finish(s) ==
  /\ waiting[s].of \in Async /\ waiting[s].step = Fetches(waiting[s].of)
  /\ \E known \in BOOLEAN : body' = Rendered(waiting[s], known)
  /\ waiting' = [waiting EXCEPT ![s] = Free]
  /\ UNCHANGED <<open, title, choices, page, overlap>>

\* Mutant: errors are only logged, as in the panels of the page.
AfterErrorLogged == body

\* The catch of every renderer.  Of the FinOps drawer too: a forecast that the network
\* loses is done without, but a refused history is found out when both answers are in.
AfterError == Error

Fail(s) ==
  /\ waiting[s].of \in Async
  /\ body' = AfterError
  /\ waiting' = [waiting EXCEPT ![s] = Free]
  /\ UNCHANGED <<open, title, choices, page, overlap>>

Next ==
  \/ OpenFromPage
  \/ ChangePage
  \/ Close
  \/ UseBody
  \/ \E s \in Slots : Advance(s) \/ Finish(s) \/ Fail(s)

Spec == Init /\ [][Next]_vars

-----------------------------------------------------------------------------
TypeOK ==
  /\ open \in BOOLEAN /\ title \in Titles
  /\ body \in Body
  /\ waiting \in [Slots -> Request \cup {Free}]
  /\ focus \in Nodes \cup {NoNode} /\ clearNs \in BOOLEAN
  /\ evt \in Filters /\ period \in Periods
  /\ page \in Pages
  /\ overlap \in BOOLEAN

Idle == \A s \in Slots : waiting[s] = Free

\* A drawer that says Loading has a render in flight that will end in rows or in an
\* error: no abort, failure, close or change of drawer leaves it loading for ever.
LoadingIsPending == body.of = "loading" /\ open => ~Idle

\* The drawers that read their controls after the last answer (pods, CPU, memory,
\* waste) never keep rows for a setting their controls have left, however their renders
\* overtake each other: either one is still to come, or the answer has lost the option.
FiltersAgree ==
  body.of \in Live /\ body.rows # body.ctl =>
    body.lost \/ \E s \in Slots : waiting[s].of = body.of

\* The rows are those of what is chosen now, on the page and in the drawer.
Current ==
  CASE body.of = "node" -> body.for.focus = focus
    [] body.of = "alerts" -> body.for.sys = page.sys /\ body.for.ns = page.ns
    [] body.of \in {"cpu", "mem", "waste"} -> body.for.ns = page.ns
    [] body.of = "events" -> body.rows = evt
    [] body.of = "finops" -> body.for = FinOpsAsks(period)
    [] body.of = "podDetail" -> body.for.focus = focus
    [] OTHER -> TRUE

TitleOf(k) == IF k = "wasteDetail" THEN "waste" ELSE k

\* An open drawer has the body its title names, and once nothing is in flight it shows
\* what is chosen now, unless it was opened or re-rendered over a render that was
\* still in flight.  The renderers do not check whom they write for: this says exactly
\* when that can show.
ShowsCurrent ==
  open /\ ~overlap /\ body.of \notin {"loading", "error"} =>
    /\ TitleOf(body.of) = title
    /\ Idle => Current

\* A late answer does not take back what the user has set in the controls, short of an
\* error or an option that the answer no longer has.
AnswersKeepControls ==
  [][(body.of \in Live /\ body'.of = body.of /\ body'.ctl # body.ctl)
       => ChangeFilter \/ body'.lost]_vars
=============================================================================
