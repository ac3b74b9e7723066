--------------------------- MODULE DrawersProofs ----------------------------
(***************************************************************************)
(* Drawers for any nodes, namespaces, filters and periods, and any number  *)
(* of renders in flight.                                                   *)
(*                                                                         *)
(* ShowsCurrent needs to know what is still to be written: a drawer that   *)
(* was not opened or rendered over a render in flight has at most one      *)
(* render in flight, which is its own and has taken what is chosen now     *)
(* (Flight), because the page cannot be reached under an open drawer and   *)
(* each of its own controls renders it again.                              *)
(***************************************************************************)
EXTENDS Drawers, TLAPS

\* A request of a render of k is for what is chosen.
Fits(k, asks, chosenFocus, chosenEvt, chosenPeriod, settings) ==
  /\ k = "node" => asks.focus = chosenFocus
  /\ k = "alerts" => asks.sys = settings.sys
  /\ k = "waste" => asks.ns = settings.ns
  /\ k = "events" => asks.filter = chosenEvt
  /\ k = "finops" =>
       asks = [Nothing EXCEPT !.period = chosenPeriod,
                              !.ns = IF settings.tile # AllNs THEN settings.tile ELSE settings.ns,
                              !.sys = settings.sys]

Flight ==
  open /\ ~overlap =>
    \A s \in Slots : waiting[s] # Free =>
      /\ waiting[s].of = title
      /\ Fits(title, waiting[s].for, focus, evt, period, page)
      /\ title \in {"cpu", "mem"} /\ waiting[s].step = 2 => waiting[s].for.ns = page.ns
      /\ \A t \in Slots : waiting[t] # Free => t = s

Inv == TypeOK /\ LoadingIsPending /\ FiltersAgree /\ Flight /\ ShowsCurrent

-----------------------------------------------------------------------------
(* Requests and bodies. *)

LEMMA AskedFacts ==
  ASSUME TypeOK
  PROVE  /\ page.ns \in Namespaces \cup {AllNs} /\ page.sys \in BOOLEAN
         /\ ChartNs \in Namespaces \cup {AllNs}
         /\ Nothing \in Asked
         /\ \A n \in Nodes \cup {NoNode} : [Nothing EXCEPT !.focus = n] \in Asked
         /\ \A n \in Namespaces \cup {AllNs} : [Nothing EXCEPT !.ns = n] \in Asked
         /\ \A f \in Filters : [Nothing EXCEPT !.filter = f] \in Asked
         /\ \A b \in BOOLEAN : [Nothing EXCEPT !.sys = b] \in Asked
         /\ \A p \in Periods : FinOpsAsks(p) \in Asked
         /\ Blank \in Body
<1>1. page \in PageSettings /\ AllRows \in Filters
  BY DrawersAssumption DEF TypeOK
<1>2. /\ page.ns \in Namespaces \cup {AllNs} /\ page.sys \in BOOLEAN
      /\ page.tile \in Namespaces \cup {AllNs}
  BY <1>1 DEF PageSettings
<1>3. ChartNs \in Namespaces \cup {AllNs}
  BY <1>2 DEF ChartNs
<1>4. Nothing \in Asked
  BY <1>1 DEF Nothing, Asked
<1>5. /\ \A n \in Nodes \cup {NoNode} : [Nothing EXCEPT !.focus = n] \in Asked
      /\ \A n \in Namespaces \cup {AllNs} : [Nothing EXCEPT !.ns = n] \in Asked
      /\ \A f \in Filters : [Nothing EXCEPT !.filter = f] \in Asked
      /\ \A b \in BOOLEAN : [Nothing EXCEPT !.sys = b] \in Asked
  BY <1>4 DEF Asked
<1>6. \A p \in Periods : FinOpsAsks(p) \in Asked
  BY <1>2, <1>3, <1>4 DEF FinOpsAsks, Asked
<1>7. Blank \in Body
  BY <1>1, <1>4 DEF Blank, Body
<1>8. QED
  BY <1>2, <1>3, <1>4, <1>5, <1>6, <1>7

LEMMA ToolbarFacts ==
  ASSUME TypeOK, NEW k
  PROVE  Toolbar(k) \in Filters /\ AllRows \in Filters
  BY DrawersAssumption DEF TypeOK, Body, Toolbar

\* What the last answer of a render writes: its own rows, selected by what it asked for
\* or by the controls it finds.
LEMMA RenderedFacts ==
  ASSUME TypeOK, NEW r \in Request, NEW known \in BOOLEAN
  PROVE  /\ Rendered(r, known) \in Body
         /\ Rendered(r, known).of = r.of
         /\ r.of \in Live =>
              /\ Rendered(r, known).rows = Toolbar(r.of)
              /\ Rendered(r, known).ctl = Toolbar(r.of) \/ Rendered(r, known).lost
         /\ r.of = "node" => Rendered(r, known).for.focus = r.for.focus
         /\ r.of = "alerts" =>
              Rendered(r, known).for.sys = r.for.sys /\ Rendered(r, known).for.ns = page.ns
         /\ r.of \in {"cpu", "mem", "waste"} => Rendered(r, known).for.ns = r.for.ns
         /\ r.of = "events" => Rendered(r, known).rows = r.for.filter
         /\ r.of = "finops" => Rendered(r, known).for = r.for
<1>1. r.of \in Async /\ r.for \in Asked
  BY DEF Request
<1>2. Blank \in Body /\ page.ns \in Namespaces \cup {AllNs}
  BY AskedFacts
<1>3. Blank.lost = FALSE
  BY DEF Blank
<1>4. ASSUME NEW k \in Live, NEW offered \in BOOLEAN
      PROVE  /\ LiveRows(k, r, offered) \in Body
             /\ LiveRows(k, r, offered).of = k /\ LiveRows(k, r, offered).for = r.for
             /\ LiveRows(k, r, offered).rows = Toolbar(k)
             /\ LiveRows(k, r, offered).ctl = Toolbar(k) \/ LiveRows(k, r, offered).lost
  <2>1. k \in Async /\ Toolbar(k) \in Filters /\ AllRows \in Filters
    BY ToolbarFacts DEF Async
  <2>2. (~offered /\ Toolbar(k) # AllRows) \in BOOLEAN
    OBVIOUS
  <2>3. LiveRows(k, r, offered) \in Body
    BY <1>1, <1>2, <2>1, <2>2 DEF LiveRows, Body
  <2>4. /\ LiveRows(k, r, offered).of = k /\ LiveRows(k, r, offered).for = r.for
        /\ LiveRows(k, r, offered).rows = Toolbar(k)
    BY <1>2 DEF LiveRows, Body
  <2>5. LiveRows(k, r, offered).ctl = Toolbar(k) \/ LiveRows(k, r, offered).lost
    <3>1. CASE offered \/ Toolbar(k) = AllRows
      BY <1>2, <3>1 DEF LiveRows, Body
    <3>2. CASE ~offered /\ Toolbar(k) # AllRows
      BY <1>2, <3>2 DEF LiveRows, Body
    <3>3. QED
      BY <3>1, <3>2
  <2>6. QED
    BY <2>3, <2>4, <2>5
<1>5. CASE r.of \in Live
  <2>1. \E offered \in BOOLEAN : Rendered(r, known) = LiveRows(r.of, r, offered)
    BY <1>5 DEF Live, Rendered, PodsRows, CpuRows, MemRows, WasteRows
  <2>2. r.of \notin {"node", "alerts", "events", "finops"}
    BY <1>5 DEF Live
  <2>3. QED
    BY <1>4, <1>5, <2>1, <2>2
<1>6. CASE r.of = "node"
  <2>1. Rendered(r, known) = NodeRows(r, known)
    BY <1>6 DEF Rendered
  <2>2. (IF clearNs THEN AllNs ELSE page.ns) \in Namespaces \cup {AllNs}
    BY <1>2
  <2>3. [r.for EXCEPT !.ns = IF clearNs THEN AllNs ELSE page.ns] \in Asked
    BY <1>1, <2>2 DEF Asked
  <2>4. (r.for.focus # NoNode /\ ~known) \in BOOLEAN
    OBVIOUS
  <2>5. NodeRows(r, known) \in Body
    BY <1>2, <2>3, <2>4 DEF NodeRows, Body, Async
  <2>6. NodeRows(r, known).of = "node" /\ NodeRows(r, known).for.focus = r.for.focus
    BY <1>1, <1>2 DEF NodeRows, Body, Asked
  <2>7. QED
    BY <1>6, <2>1, <2>5, <2>6 DEF Live
<1>7. CASE r.of = "alerts"
  <2>1. Rendered(r, known) = AlertsRows(r)
    BY <1>7 DEF Rendered
  <2>2. [r.for EXCEPT !.ns = page.ns] \in Asked
    BY <1>1, <1>2 DEF Asked
  <2>3. AlertsRows(r) \in Body
    BY <1>2, <2>2 DEF AlertsRows, Body, Async
  <2>4. /\ AlertsRows(r).of = "alerts"
        /\ AlertsRows(r).for.sys = r.for.sys /\ AlertsRows(r).for.ns = page.ns
    BY <1>1, <1>2 DEF AlertsRows, Body, Asked
  <2>5. QED
    BY <1>7, <2>1, <2>3, <2>4 DEF Live
<1>8. CASE r.of = "events"
  <2>1. Rendered(r, known) = EventsRows(r)
    BY <1>8 DEF Rendered
  <2>2. r.for.filter \in Filters
    BY <1>1 DEF Asked
  <2>3. EventsRows(r) \in Body
    BY <1>1, <1>2, <2>2 DEF EventsRows, Body, Async
  <2>4. EventsRows(r).of = "events" /\ EventsRows(r).rows = r.for.filter
    BY <1>2 DEF EventsRows, Body
  <2>5. QED
    BY <1>8, <2>1, <2>3, <2>4 DEF Live
<1>9. CASE r.of = "finops"
  <2>1. Rendered(r, known) = FinOpsRows(r)
    BY <1>9 DEF Rendered
  <2>2. FinOpsRows(r) \in Body
    BY <1>1, <1>2 DEF FinOpsRows, Body, Async
  <2>3. FinOpsRows(r).of = "finops" /\ FinOpsRows(r).for = r.for
    BY <1>2 DEF FinOpsRows, Body
  <2>4. QED
    BY <1>9, <2>1, <2>2, <2>3 DEF Live
<1>10. QED
  BY <1>1, <1>5, <1>6, <1>7, <1>8, <1>9 DEF Async

\* A render starts in a free slot; those of the events drawer may take others away.
LEMMA StartFacts ==
  ASSUME TypeOK, NEW k \in Async, NEW asks \in Asked, NEW shown \in Body, Start(k, asks, shown)
  PROVE  /\ waiting' \in [Slots -> Request \cup {Free}]
         /\ body' \in Body /\ body' \in {shown, Error}
         /\ \E s \in Slots :
              /\ waiting'[s] = [of |-> k, step |-> 1, for |-> asks]
              /\ waiting'[s] # Free
              /\ InFlight(k) = {} => \A t \in Slots : waiting'[t] # Free => t = s
<1>1. PICK s \in Slots \ InFlight(k) :
        waiting' = [t \in Slots |-> IF t = s THEN [of |-> k, step |-> 1, for |-> asks]
                                    ELSE IF Aborted(k, t) THEN Free ELSE waiting[t]]
  BY DEF Start
<1>2. [of |-> k, step |-> 1, for |-> asks] \in Request
  BY DEF Request
<1>3. waiting' \in [Slots -> Request \cup {Free}]
  BY <1>1, <1>2 DEF TypeOK
<1>4. body' \in {shown, Error} /\ Error \in Body
  <2>1. Blank \in Body
    BY AskedFacts
  <2>2. Error \in Body
    BY <2>1 DEF Error, Body
  <2>3. QED
    BY <2>2 DEF Start, AfterAbort
<1>5. [of |-> k, step |-> 1, for |-> asks] # Free
  BY DEF Free, Async, Live
<1>6. ASSUME InFlight(k) = {}, NEW t \in Slots, waiting'[t] # Free
      PROVE  t = s
  BY <1>1, <1>6 DEF InFlight
<1>7. QED
  BY <1>1, <1>3, <1>4, <1>5, <1>6

-----------------------------------------------------------------------------
(* Steps that start a render, and those that write at once. *)

LEMMA OpenDrawerStep ==
  ASSUME Inv, NEW k \in Async, NEW asks \in Asked, OpenDrawer(k, asks), page' = page,
         focus' \in Nodes \cup {NoNode}, clearNs' \in BOOLEAN, evt' \in Filters,
         period' \in Periods, Fits(k, asks, focus', evt', period', page')
  PROVE  Inv'
<1> USE DEF Inv
<1>1. /\ open' = TRUE /\ title' = k /\ Start(k, asks, Loading)
      /\ overlap' = (InFlight(k) # {})
  BY DEF OpenDrawer
<1>2. Loading \in Body /\ Loading.of = "loading" /\ Error.of = "error"
  BY AskedFacts DEF Loading, Blank, Error
<1>3. PICK s \in Slots :
        /\ waiting'[s] = [of |-> k, step |-> 1, for |-> asks] /\ waiting'[s] # Free
        /\ InFlight(k) = {} => \A t \in Slots : waiting'[t] # Free => t = s
  BY <1>1, <1>2, StartFacts
<1>4. body' \in Body /\ body'.of \in {"loading", "error"}
      /\ waiting' \in [Slots -> Request \cup {Free}]
  BY <1>1, <1>2, StartFacts
<1>5. TypeOK'
  BY <1>1, <1>4 DEF TypeOK, Titles, Async, Detail, Live
<1>6. LoadingIsPending'
  BY <1>3 DEF LoadingIsPending, Idle
<1>7. FiltersAgree' /\ ShowsCurrent'
  BY <1>4 DEF FiltersAgree, ShowsCurrent, Live
<1>8. Flight'
  <2>1. ~overlap' => InFlight(k) = {}
    BY <1>1
  <2>2. waiting'[s].of = k /\ waiting'[s].step = 1 /\ waiting'[s].for = asks
    BY <1>3
  <2>3. QED
    BY <1>1, <1>3, <2>1, <2>2 DEF Flight
<1>9. QED
  BY <1>5, <1>6, <1>7, <1>8

LEMMA RerenderStep ==
  ASSUME Inv, NEW k \in Async, NEW asks \in Asked, NEW shown \in Body, shown.of = body.of,
         Rerender(k, asks, shown), body.of \notin {"loading", "error"}, TitleOf(body.of) = k,
         open, page' = page,
         focus' \in Nodes \cup {NoNode}, clearNs' \in BOOLEAN, evt' \in Filters,
         period' \in Periods, Fits(k, asks, focus', evt', period', page')
  PROVE  Inv'
<1> USE DEF Inv
<1>1. /\ Start(k, asks, shown) /\ UNCHANGED <<open, title>>
      /\ overlap' = (overlap \/ InFlight(k) # {})
  BY DEF Rerender
<1>2. Error.of = "error"
  BY DEF Blank, Error
<1>3. PICK s \in Slots :
        /\ waiting'[s] = [of |-> k, step |-> 1, for |-> asks] /\ waiting'[s] # Free
        /\ InFlight(k) = {} => \A t \in Slots : waiting'[t] # Free => t = s
  BY <1>1, StartFacts
<1>4. body' \in Body /\ body'.of \in {body.of, "error"}
      /\ waiting' \in [Slots -> Request \cup {Free}]
  BY <1>1, <1>2, StartFacts
<1>5. overlap' \in BOOLEAN /\ (~overlap' => ~overlap /\ InFlight(k) = {})
  BY <1>1
<1>6. TypeOK'
  BY <1>1, <1>4, <1>5 DEF TypeOK
<1>7. LoadingIsPending'
  BY <1>3 DEF LoadingIsPending, Idle
<1>8. FiltersAgree'
  BY <1>3, <1>4 DEF FiltersAgree, TitleOf, Live
<1>9. ~overlap => title = k
  BY DEF ShowsCurrent
<1>10. Flight'
  BY <1>1, <1>3, <1>5, <1>9 DEF Flight
<1>11. ShowsCurrent'
  BY <1>1, <1>3, <1>4, <1>5, <1>9 DEF ShowsCurrent, Idle
<1>12. QED
  BY <1>6, <1>7, <1>8, <1>10, <1>11

LEMMA OpenDetailStep ==
  ASSUME Inv, NEW k \in Titles \ Async, NEW written \in Body, written.of = k,
         OpenDetail(k, written), UNCHANGED <<choices, page>>,
         k = "podDetail" =>
           open /\ body.of = "node" /\ written.for.focus = body.for.focus
  PROVE  Inv'
<1> USE DEF Inv
<1>1. /\ open' = TRUE /\ title' = k /\ body' = written /\ waiting' = waiting
      /\ overlap' = ((open /\ overlap) \/ InFlight(k) # {})
      /\ UNCHANGED <<focus, clearNs, evt, period, page>>
  BY DEF OpenDetail, choices
<1>2. k \in {"efficiency", "incident", "podDetail"}
  BY DEF Titles, Async, Detail
<1>3. overlap' \in BOOLEAN /\ (~overlap' => (open => ~overlap) /\ InFlight(k) = {})
  BY <1>1
<1>4. ~overlap' => Idle
  BY <1>2, <1>3 DEF InFlight, Aborted, Idle
<1>5. TypeOK'
  BY <1>1, <1>3 DEF TypeOK
<1>6. LoadingIsPending' /\ FiltersAgree'
  BY <1>1, <1>2 DEF LoadingIsPending, FiltersAgree, Live
<1>7. Flight'
  BY <1>1, <1>4 DEF Flight, Idle
<1>8. ShowsCurrent'
  <2>1. TitleOf(k) = k
    BY <1>2 DEF TitleOf
  <2>2. ASSUME ~overlap', k = "podDetail"
        PROVE  written.for.focus = focus
    <3>1. Current
      BY <1>3, <1>4, <2>2 DEF ShowsCurrent
    <3>2. QED
      BY <2>2, <3>1 DEF Current
  <2>3. ~overlap' => Current'
    BY <1>1, <1>2, <2>2 DEF Current
  <2>4. QED
    BY <1>1, <2>1, <2>3 DEF ShowsCurrent
<1>9. QED
  BY <1>5, <1>6, <1>7, <1>8

-----------------------------------------------------------------------------
(* What the page and the body offer. *)

\* What stays when a step changes only the drawer.
LEMMA StillChosen ==
  ASSUME Inv, UNCHANGED choices
  PROVE  /\ focus' \in Nodes \cup {NoNode} /\ clearNs' \in BOOLEAN /\ evt' \in Filters
         /\ period' \in Periods
         /\ focus' = focus /\ evt' = evt /\ period' = period
  BY DEF Inv, TypeOK, choices

\* What the renderers ask for is what is chosen.
LEMMA AsksFit ==
  ASSUME NEW n, NEW f, NEW p
  PROVE  /\ \A e, q : Fits("node", [Nothing EXCEPT !.focus = n], n, e, q, page)
         /\ \A m, e, q : Fits("alerts", AlertsAsks, m, e, q, page)
         /\ \A m, e, q : Fits("waste", WasteAsks, m, e, q, page)
         /\ \A m, q : Fits("events", EventsAsks(f), m, f, q, page)
         /\ \A m, e : Fits("finops", FinOpsAsks(p), m, e, p, page)
         /\ \A m, e, q : \A k \in {"pods", "cpu", "mem"} : Fits(k, Nothing, m, e, q, page)
<1>1. [Nothing EXCEPT !.focus = n].focus = n
  BY DEF Nothing
<1>2. AlertsAsks.sys = page.sys /\ WasteAsks.ns = page.ns /\ EventsAsks(f).filter = f
  BY DEF Nothing, AlertsAsks, WasteAsks, EventsAsks
<1>3. FinOpsAsks(p) =
        [Nothing EXCEPT !.period = p, !.ns = IF page.tile # AllNs THEN page.tile ELSE page.ns,
                        !.sys = page.sys]
  BY DEF FinOpsAsks, ChartNs
<1>4. QED
  BY <1>1, <1>2, <1>3 DEF Fits

LEMMA OpenNodeStep ==
  ASSUME Inv, NEW n \in Nodes \cup {NoNode}, OpenNode(n)
  PROVE  Inv'
<1>1. /\ focus' = n /\ clearNs' = FALSE /\ UNCHANGED <<evt, period, page>>
      /\ OpenDrawer("node", [Nothing EXCEPT !.focus = n])
  BY DEF OpenNode
<1>2. TypeOK /\ [Nothing EXCEPT !.focus = n] \in Asked /\ "node" \in Async
  BY AskedFacts DEF Inv, Async
<1>3. evt' \in Filters /\ period' \in Periods /\ clearNs' \in BOOLEAN
  BY <1>1, <1>2 DEF TypeOK
<1>4. Fits("node", [Nothing EXCEPT !.focus = n], focus', evt', period', page')
  BY <1>1, AsksFit
<1>5. QED
  BY <1>1, <1>2, <1>3, <1>4, OpenDrawerStep

LEMMA OpenEventsStep ==
  ASSUME Inv, OpenEvents
  PROVE  Inv'
<1>1. /\ focus' = NoNode /\ clearNs' = FALSE /\ evt' = AllRows /\ UNCHANGED <<period, page>>
      /\ OpenDrawer("events", EventsAsks(AllRows))
  BY DEF OpenEvents
<1>2. TypeOK /\ AllRows \in Filters /\ "events" \in Async
  BY DrawersAssumption DEF Inv, Async
<1>3. EventsAsks(AllRows) \in Asked
  BY <1>2, AskedFacts DEF EventsAsks
<1>4. period' \in Periods /\ clearNs' \in BOOLEAN /\ focus' \in Nodes \cup {NoNode}
  BY <1>1, <1>2 DEF TypeOK
<1>5. Fits("events", EventsAsks(AllRows), focus', evt', period', page')
  BY <1>1, AsksFit
<1>6. QED
  BY <1>1, <1>2, <1>3, <1>4, <1>5, OpenDrawerStep

LEMMA OpenIncidentStep ==
  ASSUME Inv, OpenIncident
  PROVE  Inv'
<1>1. OpenDetail("incident", IncidentDetail) /\ UNCHANGED <<choices, page>>
  BY DEF OpenIncident
<1>2. Blank \in Body
  BY AskedFacts DEF Inv
<1>3. IncidentDetail \in Body /\ IncidentDetail.of = "incident"
  BY <1>2 DEF IncidentDetail, Body, Detail
<1>4. "incident" \in Titles \ Async
  BY DEF Titles, Async, Live, Detail
<1>5. QED
  BY <1>1, <1>3, <1>4, OpenDetailStep

LEMMA OpenFromPageStep ==
  ASSUME Inv, OpenFromPage
  PROVE  Inv'
<1> USE DEF Inv
<1>1. ASSUME NEW k \in Async, NEW asks \in Asked, OpenDrawer(k, asks), UNCHANGED <<choices, page>>,
             Fits(k, asks, focus, evt, period, page)
      PROVE  Inv'
  BY <1>1, StillChosen, OpenDrawerStep
<1>2. {"pods", "alerts", "cpu", "mem", "waste", "finops"} \subseteq Async
  BY DEF Async, Live
<1>3. Nothing \in Asked /\ AlertsAsks \in Asked /\ WasteAsks \in Asked
  BY AskedFacts DEF AlertsAsks, WasteAsks
<1>4. CASE OpenPods \/ OpenCpu \/ OpenMem
  <2>1. PICK k \in {"pods", "cpu", "mem"} :
          OpenDrawer(k, Nothing) /\ UNCHANGED <<choices, page>>
    BY <1>4 DEF OpenPods, OpenCpu, OpenMem
  <2>2. Fits(k, Nothing, focus, evt, period, page)
    BY AsksFit
  <2>3. QED
    BY <1>1, <1>2, <1>3, <2>1, <2>2
<1>5. CASE OpenAlerts
  BY <1>1, <1>2, <1>3, <1>5, AsksFit DEF OpenAlerts
<1>6. CASE OpenWaste
  BY <1>1, <1>2, <1>3, <1>6, AsksFit DEF OpenWaste
<1>7. CASE OpenEfficiency
  <2>1. OpenDetail("efficiency", EfficiencyRows) /\ UNCHANGED <<choices, page>>
    BY <1>7 DEF OpenEfficiency
  <2>2. EfficiencyRows \in Body /\ EfficiencyRows.of = "efficiency"
    BY AskedFacts DEF EfficiencyRows, Body, Detail
  <2>3. "efficiency" \in Titles \ Async
    BY DEF Titles, Async, Live, Detail
  <2>4. QED
    BY <2>1, <2>2, <2>3, OpenDetailStep
<1>8. CASE OpenFinOps
  <2>1. PICK p \in Periods : /\ period' = p /\ OpenDrawer("finops", FinOpsAsks(p))
                             /\ UNCHANGED <<focus, clearNs, evt, page>>
    BY <1>8 DEF OpenFinOps, PeriodAtOpen
  <2>2. FinOpsAsks(p) \in Asked
    BY AskedFacts
  <2>3. /\ focus' \in Nodes \cup {NoNode} /\ clearNs' \in BOOLEAN /\ evt' \in Filters
        /\ period' \in Periods
    BY <2>1 DEF TypeOK
  <2>4. Fits("finops", FinOpsAsks(p), focus', evt', period', page')
    BY <2>1, AsksFit
  <2>5. QED
    BY <1>2, <2>1, <2>2, <2>3, <2>4, OpenDrawerStep
<1>9. QED
  BY <1>4, <1>5, <1>6, <1>7, <1>8, OpenNodeStep, OpenEventsStep, OpenIncidentStep
     DEF OpenFromPage

\* A control of an open drawer that renders it again with what is chosen.
LEMMA ControlStep ==
  ASSUME Inv, NEW k \in Async, NEW asks \in Asked, NEW shown \in Body, shown.of = body.of,
         Rerender(k, asks, shown), TitleOf(body.of) = k, open, UNCHANGED <<choices, page>>,
         Fits(k, asks, focus, evt, period, page)
  PROVE  Inv'
<1>1. body.of \notin {"loading", "error"}
  BY DEF TitleOf, Async, Live
<1>2. QED
  BY <1>1, StillChosen, RerenderStep

LEMMA UseBodyStep ==
  ASSUME Inv, UseBody
  PROVE  Inv'
<1> USE DEF Inv
<1>1. body \in Body /\ Nothing \in Asked /\ WasteAsks \in Asked /\ Blank \in Body
  BY AskedFacts DEF TypeOK, WasteAsks
<1>2. Live \subseteq Async /\ {"node", "events", "finops", "waste"} \subseteq Async
  BY DEF Async, Live
<1>3. \A f \in Filters : [body EXCEPT !.ctl = f] \in Body /\ [body EXCEPT !.ctl = f].of = body.of
  BY <1>1 DEF Body
<1>4. ASSUME NEW shown \in Body, shown.of = body.of, open, UNCHANGED <<choices, page>>,
             body.of \in Live,
             Rerender(body.of, IF body.of = "waste" THEN WasteAsks ELSE Nothing, shown)
      PROVE  Inv'
  <2>1. PICK k \in Live : k = body.of
    BY <1>4
  <2>2. k \in Async /\ TitleOf(body.of) = k
    BY <1>2, <2>1 DEF TitleOf, Live
  <2>3. CASE k = "waste"
    BY <1>1, <1>4, <2>1, <2>2, <2>3, AsksFit, ControlStep
  <2>4. CASE k # "waste"
    <3>1. Fits(k, Nothing, focus, evt, period, page)
      BY <2>4, AsksFit DEF Live
    <3>2. Rerender(k, Nothing, shown)
      BY <1>4, <2>1, <2>4
    <3>3. QED
      BY <1>1, <1>4, <2>2, <3>1, <3>2, ControlStep
  <2>5. QED
    BY <2>3, <2>4
<1>5. CASE ChangeFilter
  <2>1. PICK f \in Filters :
          Rerender(body.of, IF body.of = "waste" THEN WasteAsks ELSE Nothing, [body EXCEPT !.ctl = f])
    BY <1>5 DEF ChangeFilter
  <2>2. QED
    BY <1>3, <1>4, <1>5, <2>1 DEF ChangeFilter
<1>6. CASE ChangeEventsFilter
  <2>1. PICK f \in Filters :
          evt' = f /\ Rerender("events", EventsAsks(f), [body EXCEPT !.ctl = f])
    BY <1>6 DEF ChangeEventsFilter
  <2>2. open /\ body.of = "events" /\ UNCHANGED <<focus, clearNs, period, page>>
    BY <1>6 DEF ChangeEventsFilter
  <2>3. EventsAsks(f) \in Asked
    BY AskedFacts DEF EventsAsks
  <2>4. focus' \in Nodes \cup {NoNode} /\ clearNs' \in BOOLEAN /\ period' \in Periods
    BY <2>2 DEF TypeOK
  <2>5. Fits("events", EventsAsks(f), focus', evt', period', page')
    BY <2>1, <2>2, AsksFit
  <2>6. TitleOf(body.of) = "events"
    BY <2>2 DEF TitleOf
  <2>7. QED
    BY <1>2, <1>3, <2>1, <2>2, <2>3, <2>4, <2>5, <2>6, RerenderStep
<1>7. CASE ChangePeriod
  <2>1. PICK p \in Periods : period' = p /\ Rerender("finops", FinOpsAsks(p), body)
    BY <1>7 DEF ChangePeriod
  <2>2. open /\ body.of = "finops" /\ UNCHANGED <<focus, clearNs, evt, page>>
    BY <1>7 DEF ChangePeriod
  <2>3. FinOpsAsks(p) \in Asked
    BY AskedFacts
  <2>4. focus' \in Nodes \cup {NoNode} /\ clearNs' \in BOOLEAN /\ evt' \in Filters
    BY <2>2 DEF TypeOK
  <2>5. Fits("finops", FinOpsAsks(p), focus', evt', period', page')
    BY <2>1, <2>2, AsksFit
  <2>6. TitleOf(body.of) = "finops"
    BY <2>2 DEF TitleOf
  <2>7. QED
    BY <1>1, <1>2, <2>1, <2>2, <2>3, <2>4, <2>5, <2>6, RerenderStep
<1>8. CASE ClickHeader
  <2>1. open /\ UNCHANGED <<choices, page>>
    BY <1>8 DEF ClickHeader
  <2>2. CASE body.of = "node" /\ Rerender("node", NodeAsks, body)
    <3>1. NodeAsks \in Asked
      BY AskedFacts DEF NodeAsks, TypeOK
    <3>2. Fits("node", NodeAsks, focus, evt, period, page)
      BY AsksFit DEF NodeAsks
    <3>3. TitleOf(body.of) = "node"
      BY <2>2 DEF TitleOf
    <3>4. QED
      BY <1>1, <1>2, <2>1, <2>2, <3>1, <3>2, <3>3, ControlStep
  <2>3. CASE body.of \in Live \ {"waste"} /\ Rerender(body.of, Nothing, body)
    BY <1>1, <1>4, <2>1, <2>3
  <2>4. CASE body.of = "waste" /\ Rerender("waste", WasteAsks, body)
    BY <1>1, <1>4, <2>1, <2>4 DEF Live
  <2>5. CASE body.of = "events" /\ Rerender("events", EventsAsks(evt), body)
    <3>1. EventsAsks(evt) \in Asked
      BY AskedFacts DEF EventsAsks, TypeOK
    <3>2. Fits("events", EventsAsks(evt), focus, evt, period, page)
      BY AsksFit
    <3>3. TitleOf(body.of) = "events"
      BY <2>5 DEF TitleOf
    <3>4. QED
      BY <1>1, <1>2, <2>1, <2>5, <3>1, <3>2, <3>3, ControlStep
  <2>6. CASE body.of = "finops" /\ Rerender("finops", FinOpsAsks(period), body)
    <3>1. FinOpsAsks(period) \in Asked
      BY AskedFacts DEF TypeOK
    <3>2. Fits("finops", FinOpsAsks(period), focus, evt, period, page)
      BY AsksFit
    <3>3. TitleOf(body.of) = "finops"
      BY <2>6 DEF TitleOf
    <3>4. QED
      BY <1>1, <1>2, <2>1, <2>6, <3>1, <3>2, <3>3, ControlStep
  <2>7. QED
    BY <1>8, <2>2, <2>3, <2>4, <2>5, <2>6 DEF ClickHeader
<1>9. CASE PickNode \/ BackToNodes \/ BackToNode
  <2>1. PICK n \in Nodes \cup {NoNode} : OpenNode(n)
    BY <1>9 DEF PickNode, BackToNodes, BackToNode, TypeOK
  <2>2. QED
    BY <2>1, OpenNodeStep
<1>10. CASE ClearNsFilter
  <2>1. /\ open /\ body.of = "node" /\ clearNs' = TRUE /\ UNCHANGED <<focus, evt, period, page>>
        /\ Rerender("node", NodeAsks, body)
    BY <1>10 DEF ClearNsFilter
  <2>2. NodeAsks \in Asked
    BY AskedFacts DEF NodeAsks, TypeOK
  <2>3. Fits("node", NodeAsks, focus', evt', period', page')
    BY <2>1, AsksFit DEF NodeAsks
  <2>4. TitleOf(body.of) = "node"
    BY <2>1 DEF TitleOf
  <2>5. /\ focus' \in Nodes \cup {NoNode} /\ clearNs' \in BOOLEAN /\ evt' \in Filters
        /\ period' \in Periods
    BY <2>1 DEF TypeOK
  <2>6. QED
    BY <1>1, <1>2, <2>1, <2>2, <2>3, <2>4, <2>5, RerenderStep
<1>11. CASE PickPod
  <2>1. /\ open /\ body.of = "node" /\ OpenDetail("podDetail", PodDetail)
        /\ UNCHANGED <<choices, page>>
    BY <1>11 DEF PickPod
  <2>2. body.for.focus \in Nodes \cup {NoNode}
    BY <1>1 DEF Body, Asked
  <2>3. [Nothing EXCEPT !.focus = body.for.focus] \in Asked
    BY <2>2, AskedFacts
  <2>4. PodDetail \in Body /\ PodDetail.of = "podDetail" /\ PodDetail.for.focus = body.for.focus
    BY <1>1, <2>3 DEF PodDetail, Body, Detail, Nothing
  <2>5. "podDetail" \in Titles \ Async
    BY DEF Titles, Async, Live, Detail
  <2>6. QED
    BY <2>1, <2>4, <2>5, OpenDetailStep
<1>12. CASE PickIncident \/ BackToEvents
  BY <1>12, OpenIncidentStep, OpenEventsStep DEF PickIncident, BackToEvents
<1>13. CASE PickWaste
  <2>1. /\ body.of = "waste" /\ body' = WasteDetail
        /\ UNCHANGED <<open, title, waiting, choices, page, overlap>>
    BY <1>13 DEF PickWaste
  <2>2. WasteDetail \in Body /\ WasteDetail.of = "wasteDetail"
    BY <1>1 DEF WasteDetail, Body, Detail
  <2>3. TypeOK' /\ Flight'
    BY <2>1, <2>2 DEF TypeOK, Flight, choices
  <2>4. LoadingIsPending' /\ FiltersAgree'
    BY <2>1, <2>2 DEF LoadingIsPending, FiltersAgree, Live
  <2>5. open /\ ~overlap => title = "waste"
    BY <2>1 DEF ShowsCurrent, TitleOf
  <2>6. ShowsCurrent'
    BY <2>1, <2>2, <2>5 DEF ShowsCurrent, Current, TitleOf
  <2>7. QED
    BY <2>3, <2>4, <2>6
<1>14. CASE BackToWaste
  <2>1. /\ open /\ body.of = "wasteDetail" /\ Rerender("waste", WasteAsks, body)
        /\ UNCHANGED <<choices, page>>
    BY <1>14 DEF BackToWaste
  <2>2. TitleOf(body.of) = "waste"
    BY <2>1 DEF TitleOf
  <2>3. Fits("waste", WasteAsks, focus, evt, period, page)
    BY AsksFit
  <2>4. QED
    BY <1>1, <1>2, <2>1, <2>2, <2>3, ControlStep
<1>15. QED
  BY <1>5, <1>6, <1>7, <1>8, <1>9, <1>10, <1>11, <1>12, <1>13, <1>14 DEF UseBody

-----------------------------------------------------------------------------
(* Answers. *)

LEMMA AdvanceStep ==
  ASSUME Inv, NEW s \in Slots, Advance(s)
  PROVE  Inv'
<1> USE DEF Inv
<1>1. waiting[s] \in Request
  BY DEF Advance, TypeOK, Free, Async, Live
<1>2. AsksNext(waiting[s]) \in Asked
  <2>1. waiting[s].for \in Asked
    BY <1>1 DEF Request
  <2>2. CpuAsksNext \in Asked /\ MemAsksNext \in Asked
    BY AskedFacts DEF CpuAsksNext, MemAsksNext
  <2>3. AsksNext(waiting[s]) \in {CpuAsksNext, MemAsksNext, waiting[s].for}
    BY DEF AsksNext
  <2>4. QED
    BY <2>1, <2>2, <2>3
<1> DEFINE next == [waiting[s] EXCEPT !.step = 2, !.for = AsksNext(waiting[s])]
           half == [waiting[s] EXCEPT !.step = 2]
<1>3. half \in Request /\ half.of = waiting[s].of
  BY <1>1 DEF Request
<1>4. next \in Request /\ next.of = waiting[s].of /\ next.for = AsksNext(waiting[s])
  <2>1. next = [half EXCEPT !.for = AsksNext(waiting[s])]
    OBVIOUS
  <2> HIDE DEF half, next
  <2>2. QED
    BY <1>2, <1>3, <2>1 DEF Request
<1>5. /\ waiting' = [waiting EXCEPT ![s] = next]
      /\ UNCHANGED <<open, title, body, choices, page, overlap>>
  BY DEF Advance, TypeOK
<1>6. next # Free /\ waiting[s] # Free
  BY <1>1, <1>4 DEF Request, Free, Async, Live
<1> HIDE DEF next
<1>7. TypeOK'
  BY <1>4, <1>5 DEF TypeOK, choices
<1>8. LoadingIsPending'
  BY <1>5, <1>6 DEF LoadingIsPending, Idle, TypeOK
<1>9. \A t \in Slots : waiting'[t].of = waiting[t].of
  BY <1>4, <1>5 DEF TypeOK
<1>10. FiltersAgree'
  BY <1>5, <1>9 DEF FiltersAgree
<1>11. \A t \in Slots : waiting'[t] # Free => waiting[t] # Free
  BY <1>5, <1>6 DEF TypeOK
<1>12. Flight'
  <2>1. SUFFICES ASSUME open, ~overlap, NEW t \in Slots, waiting'[t] # Free
                 PROVE  /\ waiting'[t].of = title
                        /\ Fits(title, waiting'[t].for, focus, evt, period, page)
                        /\ title \in {"cpu", "mem"} /\ waiting'[t].step = 2 =>
                             waiting'[t].for.ns = page.ns
                        /\ \A u \in Slots : waiting'[u] # Free => u = t
    BY <1>5 DEF Flight, choices
  <2>2. t = s /\ waiting[s].of = title /\ Fits(title, waiting[s].for, focus, evt, period, page)
        /\ \A u \in Slots : waiting'[u] # Free => u = t
    BY <1>6, <1>11, <2>1 DEF Flight
  <2>3. waiting'[t] = next
    BY <1>5, <2>2 DEF TypeOK
  <2>4. CASE title \in {"cpu", "mem"}
    <3>1. AsksNext(waiting[s]).ns = page.ns
      BY <2>2, <2>4 DEF AsksNext, CpuAsksNext, MemAsksNext, Nothing
    <3>2. QED
      BY <1>4, <2>2, <2>3, <2>4, <3>1 DEF Fits
  <2>5. CASE title \notin {"cpu", "mem"}
    <3>1. AsksNext(waiting[s]) = waiting[s].for
      BY <2>2, <2>5 DEF AsksNext
    <3>2. QED
      BY <1>4, <2>2, <2>3, <2>5, <3>1
  <2>6. QED
    BY <2>4, <2>5
<1>13. ShowsCurrent'
  <2>1. ~Idle'
    BY <1>5, <1>6 DEF Idle, TypeOK
  <2>2. QED
    BY <1>5, <2>1 DEF ShowsCurrent
<1>14. QED
  BY <1>7, <1>8, <1>10, <1>12, <1>13

LEMMA FinishStep ==
  ASSUME Inv, NEW s \in Slots, Finish(s)
  PROVE  Inv'
<1> USE DEF Inv
<1>1. waiting[s] \in Request /\ waiting[s] # Free
  BY DEF Finish, TypeOK, Free, Async, Live
<1>2. PICK known \in BOOLEAN : body' = Rendered(waiting[s], known)
  BY DEF Finish
<1>3. /\ waiting' = [waiting EXCEPT ![s] = Free]
      /\ UNCHANGED <<open, title, focus, clearNs, evt, period, page, overlap>>
      /\ waiting[s].step = Fetches(waiting[s].of)
  BY DEF Finish, choices
<1>4. body' \in Body /\ body'.of = waiting[s].of /\ waiting[s].of \in Async
  BY <1>1, <1>2, RenderedFacts DEF Request
<1>5. \A t \in Slots : waiting'[t] # Free => waiting'[t] = waiting[t]
  BY <1>3 DEF TypeOK
<1>6. TypeOK'
  BY <1>3, <1>4 DEF TypeOK
<1>7. LoadingIsPending'
  BY <1>4 DEF LoadingIsPending, Async, Live
<1>8. FiltersAgree'
  <2>1. body'.of \in Live => body'.rows = body'.ctl \/ body'.lost
    BY <1>1, <1>2, <1>4, RenderedFacts
  <2>2. QED
    BY <2>1 DEF FiltersAgree
<1>9. Flight'
  BY <1>3, <1>5 DEF Flight
<1>10. ShowsCurrent'
  <2>1. SUFFICES ASSUME open, ~overlap
                 PROVE  TitleOf(body'.of) = title /\ Current'
    BY <1>3 DEF ShowsCurrent
  <2>2. /\ waiting[s].of = title
        /\ Fits(title, waiting[s].for, focus, evt, period, page)
        /\ title \in {"cpu", "mem"} /\ waiting[s].step = 2 => waiting[s].for.ns = page.ns
    BY <1>1, <2>1 DEF Flight
  <2>3. TitleOf(body'.of) = title /\ body'.of = title
    BY <1>4, <2>2 DEF TitleOf, Async, Live
  <2>4. CASE title = "pods"
    BY <2>3, <2>4 DEF Current
  <2>5. CASE title \in {"cpu", "mem"}
    <3>1. waiting[s].step = 2
      BY <1>3, <2>2, <2>5 DEF Fetches
    <3>2. body'.for.ns = page.ns
      BY <1>1, <1>2, <2>2, <2>5, <3>1, RenderedFacts
    <3>3. QED
      BY <1>3, <2>3, <2>5, <3>2 DEF Current
  <2>6. CASE title = "waste"
    <3>1. body'.for.ns = page.ns
      BY <1>1, <1>2, <2>2, <2>6, RenderedFacts DEF Fits
    <3>2. QED
      BY <1>3, <2>3, <2>6, <3>1 DEF Current
  <2>7. CASE title = "node"
    <3>1. body'.for.focus = focus
      BY <1>1, <1>2, <2>2, <2>7, RenderedFacts DEF Fits
    <3>2. QED
      BY <1>3, <2>3, <2>7, <3>1 DEF Current
  <2>8. CASE title = "alerts"
    <3>1. body'.for.sys = page.sys /\ body'.for.ns = page.ns
      BY <1>1, <1>2, <2>2, <2>8, RenderedFacts DEF Fits
    <3>2. QED
      BY <1>3, <2>3, <2>8, <3>1 DEF Current
  <2>9. CASE title = "events"
    <3>1. body'.rows = evt
      BY <1>1, <1>2, <2>2, <2>9, RenderedFacts DEF Fits
    <3>2. QED
      BY <1>3, <2>3, <2>9, <3>1 DEF Current
  <2>10. CASE title = "finops"
    <3>1. body'.for = FinOpsAsks(period)
      BY <1>1, <1>2, <2>2, <2>10, RenderedFacts DEF Fits, FinOpsAsks, ChartNs
    <3>2. FinOpsAsks(period)' = FinOpsAsks(period)
      BY <1>3 DEF FinOpsAsks, ChartNs
    <3>3. QED
      BY <2>3, <2>10, <3>1, <3>2 DEF Current
  <2>11. QED
    BY <1>4, <2>2, <2>3, <2>4, <2>5, <2>6, <2>7, <2>8, <2>9, <2>10 DEF Async, Live
<1>11. QED
  BY <1>6, <1>7, <1>8, <1>9, <1>10

LEMMA FailStep ==
  ASSUME Inv, NEW s \in Slots, Fail(s)
  PROVE  Inv'
<1> USE DEF Inv
<1>1. /\ body' = Error /\ waiting' = [waiting EXCEPT ![s] = Free]
      /\ UNCHANGED <<open, title, focus, clearNs, evt, period, page, overlap>>
  BY DEF Fail, AfterError, choices
<1>2. Error \in Body /\ Error.of = "error"
  BY AskedFacts DEF Error, Body
<1>3. \A t \in Slots : waiting'[t] # Free => waiting'[t] = waiting[t]
  BY <1>1 DEF TypeOK
<1>4. TypeOK'
  BY <1>1, <1>2 DEF TypeOK
<1>5. LoadingIsPending' /\ FiltersAgree' /\ ShowsCurrent'
  BY <1>1, <1>2 DEF LoadingIsPending, FiltersAgree, ShowsCurrent, Live
<1>6. Flight'
  BY <1>1, <1>3 DEF Flight
<1>7. QED
  BY <1>4, <1>5, <1>6

-----------------------------------------------------------------------------
LEMMA InitInv == Init => Inv
<1> SUFFICES ASSUME Init
             PROVE  Inv
  OBVIOUS
<1> USE DEF Init
<1>1. AllRows \in Filters
  BY DrawersAssumption
<1>2. Nothing \in Asked
  BY <1>1 DEF Nothing, Asked
<1>3. Blank \in Body
  BY <1>1, <1>2 DEF Blank, Body
<1>4. TypeOK
  BY <1>1, <1>3 DEF TypeOK, Titles, Async, Live, Detail
<1>5. LoadingIsPending /\ FiltersAgree /\ Flight /\ ShowsCurrent
  BY DEF LoadingIsPending, FiltersAgree, Flight, ShowsCurrent, Blank, Live
<1>6. QED
  BY <1>4, <1>5 DEF Inv

LEMMA StepInv == Inv /\ [Next]_vars => Inv'
<1> SUFFICES ASSUME Inv, [Next]_vars
             PROVE  Inv'
  OBVIOUS
<1>1. CASE ChangePage
  <2>1. /\ ~open /\ page' \in Pages
        /\ UNCHANGED <<open, title, body, waiting, focus, clearNs, evt, period, overlap>>
    BY <1>1 DEF ChangePage, choices
  <2>2. QED
    BY <2>1 DEF Inv, TypeOK, LoadingIsPending, FiltersAgree, Flight, ShowsCurrent
<1>2. CASE Close
  <2>1. /\ open' = FALSE
        /\ UNCHANGED <<title, body, waiting, focus, clearNs, evt, period, page, overlap>>
    BY <1>2 DEF Close, choices
  <2>2. QED
    BY <2>1 DEF Inv, TypeOK, LoadingIsPending, FiltersAgree, Flight, ShowsCurrent
<1>3. CASE UNCHANGED vars
  <2>1. UNCHANGED <<open, title, body, waiting, focus, clearNs, evt, period, page, overlap>>
    BY <1>3 DEF vars, choices
  <2>2. Current' = Current
    BY <2>1 DEF Current, FinOpsAsks, ChartNs
  <2>3. QED
    BY <2>1, <2>2
       DEF Inv, TypeOK, LoadingIsPending, FiltersAgree, Flight, ShowsCurrent, Idle
<1>4. QED
  BY <1>1, <1>2, <1>3, OpenFromPageStep, UseBodyStep, AdvanceStep, FinishStep, FailStep DEF Next

\* The invariant holds in every reachable state.
THEOREM Invariance == Spec => []Inv
  BY InitInv, StepInv, PTL DEF Spec

\* Drawer, requests and choices have their types (06-drawers.js).
THEOREM TypeCorrect == Spec => []TypeOK
<1>1. Inv => TypeOK
  BY DEF Inv
<1>2. QED
  BY <1>1, Invariance, PTL

\* No open drawer says Loading for ever (openDrawer, and the catch of every renderer).
THEOREM LoadingEnds == Spec => []LoadingIsPending
<1>1. Inv => LoadingIsPending
  BY DEF Inv
<1>2. QED
  BY <1>1, Invariance, PTL

\* The drawers that read their controls after the answer agree with them in the end
\* (renderPodDrawer, renderCpuDrawer, renderMemDrawer, renderWasteDrawer).
THEOREM FiltersFollow == Spec => []FiltersAgree
<1>1. Inv => FiltersAgree
  BY DEF Inv
<1>2. QED
  BY <1>1, Invariance, PTL

\* An open drawer shows what its title names and what is chosen, unless renders
\* overlapped (openDrawer and the twelve renderers).
THEOREM DrawerFollows == Spec => []ShowsCurrent
<1>1. Inv => ShowsCurrent
  BY DEF Inv
<1>2. QED
  BY <1>1, Invariance, PTL

-----------------------------------------------------------------------------
\* A late answer keeps what the user has set in the controls (renderPodDrawer 427-445).
THEOREM ControlsStay == Spec => AnswersKeepControls
<1>1. Inv /\ [Next]_vars =>
        [(body.of \in Live /\ body'.of = body.of /\ body'.ctl # body.ctl)
           => ChangeFilter \/ body'.lost]_vars
  <2> SUFFICES ASSUME Inv, [Next]_vars, body.of \in Live, body'.of = body.of,
                      body'.ctl # body.ctl
               PROVE  ChangeFilter \/ body'.lost
    OBVIOUS
  <2>1. Error.of = "error" /\ Loading.of = "loading"
    BY DEF Error, Loading, Blank
  <2>2. ASSUME NEW k, NEW asks, NEW shown, Start(k, asks, shown)
        PROVE  body' \in {shown, Error}
    BY <2>2 DEF Start, AfterAbort
  <2>3. ASSUME NEW k, NEW asks, OpenDrawer(k, asks)
        PROVE  FALSE
    <3>1. body' \in {Loading, Error}
      BY <2>2, <2>3 DEF OpenDrawer
    <3>2. QED
      BY <2>1, <3>1 DEF Live
  <2>4. ASSUME NEW k, NEW written, OpenDetail(k, written), written.of \in Detail
        PROVE  FALSE
    BY <2>4 DEF OpenDetail, Detail, Live
  <2>5. ASSUME NEW k, NEW asks, Rerender(k, asks, body)
        PROVE  FALSE
    <3>1. body' \in {body, Error}
      BY <2>2, <2>5 DEF Rerender
    <3>2. QED
      BY <2>1, <3>1 DEF Live
  <2>6. ASSUME NEW s \in Slots, Finish(s)
        PROVE  body'.lost
    <3>1. PICK known \in BOOLEAN : body' = Rendered(waiting[s], known)
      BY <2>6 DEF Finish
    <3>2. waiting[s] \in Request
      BY <2>6 DEF Inv, Finish, TypeOK, Free, Async, Live
    <3>3. waiting[s].of = body.of
      BY <3>1, <3>2, RenderedFacts DEF Inv
    <3>4. body'.ctl = Toolbar(body.of) \/ body'.lost
      BY <3>1, <3>2, <3>3, RenderedFacts DEF Inv
    <3>5. QED
      BY <3>4 DEF Toolbar
  <2>7. IncidentDetail.of = "incident" /\ EfficiencyRows.of = "efficiency"
        /\ PodDetail.of = "podDetail" /\ WasteDetail.of = "wasteDetail"
    BY DEF IncidentDetail, EfficiencyRows, PodDetail, WasteDetail, Blank
  <2>8. {"incident", "efficiency", "podDetail"} \subseteq Detail
    BY DEF Detail
  <2>9. ~OpenEvents /\ ~OpenIncident /\ \A n : ~OpenNode(n)
    BY <2>3, <2>4, <2>7, <2>8 DEF OpenEvents, OpenIncident, OpenNode
  <2>10. ~OpenFromPage
    BY <2>3, <2>4, <2>7, <2>8, <2>9
       DEF OpenFromPage, OpenPods, OpenAlerts, OpenCpu, OpenMem, OpenWaste, OpenEfficiency,
           OpenFinOps
  <2>11. UseBody => ChangeFilter
    <3>1. ~ChangeEventsFilter /\ ~PickWaste
      BY <2>7 DEF ChangeEventsFilter, PickWaste, Live
    <3>2. ~ChangePeriod /\ ~ClickHeader /\ ~ClearNsFilter /\ ~BackToWaste
      BY <2>5 DEF ChangePeriod, ClickHeader, ClearNsFilter, BackToWaste
    <3>3. ~PickNode /\ ~BackToNodes /\ ~BackToNode /\ ~PickIncident /\ ~BackToEvents /\ ~PickPod
      BY <2>4, <2>7, <2>8, <2>9
         DEF PickNode, BackToNodes, BackToNode, PickIncident, BackToEvents, PickPod
    <3>4. QED
      BY <3>1, <3>2, <3>3 DEF UseBody
  <2>12. \A s \in Slots : ~Fail(s) /\ ~Advance(s)
    BY <2>1 DEF Fail, AfterError, Advance, Live
  <2>13. ~ChangePage /\ ~Close /\ ~UNCHANGED vars
    BY DEF ChangePage, Close, vars
  <2>14. QED
    BY <2>6, <2>10, <2>11, <2>12, <2>13 DEF Next
<1>2. QED
  BY <1>1, Invariance, PTL DEF Spec, AnswersKeepControls
=============================================================================
