------------------------------ MODULE Overview ------------------------------
(***************************************************************************)
(* The panels that the dashboard refreshes every five seconds              *)
(* (agent/static/js/04-overview.js, updateEfficiency in 05-workloads.js,   *)
(* the timer in 07-polling.js): updateOverview and the tiles it calls, the *)
(* incidents tile and the efficiency table.                                *)
(*                                                                         *)
(* Each refresh is a chain of requests, each of which reads some choices   *)
(* before it is sent and some after it is answered.  A new refresh starts  *)
(* whether or not the previous one has ended; answers come in any order.   *)
(* A panel is represented by the choices it stands for; the startup calls  *)
(* of 07-polling.js are in flight in the initial state.  The requests that *)
(* the same choices start for the cost chart are in module CostChart.      *)
(***************************************************************************)
EXTENDS Page, Naturals, Functions

CONSTANTS
  Resources,   \* the tiles of updateCpuTile and updateMemTile
  MaxFlying    \* requests in flight at which no refresh starts (a bound of the model)

Tiles == Resources \cup {"pods"}
Chain == {"summary", "metrics", "incidents", "efficiency"}
Kinds == Tiles \cup Chain

\* What is written only when the list for the choice is not empty: the cards of the pods
\* that use most (of the metrics), and average, donut and worst of the efficiency tile.
Cards == {"top", "grades"}

ASSUME OverviewAssumption ==
  MaxFlying \in Nat \ {0} /\ "pods" \notin Resources /\ Tiles \cap (Chain \cup Cards) = {}

VARIABLES
  flying,   \* how many requests of each kind are in flight
  kpi,      \* cards, node map and alerts: written when the first three answers are in
  tile,     \* the namespace of each tile
  waste,    \* the namespace of the waste card and the context bar
  events,   \* the incidents tile
  eff,      \* the namespace of the efficiency table
  card,     \* the namespace of each of the Cards
  bare,     \* the choices for which the agent has no pods to list; it does not change
  quiet     \* history: the user makes no more changes, and every request succeeds

panels == <<kpi, tile, waste, events, eff, card>>
around == <<bare, quiet>>
overviewVars == <<page, flying, panels, around>>

-----------------------------------------------------------------------------
\* If there are no pods at all, there are none in any namespace.
Bares == {none \in SUBSET Ns : AllNs \in none => none = Ns}

\* A request, with the namespace in its URL and the toggle its renderer has read.
Request(k, ns, sys) == [of |-> k, ns |-> ns, sys |-> sys]
Requests ==
  [of : {"summary"}, ns : {AllNs}, sys : BOOLEAN]
    \cup [of : {"metrics", "efficiency"}, ns : {AllNs}, sys : {FALSE}]
    \cup [of : Tiles \cup {"incidents"}, ns : Ns, sys : {FALSE}]

Sending(requests) == [r \in Requests |-> IF r \in requests THEN flying[r] + 1 ELSE flying[r]]
Room == SumFunction(flying) < MaxFlying

OverviewInit ==
  /\ PageInit
  /\ flying = [r \in Requests |->
       CASE r = Request("summary", AllNs, FALSE) -> 1
         [] r = Request("efficiency", AllNs, FALSE) -> 2
         [] OTHER -> 0]
  /\ kpi = [ns |-> AllNs, sys |-> FALSE]
  /\ tile = [t \in Tiles |-> AllNs]
  /\ waste = AllNs
  /\ events = [ns |-> AllNs, sys |-> FALSE]
  /\ eff = AllNs
  /\ card = [c \in Cards |-> AllNs]
  /\ bare \in Bares
  /\ quiet = FALSE

\* Mutant: the toggle is read from a checkbox that is not there.
UpdateOverviewHidden(sys) == {Request("summary", AllNs, FALSE)}

\* update(): updateOverview reads the toggle, updateEfficiency nothing.
UpdateOverview(sys) == {Request("summary", AllNs, sys)}
UpdateEfficiency == {Request("efficiency", AllNs, FALSE)}
Update(sys) == UpdateOverview(sys) \cup UpdateEfficiency

Send(requests) == Room /\ flying' = Sending(requests)

-----------------------------------------------------------------------------
\* setInterval(update, 5000)
Tick ==
  /\ Send(Update(showSys))
  /\ UNCHANGED <<page, panels, around>>

ListComes ==
  /\ ~quiet
  /\ LoadNamespaces
  /\ UNCHANGED <<flying, panels, around>>

RefreshOnNs ==
  /\ ~quiet
  /\ ChooseNs
  /\ Send(Update(showSys))
  /\ UNCHANGED <<panels, around>>

\* Two listeners: update() of 06-drawers.js, and updateOverview() of 01-init.js again.
RefreshOnToggle ==
  /\ ~quiet
  /\ ToggleSys
  /\ Room
  /\ flying' = [Sending(Update(showSys')) EXCEPT ![Request("summary", AllNs, showSys')] = @ + 1]
  /\ UNCHANGED <<panels, around>>

ToggleUnanswered ==
  /\ ~quiet
  /\ ToggleUnheard
  /\ UNCHANGED <<flying, panels, around>>

\* The namespace of the cost tile filters the cost chart (CostChart), but the table of
\* the other tab of that tile is fetched again too.
RefreshOnTileNs ==
  /\ ~quiet
  /\ Send(UpdateEfficiency)
  /\ UNCHANGED <<page, panels, around>>

\* A click on a header of the incidents tile fetches them again.
UserSortsEvents ==
  /\ ~quiet
  /\ Send({Request("incidents", activeNs, FALSE)})
  /\ UNCHANGED <<page, panels, around>>

BecomeQuiet ==
  /\ ~quiet
  /\ quiet' = TRUE
  /\ UNCHANGED <<page, flying, panels, bare>>

-----------------------------------------------------------------------------
Answered(r) == flying[r] > 0
Received(r, requests) == [Sending(requests) EXCEPT ![r] = @ - 1]

\* Mutant: the tile of the pods is refreshed for all namespaces only.
TileRequestsAllOnly(ns) ==
  IF ns = AllNs THEN {Request("pods", AllNs, FALSE)}
                ELSE {Request(t, ns, FALSE) : t \in Resources}

\* What the tiles ask for when the first answers are in: the resource tiles take all
\* namespaces from the summary itself.
TileRequests(ns) ==
  IF ns = AllNs THEN {Request("pods", AllNs, FALSE)}
                ELSE {Request(t, ns, FALSE) : t \in Tiles}

\* The cards, the node map and the alerts are written with the toggle of before the
\* request and the namespace of now.  A failed list of incidents counts as empty.
ShowSummary(r) ==
  /\ r.of = "summary" /\ Answered(r)
  /\ kpi' = [ns |-> activeNs, sys |-> r.sys]
  /\ tile' = [t \in Tiles |-> IF t \in Resources /\ activeNs = AllNs THEN AllNs ELSE tile[t]]
  /\ flying' = Received(r, TileRequests(activeNs) \cup {Request("metrics", AllNs, FALSE)})
  /\ UNCHANGED <<page, waste, events, eff, card, around>>

\* updateCpuTile, updateMemTile, updatePodsTile and updatePodsAllNsTile write what they
\* asked for.
ShowTile(r) ==
  /\ r.of \in Tiles /\ Answered(r)
  /\ tile' = [tile EXCEPT ![r.of] = r.ns]
  /\ flying' = Received(r, {})
  /\ UNCHANGED <<page, kpi, waste, events, eff, card, around>>

\* The agent leaves the system namespaces out of the efficiency list: the page has no
\* switch that asks for them (eff-show-system is not in dashboard.html).
Nothing(c) == activeNs \in bare \/ (c = "grades" /\ activeNs \in System)

\* An empty list leaves the card as it is.
Redrawn(c) == IF Nothing(c) THEN card ELSE [card EXCEPT ![c] = activeNs]

\* The rest of updateOverview filters by the namespace of now, and calls
\* renderOverviewEvents.
ShowMetrics(r) ==
  /\ r.of = "metrics" /\ Answered(r)
  /\ waste' = activeNs
  /\ card' = Redrawn("top")
  /\ flying' = Received(r, {Request("incidents", activeNs, FALSE)})
  /\ UNCHANGED <<page, kpi, tile, events, eff, around>>

\* What is left of an answer for one choice when another one filters it.
Narrowed(asked, ns) ==
  IF asked = AllNs THEN ns ELSE IF ns \in {AllNs, asked} THEN asked ELSE "none"

\* The incidents of the namespace asked for, filtered by the choices of now.
ShowEvents(r) ==
  /\ r.of = "incidents" /\ Answered(r)
  /\ events' = [ns |-> Narrowed(r.ns, activeNs), sys |-> showSys]
  /\ flying' = Received(r, {})
  /\ UNCHANGED <<page, kpi, tile, waste, eff, card, around>>

ShowEfficiency(r) ==
  /\ r.of = "efficiency" /\ Answered(r)
  /\ eff' = activeNs
  /\ card' = Redrawn("grades")
  /\ flying' = Received(r, {})
  /\ UNCHANGED <<page, kpi, tile, waste, events, around>>

Land(r) ==
  \/ ShowSummary(r)
  \/ ShowTile(r)
  \/ ShowMetrics(r)
  \/ ShowEvents(r)
  \/ ShowEfficiency(r)

\* Every function catches: its part of the page stays, and what it would have called
\* next is not called.
Fail(r) ==
  /\ ~quiet /\ Answered(r)
  /\ flying' = Received(r, {})
  /\ UNCHANGED <<page, panels, around>>

OverviewNext ==
  \/ Tick
  \/ ListComes
  \/ RefreshOnNs
  \/ RefreshOnToggle
  \/ ToggleUnanswered
  \/ RefreshOnTileNs
  \/ UserSortsEvents
  \/ BecomeQuiet
  \/ \E r \in Requests : Land(r) \/ Fail(r)

OverviewSpec == OverviewInit /\ [][OverviewNext]_overviewVars

\* The timer keeps running and no request stays unanswered for ever.
FairSpec == OverviewSpec /\ WF_overviewVars(Tick) /\ \A r \in Requests : WF_overviewVars(Land(r))

-----------------------------------------------------------------------------
OverviewTypeOK ==
  /\ PageTypeOK
  /\ flying \in [Requests -> Nat]
  /\ kpi \in [ns : Ns, sys : BOOLEAN]
  /\ tile \in [Tiles -> Ns]
  /\ waste \in Ns /\ eff \in Ns
  /\ events \in [ns : Ns \cup {"none"}, sys : BOOLEAN]
  /\ card \in [Cards -> Ns]
  /\ bare \in Bares
  /\ quiet \in BOOLEAN

-----------------------------------------------------------------------------
\* The panel that the answers of kind k are written to, or the card k, shows the choices
\* of now.
ShowsNow(k) ==
  CASE k \in Tiles -> tile[k] = activeNs
    [] k = "summary" -> kpi = [ns |-> activeNs, sys |-> showSys]
    [] k = "metrics" -> waste = activeNs
    [] k = "incidents" -> events = [ns |-> activeNs, sys |-> showSys]
    [] k = "efficiency" -> eff = activeNs
    [] k \in Cards -> card[k] = activeNs

\* Cards for which there is nothing need not follow.
PanelsCurrent == \A k \in Kinds \cup Cards : ShowsNow(k) \/ (k \in Cards /\ Nothing(k))

\* A request from before the last change, whose answer will not show the choices of now.
Outdated(r) ==
  \/ r.of = "summary" /\ r.sys # showSys
  \/ r.of \in Tiles /\ r.ns # activeNs
  \/ r.of = "incidents" /\ r.ns \notin {AllNs, activeNs}

Awaited(k) == {r \in Requests : r.of = k /\ Answered(r)}

KeepUp ==
  /\ \A r \in Requests : Outdated(r) => flying'[r] <= flying[r]
  /\ \A k \in Kinds \cup Cards :
       ShowsNow(k) /\ (\A r \in Awaited(k) : ~Outdated(r)) => ShowsNow(k)'

\* A panel that shows the choices of now can be turned back only by a request from before
\* they were made, and no refresh, chain or click after that asks for older ones.
PanelsKeepUp == [][UNCHANGED page => KeepUp]_overviewVars

\* Whatever overlapped or failed before, once the choices stay and requests succeed all
\* panels come to show the current choices and keep showing them: a late answer for
\* older ones may land, but only until the next refresh.  Cards for which there is nothing
\* to list are excepted: they stay as the last list that was not empty left them
\* (04-overview.js 199 and 220, 05-workloads.js 436).
PanelsSettle == []<>quiet => <>[]PanelsCurrent
=============================================================================
