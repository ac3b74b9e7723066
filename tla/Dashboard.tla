----------------------------- MODULE Dashboard -----------------------------
(***************************************************************************)
(* The overview panels and the cost chart on one page                      *)
(* (agent/static/js/06-drawers.js 18-58, 07-polling.js 53-67 and 427-437). *)
(* They share the choices of Page and nothing else; a control that changes *)
(* one of these is heard by both, and each listener calls what its part    *)
(* needs.  All other steps are of one part alone, in any order.            *)
(***************************************************************************)
EXTENDS Overview, CostChart

chartVars == <<controls, waiting, chart, title, excused>>
dashboardVars == <<overviewVars, chartVars>>

PanelsStill == UNCHANGED <<flying, panels, around>>

\* Startup sends for the panels, the chart and the list of namespaces.
DashboardInit == OverviewInit /\ Init

-----------------------------------------------------------------------------
(* What both parts hear. *)

ListLoaded == NamespacesCome /\ ListComes

NsChosen == UserChoosesNs /\ RefreshOnNs

SysToggled == UserTogglesSys /\ RefreshOnToggle
SysToggledUnheard == UserTogglesUnheard /\ ToggleUnanswered

\* fetchChart() and updateEfficiency()
TileNsChosen == ChooseTileNs /\ RefreshOnTileNs

Shared == ListLoaded \/ NsChosen \/ SysToggled \/ SysToggledUnheard \/ TileNsChosen

-----------------------------------------------------------------------------
(* What is of one part alone.  The user of this page never becomes quiet: that is for    *)
(* the liveness of Overview.                                                            *)

ChartStep ==
  /\ \/ PickPreset \/ PickCustom \/ ApplyCustom
     \/ \E s \in Slots :
          HistoryComes(s) \/ HistoryFails(s) \/ ForecastComes(s) \/ ForecastRefused(s)
  /\ PanelsStill

PanelStep ==
  /\ \/ Tick \/ UserSortsEvents
     \/ \E r \in Requests : Land(r) \/ Fail(r)
  /\ UNCHANGED chartVars

DashboardNext == Shared \/ ChartStep \/ PanelStep

DashboardSpec == DashboardInit /\ [][DashboardNext]_dashboardVars

-----------------------------------------------------------------------------
\* On the shared page the panels behave as they do alone: every change of the choices
\* that the chart hears is one that they hear too.
ActsAsOverview == OverviewSpec

\* And so does the chart: no control of the page changes what it is filtered by without
\* the call of fetchChart that its own specification has.
ActsAsChart == Spec
=============================================================================
