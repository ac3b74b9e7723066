--------------------------- MODULE OverviewProofs ---------------------------
(***************************************************************************)
(* The choices of the page, whichever panels follow them, and Overview for *)
(* any namespaces, any tiles and any number of requests in flight.         *)
(*                                                                         *)
(* The first part is about Page alone: the select shows what the panels    *)
(* are filtered by, and that is one of its options.  The proofs about the  *)
(* cost chart start from it as well.                                       *)
(***************************************************************************)
EXTENDS Overview, TLAPS

\* The options of a select: all namespaces first, and no other if the list is missing.
LEMMA OfferedFacts ==
  ASSUME NEW loaded, NEW sys
  PROVE  /\ AllNs \in Offered(loaded, sys)
         /\ Offered(loaded, sys) \subseteq Namespaces \cup {AllNs}
         /\ loaded \in {{}, Refused} => Offered(loaded, sys) = {AllNs}
  BY PageAssumption DEF Offered

\* What a select shows after its options were rebuilt.
LEMMA KeptFacts ==
  ASSUME NEW value, NEW loaded, NEW sys
  PROVE  /\ Kept(value, Offered(loaded, sys)) \in Offered(loaded, sys)
         /\ Kept(value, Offered(loaded, sys)) \in {value, AllNs}
         /\ value \in Offered(loaded, sys) => Kept(value, Offered(loaded, sys)) = value
  BY OfferedFacts DEF Kept

\* The toggle takes away system namespaces only, and adds without taking any away.
LEMMA ToggledOptions ==
  ASSUME NEW loaded, NEW sys \in BOOLEAN, NEW n \in Offered(loaded, sys)
  PROVE  n \in Offered(loaded, ~sys) \/ (n \in System /\ sys)
  BY DEF Offered

PageInv == PageTypeOK /\ FilterIsHonest

LEMMA PageInitInv == PageInit => PageInv
  BY OfferedFacts DEF PageInit, PageInv, PageTypeOK, FilterIsHonest, Ns

LEMMA PageStepInv ==
  ASSUME PageInv, LoadNamespaces \/ ChooseNs \/ ToggleSys \/ ToggleUnheard \/ UNCHANGED page
  PROVE  PageInv'
<1> USE DEF PageInv, PageTypeOK, FilterIsHonest, Ns
<1>1. CASE LoadNamespaces
  <2>1. /\ allNamespaces = {} /\ allNamespaces' \in {Namespaces, Refused}
        /\ activeNs' = activeNs /\ showSys' = showSys
        /\ nsFilter' = Kept(nsFilter, Offered(allNamespaces', showSys))
    BY <1>1 DEF LoadNamespaces
  <2>2. nsFilter = AllNs /\ activeNs = AllNs
    BY <2>1, OfferedFacts
  <2>3. nsFilter' = AllNs
    BY <2>1, <2>2, KeptFacts
  <2>4. QED
    BY <2>1, <2>2, <2>3, OfferedFacts
<1>2. CASE ChooseNs
  <2>1. /\ nsFilter' \in Offered(allNamespaces, showSys) /\ activeNs' = nsFilter'
        /\ showSys' = showSys /\ allNamespaces' = allNamespaces
    BY <1>2 DEF ChooseNs
  <2>2. QED
    BY <2>1, OfferedFacts
<1>3. CASE ToggleSys
  <2>1. /\ showSys' = ~showSys /\ allNamespaces' = allNamespaces
        /\ activeNs' = ToggledNs(activeNs, showSys')
        /\ nsFilter' = IF activeNs' # activeNs THEN AllNs
                       ELSE Kept(nsFilter, Offered(allNamespaces, showSys'))
    BY <1>3 DEF ToggleSys
  <2>2. CASE activeNs \in System /\ ~showSys'
    <3>1. activeNs' = AllNs /\ nsFilter' = AllNs
      BY <2>1, <2>2, PageAssumption DEF ToggledNs
    <3>2. QED
      BY <2>1, <3>1, OfferedFacts
  <2>3. CASE ~(activeNs \in System /\ ~showSys')
    <3>1. activeNs' = activeNs
      BY <2>1, <2>3 DEF ToggledNs
    <3>2. activeNs \in Offered(allNamespaces, showSys')
      BY <2>1, <2>3, ToggledOptions
    <3>3. nsFilter' = activeNs
      BY <2>1, <3>1, <3>2, KeptFacts
    <3>4. QED
      BY <2>1, <3>1, <3>2, <3>3, OfferedFacts
  <2>4. QED
    BY <2>2, <2>3
<1>4. CASE ToggleUnheard
  <2>1. /\ allNamespaces = Refused /\ showSys' = ~showSys
        /\ UNCHANGED <<activeNs, nsFilter, allNamespaces>>
    BY <1>4 DEF ToggleUnheard
  <2>2. activeNs = AllNs
    BY <2>1, OfferedFacts
  <2>3. QED
    BY <2>1, <2>2, OfferedFacts
<1>5. CASE UNCHANGED page
  BY <1>5 DEF page, Offered
<1>6. QED
  BY <1>1, <1>2, <1>3, <1>4, <1>5

-----------------------------------------------------------------------------
(* The panels. *)

OverviewInv == OverviewTypeOK /\ FilterIsHonest

LEMMA RequestFacts ==
  ASSUME NEW r \in Requests
  PROVE  r.ns \in Ns /\ r.sys \in BOOLEAN
  BY DEF Requests, Ns

\* Requests are added to those in flight, and one of them may have been answered.
LEMMA FlyingFacts ==
  ASSUME OverviewTypeOK, NEW requests
  PROVE  /\ Sending(requests) \in [Requests -> Nat]
         /\ \A r \in Requests : [Sending(requests) EXCEPT ![r] = @ + 1] \in [Requests -> Nat]
         /\ \A r \in Requests : Answered(r) => Received(r, requests) \in [Requests -> Nat]
<1>1. flying \in [Requests -> Nat]
  BY DEF OverviewTypeOK
<1>2. Sending(requests) \in [Requests -> Nat]
  BY <1>1 DEF Sending
<1>3. ASSUME NEW r \in Requests, Answered(r)
      PROVE  Received(r, requests) \in [Requests -> Nat]
  <2>1. Sending(requests)[r] \in Nat \ {0}
    BY <1>1, <1>3 DEF Sending, Answered
  <2>2. QED
    BY <1>2, <2>1 DEF Received
<1>4. ASSUME NEW r \in Requests
      PROVE  [Sending(requests) EXCEPT ![r] = @ + 1] \in [Requests -> Nat]
  BY <1>2
<1>5. QED
  BY <1>2, <1>3, <1>4

LEMMA OverviewInitInv == OverviewInit => OverviewInv
<1> SUFFICES ASSUME OverviewInit
             PROVE  OverviewInv
  OBVIOUS
<1>1. PageTypeOK /\ FilterIsHonest
  BY PageInitInv DEF OverviewInit, PageInv
<1>2. flying \in [Requests -> Nat]
  BY DEF OverviewInit
<1>3. QED
  BY <1>1, <1>2 DEF OverviewInit, OverviewInv, OverviewTypeOK, Ns

LEMMA OverviewStepInv == OverviewInv /\ [OverviewNext]_overviewVars => OverviewInv'
<1> SUFFICES ASSUME OverviewInv, [OverviewNext]_overviewVars
             PROVE  OverviewInv'
  OBVIOUS
<1>1. PageInv /\ OverviewTypeOK /\ activeNs \in Ns /\ showSys \in BOOLEAN
  BY DEF OverviewInv, OverviewTypeOK, PageInv, PageTypeOK, Ns
\* What is left to show of a step, by what it changes.
<1>2. ASSUME flying' \in [Requests -> Nat], UNCHANGED <<panels, bare>>, quiet' \in BOOLEAN,
             LoadNamespaces \/ ChooseNs \/ ToggleSys \/ ToggleUnheard \/ UNCHANGED page
      PROVE  OverviewInv'
  <2>1. PageInv'
    BY <1>1, <1>2, PageStepInv
  <2>2. QED
    BY <1>1, <1>2, <2>1 DEF OverviewInv, OverviewTypeOK, PageInv, panels
<1>3. ASSUME flying' \in [Requests -> Nat], UNCHANGED <<page, around>>,
             card' \in [Cards -> Ns],
             kpi' \in [ns : Ns, sys : BOOLEAN], tile' \in [Tiles -> Ns], waste' \in Ns,
             eff' \in Ns, events' \in [ns : Ns \cup {"none"}, sys : BOOLEAN]
      PROVE  OverviewInv'
  <2>1. PageInv'
    BY <1>1, <1>3, PageStepInv
  <2>2. UNCHANGED <<bare, quiet>>
    BY <1>3 DEF around
  <2>3. QED
    BY <1>1, <1>3, <2>1, <2>2 DEF OverviewInv, OverviewTypeOK, PageInv
<1>4. CASE Tick
  <2>1. flying' \in [Requests -> Nat]
    BY <1>1, <1>4, FlyingFacts DEF Tick, Send
  <2>2. QED
    BY <1>1, <1>2, <1>4, <2>1 DEF Tick, around, OverviewTypeOK
<1>5. CASE ListComes \/ ToggleUnanswered
  BY <1>1, <1>2, <1>5 DEF ListComes, ToggleUnanswered, around, OverviewTypeOK
<1>6. CASE RefreshOnNs \/ RefreshOnTileNs \/ UserSortsEvents
  <2>1. flying' \in [Requests -> Nat]
    BY <1>1, <1>6, FlyingFacts DEF RefreshOnNs, RefreshOnTileNs, UserSortsEvents, Send
  <2>2. QED
    BY <1>1, <1>2, <1>6, <2>1 DEF RefreshOnNs, RefreshOnTileNs, UserSortsEvents, around, OverviewTypeOK
<1>7. CASE RefreshOnToggle
  <2>1. ToggleSys /\ UNCHANGED <<panels, around>>
    BY <1>7 DEF RefreshOnToggle
  <2>2. showSys' \in BOOLEAN
    BY <2>1 DEF ToggleSys
  <2>3. Request("summary", AllNs, showSys') \in Requests
    BY <2>2 DEF Requests, Request
  <2>4. flying' \in [Requests -> Nat]
    BY <1>1, <1>7, <2>3, FlyingFacts DEF RefreshOnToggle
  <2>5. QED
    BY <1>1, <1>2, <2>1, <2>4 DEF around, OverviewTypeOK
<1>8. CASE BecomeQuiet
  BY <1>1, <1>2, <1>8 DEF BecomeQuiet, around, OverviewTypeOK
<1>9. ASSUME NEW r \in Requests, Land(r)
      PROVE  OverviewInv'
  <2>1. Answered(r) /\ UNCHANGED <<page, around>> /\ \E q : flying' = Received(r, q)
    BY <1>9 DEF Land, ShowSummary, ShowTile, ShowMetrics, ShowEvents, ShowEfficiency
  <2>2. flying' \in [Requests -> Nat]
    <3>1. PICK q : flying' = Received(r, q)
      BY <2>1
    <3>2. Received(r, q) \in [Requests -> Nat]
      BY <1>1, <2>1, FlyingFacts
    <3>3. QED
      BY <3>1, <3>2
  <2>3. r.ns \in Ns /\ r.sys \in BOOLEAN /\ AllNs \in Ns
    BY RequestFacts DEF Ns
  <2>4. /\ kpi \in [ns : Ns, sys : BOOLEAN] /\ tile \in [Tiles -> Ns] /\ waste \in Ns
        /\ eff \in Ns /\ events \in [ns : Ns \cup {"none"}, sys : BOOLEAN]
        /\ card \in [Cards -> Ns] /\ \A c \in Cards : Redrawn(c) \in [Cards -> Ns]
    BY <1>1 DEF OverviewTypeOK, Redrawn
  <2>5. CASE ShowSummary(r)
    <3>1. kpi' \in [ns : Ns, sys : BOOLEAN] /\ tile' \in [Tiles -> Ns]
      BY <1>1, <2>3, <2>4, <2>5 DEF ShowSummary
    <3>2. QED
      BY <1>3, <2>1, <2>2, <2>4, <2>5, <3>1 DEF ShowSummary
  <2>6. CASE ShowTile(r)
    <3>1. tile' \in [Tiles -> Ns]
      BY <2>3, <2>4, <2>6 DEF ShowTile
    <3>2. QED
      BY <1>3, <2>1, <2>2, <2>4, <2>6, <3>1 DEF ShowTile
  <2>7. CASE ShowMetrics(r)
    BY <1>1, <1>3, <2>1, <2>2, <2>4, <2>7 DEF ShowMetrics, Cards
  <2>8. CASE ShowEvents(r)
    <3>1. Narrowed(r.ns, activeNs) \in Ns \cup {"none"}
      BY <1>1, <2>3 DEF Narrowed
    <3>2. events' \in [ns : Ns \cup {"none"}, sys : BOOLEAN]
      BY <1>1, <2>8, <3>1 DEF ShowEvents
    <3>3. QED
      BY <1>3, <2>1, <2>2, <2>4, <2>8, <3>2 DEF ShowEvents
  <2>9. CASE ShowEfficiency(r)
    BY <1>1, <1>3, <2>1, <2>2, <2>4, <2>9 DEF ShowEfficiency, Cards
  <2>10. QED
    BY <1>9, <2>5, <2>6, <2>7, <2>8, <2>9 DEF Land
<1>10. ASSUME NEW r \in Requests, Fail(r)
       PROVE  OverviewInv'
  <2>1. flying' \in [Requests -> Nat]
    BY <1>1, <1>10, FlyingFacts DEF Fail
  <2>2. QED
    BY <1>1, <1>2, <1>10, <2>1 DEF Fail, around, OverviewTypeOK
<1>11. CASE UNCHANGED overviewVars
  BY <1>1, <1>2, <1>11 DEF overviewVars, around, OverviewTypeOK
<1>12. QED
  BY <1>4, <1>5, <1>6, <1>7, <1>8, <1>9, <1>10, <1>11 DEF OverviewNext

\* The invariant holds in every reachable state.
THEOREM OverviewInvariance == OverviewSpec => []OverviewInv
  BY OverviewInitInv, OverviewStepInv, PTL DEF OverviewSpec

\* Choices, requests and panels have their types (01-init.js, 04-overview.js).
THEOREM OverviewTypeCorrect == OverviewSpec => []OverviewTypeOK
<1>1. OverviewInv => OverviewTypeOK
  BY DEF OverviewInv
<1>2. QED
  BY <1>1, OverviewInvariance, PTL

\* The select shows the namespace that filters the panels, and offers it, whatever the
\* toggle and the list of namespaces do (06-drawers.js 18-34, renderDropdowns).
THEOREM OverviewFilterHonest == OverviewSpec => []FilterIsHonest
<1>1. OverviewInv => FilterIsHonest
  BY DEF OverviewInv
<1>2. QED
  BY <1>1, OverviewInvariance, PTL

-----------------------------------------------------------------------------
(* Keeping up. *)

\* What it means that a panel shows the choices of now, kind by kind.
LEMMA ShowsFacts ==
  /\ \A t \in Tiles : /\ ShowsNow(t) <=> tile[t] = activeNs
                      /\ ShowsNow(t)' <=> tile'[t] = activeNs'
  /\ ShowsNow("summary") <=> kpi = [ns |-> activeNs, sys |-> showSys]
  /\ ShowsNow("summary")' <=> kpi' = [ns |-> activeNs', sys |-> showSys']
  /\ ShowsNow("metrics") <=> waste = activeNs
  /\ ShowsNow("metrics")' <=> waste' = activeNs'
  /\ ShowsNow("incidents") <=> events = [ns |-> activeNs, sys |-> showSys]
  /\ ShowsNow("incidents")' <=> events' = [ns |-> activeNs', sys |-> showSys']
  /\ ShowsNow("efficiency") <=> eff = activeNs
  /\ ShowsNow("efficiency")' <=> eff' = activeNs'
  /\ \A c \in Cards : /\ ShowsNow(c) <=> card[c] = activeNs
                      /\ ShowsNow(c)' <=> card'[c] = activeNs'
  BY OverviewAssumption DEF ShowsNow, Chain, Cards

\* What is asked for now is not outdated.
LEMMA NewRequests ==
  /\ \A r \in Update(showSys) \cup UpdateEfficiency : ~Outdated(r)
  /\ ~Outdated(Request("incidents", activeNs, FALSE))
  /\ \A r \in TileRequests(activeNs) \cup {Request("metrics", AllNs, FALSE)} : ~Outdated(r)
  BY OverviewAssumption
     DEF Update, UpdateOverview, UpdateEfficiency, TileRequests, Request, Outdated, Tiles, Chain

\* Requests that are not outdated are sent, and maybe one is answered: of the outdated
\* ones there are no more than before.
LEMMA SentNow ==
  ASSUME OverviewTypeOK, NEW requests, \A r \in requests : ~Outdated(r),
         \/ flying' = flying
         \/ flying' = Sending(requests)
         \/ \E r \in Requests : flying' = Received(r, requests)
  PROVE  \A r \in Requests : Outdated(r) => flying'[r] <= flying[r]
<1>1. flying \in [Requests -> Nat]
  BY DEF OverviewTypeOK
<1>2. SUFFICES ASSUME NEW r \in Requests, Outdated(r)
               PROVE  flying'[r] <= flying[r]
  OBVIOUS
<1>3. Sending(requests)[r] = flying[r] /\ Sending(requests) \in [Requests -> Nat]
  BY <1>1, <1>2 DEF Sending
<1>4. CASE \E q \in Requests : flying' = Received(q, requests)
  BY <1>1, <1>3, <1>4 DEF Received
<1>5. QED
  BY <1>1, <1>3, <1>4

\* A step that leaves the choices and the panels only matters for what it sends.
LEMMA PanelsStay ==
  ASSUME UNCHANGED page, UNCHANGED panels, NEW k \in Kinds \cup Cards
  PROVE  ShowsNow(k) => ShowsNow(k)'
  BY DEF ShowsNow, page, panels

LEMMA LandKeepsUp ==
  ASSUME OverviewTypeOK, UNCHANGED page, NEW r \in Requests, Land(r)
  PROVE  KeepUp
<1>1. activeNs' = activeNs /\ showSys' = showSys
  BY DEF page
<1>2. Answered(r)
  BY DEF Land, ShowSummary, ShowTile, ShowMetrics, ShowEvents, ShowEfficiency
\* Only the panel of the answer's own kind, and the tiles that take all namespaces from
\* the summary, are written.
<1>3. SUFFICES ASSUME \A q \in Requests : Outdated(q) => flying'[q] <= flying[q],
                      NEW k \in Kinds \cup Cards, ShowsNow(k), r.of = k => ~Outdated(r)
               PROVE  ShowsNow(k)'
  <2>1. ASSUME NEW k \in Kinds \cup Cards, \A q \in Awaited(k) : ~Outdated(q), r.of = k
        PROVE  ~Outdated(r)
    BY <1>2, <2>1 DEF Awaited
  <2>2. \E requests : /\ \A q \in requests : ~Outdated(q)
                     /\ flying' = Received(r, requests)
    <3>1. CASE ShowSummary(r)
      BY <3>1, NewRequests DEF ShowSummary
    <3>2. CASE ShowMetrics(r)
      <4>1. \A q \in {Request("incidents", activeNs, FALSE)} : ~Outdated(q)
        BY NewRequests
      <4>2. QED
        BY <3>2, <4>1 DEF ShowMetrics
    <3>3. CASE ShowTile(r) \/ ShowEvents(r) \/ ShowEfficiency(r)
      <4>1. flying' = Received(r, {}) /\ \A q \in {} : ~Outdated(q)
        BY <3>3 DEF ShowTile, ShowEvents, ShowEfficiency
      <4>2. QED
        BY <4>1
    <3>4. QED
      BY <3>1, <3>2, <3>3 DEF Land
  <2>3. PICK requests : /\ \A q \in requests : ~Outdated(q)
                        /\ flying' = Received(r, requests)
    BY <2>2
  <2>4. \A q \in Requests : Outdated(q) => flying'[q] <= flying[q]
    BY <2>3, SentNow
  <2>5. QED
    BY <2>1, <2>4 DEF KeepUp
<1>4. tile \in [Tiles -> Ns] /\ card \in [Cards -> Ns]
  BY DEF OverviewTypeOK
\* A card that is current is left alone or written with the choices of now.
<1>5. ASSUME NEW c \in Cards, card' \in {card, Redrawn(c)}, k \in Cards
       PROVE  ShowsNow(k)'
  <2>1. card[k] = activeNs
    BY <1>3, <1>5, ShowsFacts
  <2>2. Redrawn(c)[k] = activeNs
    BY <1>4, <1>5, <2>1 DEF Redrawn
  <2>3. card'[k] = activeNs
    BY <1>5, <2>1, <2>2
  <2>4. QED
    BY <1>1, <1>5, <2>3, ShowsFacts
<1>6. CASE ShowSummary(r)
  <2>1. /\ r.of = "summary" /\ kpi' = [ns |-> activeNs, sys |-> r.sys]
        /\ tile' = [t \in Tiles |-> IF t \in Resources /\ activeNs = AllNs THEN AllNs ELSE tile[t]]
        /\ UNCHANGED <<waste, events, eff, card>>
    BY <1>6 DEF ShowSummary
  <2>2. CASE k \in Tiles
    BY <1>1, <1>3, <2>1, <2>2, ShowsFacts
  <2>3. CASE k = "summary"
    <3>1. r.sys = showSys
      BY <1>3, <2>1, <2>3 DEF Outdated
    <3>2. QED
      BY <1>1, <2>1, <2>3, <3>1, ShowsFacts
  <2>4. CASE k \in {"metrics", "incidents", "efficiency"}
    BY <1>1, <1>3, <2>1, <2>4, ShowsFacts
  <2>5. CASE k \in Cards
    BY <1>5, <2>1, <2>5 DEF Cards
  <2>6. QED
    BY <2>2, <2>3, <2>4, <2>5 DEF Kinds, Chain
<1>7. CASE ShowTile(r)
  <2>1. /\ r.of \in Tiles /\ tile' = [tile EXCEPT ![r.of] = r.ns]
        /\ UNCHANGED <<kpi, waste, events, eff, card>>
    BY <1>7 DEF ShowTile
  <2>2. CASE k \in Tiles
    <3>1. k = r.of => r.ns = activeNs
      BY <1>3, <2>1 DEF Outdated
    <3>2. QED
      BY <1>1, <1>3, <1>4, <2>1, <2>2, <3>1, ShowsFacts
  <2>3. CASE k \in Chain
    BY <1>1, <1>3, <2>1, <2>3, ShowsFacts DEF Chain
  <2>4. CASE k \in Cards
    BY <1>5, <2>1, <2>4 DEF Cards
  <2>5. QED
    BY <2>2, <2>3, <2>4 DEF Kinds
<1>8. CASE ShowMetrics(r)
  <2>1. waste' = activeNs /\ UNCHANGED <<kpi, tile, events, eff>> /\ card' = Redrawn("top")
    BY <1>8 DEF ShowMetrics
  <2>2. CASE k \in Cards
    BY <1>5, <2>1, <2>2 DEF Cards
  <2>3. QED
    BY <1>1, <1>3, <2>1, <2>2, ShowsFacts DEF Kinds, Chain
<1>9. CASE ShowEvents(r)
  <2>1. /\ r.of = "incidents" /\ events' = [ns |-> Narrowed(r.ns, activeNs), sys |-> showSys]
        /\ UNCHANGED <<kpi, tile, waste, eff, card>>
    BY <1>9 DEF ShowEvents
  <2>2. ASSUME k = "incidents"
        PROVE  Narrowed(r.ns, activeNs) = activeNs
    BY <1>3, <2>1, <2>2 DEF Outdated, Narrowed
  <2>3. CASE k \in Cards
    BY <1>5, <2>1, <2>3 DEF Cards
  <2>4. QED
    BY <1>1, <1>3, <2>1, <2>2, <2>3, ShowsFacts DEF Kinds, Chain
<1>10. CASE ShowEfficiency(r)
  <2>1. eff' = activeNs /\ UNCHANGED <<kpi, tile, waste, events>> /\ card' = Redrawn("grades")
    BY <1>10 DEF ShowEfficiency
  <2>2. CASE k \in Cards
    BY <1>5, <2>1, <2>2 DEF Cards
  <2>3. QED
    BY <1>1, <1>3, <2>1, <2>2, ShowsFacts DEF Kinds, Chain
<1>11. QED
  BY <1>6, <1>7, <1>8, <1>9, <1>10 DEF Land

\* Once a panel shows the choices of now, only a request from before they were made can
\* turn it back, and none of those is sent any more (04-overview.js, 07-polling.js).
THEOREM PanelsFollow == OverviewSpec => PanelsKeepUp
<1>1. ASSUME OverviewInv, [OverviewNext]_overviewVars, UNCHANGED page
      PROVE  KeepUp
  <2>1. OverviewTypeOK /\ showSys \in BOOLEAN /\ showSys' = showSys /\ nsFilter' = nsFilter
    BY <1>1 DEF OverviewInv, OverviewTypeOK, PageTypeOK, page
  <2>2. ASSUME UNCHANGED panels, \A r \in Requests : Outdated(r) => flying'[r] <= flying[r]
        PROVE  KeepUp
    <3>1. \A k \in Kinds \cup Cards : ShowsNow(k) => ShowsNow(k)'
      BY <1>1, <2>2, PanelsStay
    <3>2. QED
      BY <2>2, <3>1 DEF KeepUp
  <2>3. ASSUME UNCHANGED <<flying, panels>>
        PROVE  KeepUp
    <3>1. flying' = flying /\ flying \in [Requests -> Nat]
      BY <2>1, <2>3 DEF OverviewTypeOK
    <3>2. \A r \in Requests : flying'[r] <= flying[r]
      BY <3>1
    <3>3. QED
      BY <2>2, <2>3, <3>2
  <2>4. CASE Tick
    <3>1. flying' = Sending(Update(showSys)) /\ \A r \in Update(showSys) : ~Outdated(r)
      BY <2>4, NewRequests DEF Tick, Send
    <3>2. QED
      BY <2>1, <2>2, <2>4, <3>1, SentNow DEF Tick
  <2>5. CASE RefreshOnTileNs
    <3>1. flying' = Sending(UpdateEfficiency) /\ \A r \in UpdateEfficiency : ~Outdated(r)
      BY <2>5, NewRequests DEF RefreshOnTileNs, Send
    <3>2. QED
      BY <2>1, <2>2, <2>5, <3>1, SentNow DEF RefreshOnTileNs
  <2>6. CASE UserSortsEvents
    <3> DEFINE sent == {Request("incidents", activeNs, FALSE)}
    <3>1. flying' = Sending(sent) /\ \A r \in sent : ~Outdated(r)
      BY <2>6, NewRequests DEF UserSortsEvents, Send
    <3> HIDE DEF sent
    <3>2. \A r \in Requests : Outdated(r) => flying'[r] <= flying[r]
      BY <2>1, <3>1, SentNow
    <3>3. UNCHANGED panels
      BY <2>6 DEF UserSortsEvents
    <3>4. QED
      BY <2>2, <3>2, <3>3
  <2>7. CASE ListComes \/ ToggleUnanswered \/ BecomeQuiet
    BY <2>3, <2>7 DEF ListComes, ToggleUnanswered, BecomeQuiet
  <2>8. CASE RefreshOnNs
    BY <2>1, <2>8 DEF RefreshOnNs, ChooseNs
  <2>9. CASE RefreshOnToggle
    <3>1. showSys' = ~showSys
      BY <2>9 DEF RefreshOnToggle, ToggleSys
    <3>2. CASE showSys = TRUE
      BY <2>1, <3>1, <3>2
    <3>3. CASE showSys = FALSE
      BY <2>1, <3>1, <3>3
    <3>4. QED
      BY <2>1, <3>2, <3>3
  <2>10. ASSUME NEW r \in Requests, Fail(r)
         PROVE  KeepUp
    <3>1. flying' = Received(r, {}) /\ UNCHANGED panels /\ \A q \in {} : ~Outdated(q)
      BY <2>10 DEF Fail
    <3>2. \A q \in Requests : Outdated(q) => flying'[q] <= flying[q]
      BY <2>1, <2>10, <3>1, SentNow
    <3>3. QED
      BY <2>2, <3>1, <3>2
  <2>11. ASSUME NEW r \in Requests, Land(r)
         PROVE  KeepUp
    BY <1>1, <2>1, <2>11, LandKeepsUp
  <2>12. CASE UNCHANGED overviewVars
    BY <2>3, <2>12 DEF overviewVars
  <2>13. QED
    BY <1>1, <2>4, <2>5, <2>6, <2>7, <2>8, <2>9, <2>10, <2>11, <2>12 DEF OverviewNext
<1>2. OverviewInv /\ [OverviewNext]_overviewVars => [UNCHANGED page => KeepUp]_overviewVars
  BY <1>1
<1>3. QED
  BY <1>2, OverviewInvariance, PTL DEF OverviewSpec, PanelsKeepUp
=============================================================================
