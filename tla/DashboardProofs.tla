--------------------------- MODULE DashboardProofs ---------------------------
(***************************************************************************)
(* CostChart for any namespaces, ranges and dates, any number of calls in  *)
(* flight and curves of any length; and at the end the page that it shares *)
(* with the panels, where both behave as they do alone.                    *)
(*                                                                         *)
(* ChartIsCurrent is not inductive: what will be drawn has been asked for  *)
(* already.  Unless it is excused, there is at most one call in flight and *)
(* it has asked for what is in force (OneCall, CallIsCurrent), because     *)
(* every control that changes the choices also calls fetchChart.           *)
(***************************************************************************)
EXTENDS Dashboard, OverviewProofs, SequenceTheorems

\* A request for asked is a request for the choices in force.
InForce(asked) ==
  /\ asked.ns = ChartNs
  /\ allNamespaces # Refused => asked.sys = showSys
  /\ activeRange # Custom => asked.range = activeRange
  /\ activeRange = Custom /\ asked.range = Custom /\ dates # NoDates => asked.dates = dates

Busy(s) == waiting[s] # Free

OneCall == ~excused => \A s, t \in Slots : Busy(s) /\ Busy(t) => s = t
CallIsCurrent == ~excused => \A s \in Slots : Busy(s) => InForce(waiting[s].for)
ShownIsCurrent == Settled => InForce(chart.for)
TileIsOffered ==
  /\ tileShown \in Offered(allNamespaces, showSys)
  /\ allNamespaces \in {{}, Refused} => tileNs = AllNs
ForecastHasHistory == chart.forecast > 0 => chart.hist > 0

\* What the controls and the requests make of each other ...
Controls == PageInv /\ TypeOK /\ TileIsOffered /\ TileSelectTells
\* ... and what is drawn of it.
Drawing == OneCall /\ CallIsCurrent /\ ShownIsCurrent /\ TitleTells /\ ForecastHasHistory

Inv == Controls /\ Drawing

-----------------------------------------------------------------------------
(* The lines. *)

LEMMA LineFacts ==
  ASSUME NEW h \in Nat \ {0}, NEW f \in Nat
  PROVE  /\ DOMAIN HistLine(h, f) = 1..(h + f)
         /\ DOMAIN ForecastLine(h, f) = 1..(h + f)
         /\ \A i \in 1..(h + f) :
              /\ HistLine(h, f)[i] = IF i <= h THEN i ELSE Gap
              /\ ForecastLine(h, f)[i] = IF i < h THEN Gap ELSE i
<1> DEFINE points == [i \in 1..h |-> i]
           later == [i \in 1..f |-> h + i]
           bridge == [Gaps(h) EXCEPT ![h] = h]
<1>1. points \in Seq(Int) /\ Len(points) = h
  OBVIOUS
<1>2. later \in Seq(Int) /\ Len(later) = f
  OBVIOUS
<1>3. Gaps(f) \in Seq(Int) /\ Len(Gaps(f)) = f
  BY DEF Gaps, Gap
<1>4. Gaps(h) \in [1..h -> Int] /\ \A i \in 1..h : Gaps(h)[i] = Gap
  BY DEF Gaps, Gap
<1>5. bridge \in [1..h -> Int] /\ \A i \in 1..h : bridge[i] = IF i = h THEN h ELSE Gap
  BY <1>4
<1>6. bridge \in Seq(Int) /\ Len(bridge) = h
  <2> HIDE DEF bridge
  <2>1. QED
    BY <1>5
<1>7. /\ DOMAIN (points \o Gaps(f)) = 1..(h + f)
      /\ \A i \in 1..(h + f) : (points \o Gaps(f))[i] = IF i <= h THEN i ELSE Gap
  <2>1. \A i \in 1..f : Gaps(f)[i] = Gap
    BY DEF Gaps
  <2>2. \A i \in 1..h : points[i] = i
    OBVIOUS
  <2> HIDE DEF points
  <2>3. /\ points \o Gaps(f) \in Seq(Int) /\ Len(points \o Gaps(f)) = h + f
        /\ \A i \in 1..(h + f) : (points \o Gaps(f))[i] =
             IF i <= h THEN points[i] ELSE Gaps(f)[i - h]
    BY <1>1, <1>3, ConcatProperties
  <2>4. \A i \in 1..(h + f) : i <= h => i \in 1..h
    OBVIOUS
  <2>5. \A i \in 1..(h + f) : ~(i <= h) => i - h \in 1..f
    OBVIOUS
  <2> HIDE DEF points
  <2>6. DOMAIN (points \o Gaps(f)) = 1..(h + f)
    BY <2>3
  <2>7. ASSUME NEW i \in 1..(h + f)
        PROVE  (points \o Gaps(f))[i] = IF i <= h THEN i ELSE Gap
    <3>1. CASE i <= h
      BY <2>2, <2>3, <2>4, <3>1
    <3>2. CASE ~(i <= h)
      BY <2>1, <2>3, <2>5, <3>2
    <3>3. QED
      BY <3>1, <3>2
  <2>8. QED
    BY <2>6, <2>7
<1>8. /\ DOMAIN (bridge \o later) = 1..(h + f)
      /\ \A i \in 1..(h + f) : (bridge \o later)[i] = IF i < h THEN Gap ELSE i
  <2>1. \A i \in 1..f : later[i] = h + i
    OBVIOUS
  <2> HIDE DEF bridge, later
  <2>2. /\ bridge \o later \in Seq(Int) /\ Len(bridge \o later) = h + f
        /\ \A i \in 1..(h + f) : (bridge \o later)[i] =
             IF i <= h THEN bridge[i] ELSE later[i - h]
    BY <1>2, <1>6, ConcatProperties
  <2>3. \A i \in 1..(h + f) : i <= h => i \in 1..h
    OBVIOUS
  <2>4. \A i \in 1..(h + f) : ~(i <= h) => i - h \in 1..f /\ h + (i - h) = i
    OBVIOUS
  <2>5. QED
    BY <1>5, <2>1, <2>2, <2>3, <2>4
<1>9. QED
  BY <1>7, <1>8 DEF HistLine, ForecastLine

\* The lines of what is drawn, which has a history if it has a forecast.
LEMMA LinesOfDrawn == Inv => LinesMeet
<1> SUFFICES ASSUME Inv, chart.forecast > 0
             PROVE  LET hist == HistLine(chart.hist, chart.forecast)
                        next == ForecastLine(chart.hist, chart.forecast)
                        at == 1..Labels(chart.hist, chart.forecast)
                    IN  /\ DOMAIN hist = at /\ DOMAIN next = at
                        /\ \A i \in at : hist[i] # Gap \/ next[i] # Gap
                        /\ {i \in at : hist[i] # Gap /\ next[i] # Gap} = {chart.hist}
                        /\ hist[chart.hist] = next[chart.hist]
  BY DEF LinesMeet
<1> DEFINE h == chart.hist
           f == chart.forecast
<1>1. h \in Nat \ {0} /\ f \in Nat \ {0}
  <2>1. chart.hist \in Nat /\ chart.forecast \in Nat
    <3>1. chart.hist \in Histories \cup {0} /\ chart.forecast \in Forecasts \cup {0}
      BY DEF Inv, Controls, TypeOK
    <3>2. ASSUME NEW n \in Histories \cup Forecasts \cup {0}
          PROVE  n \in Nat
      BY CostChartAssumption
    <3>3. QED
      BY <3>1, <3>2, Zenon
  <2>2. chart.hist > 0
    BY DEF Inv, Drawing, ForecastHasHistory
  <2>3. QED
    BY <2>1, <2>2
<1>2. Labels(h, f) = h + f
  BY DEF Labels
<1> HIDE DEF h, f
<1>3. h \in 1..(h + f)
  BY <1>1
<1>4. \A i \in 1..(h + f) :
        /\ HistLine(h, f)[i] = IF i <= h THEN i ELSE 0
        /\ ForecastLine(h, f)[i] = IF i < h THEN 0 ELSE i
  BY <1>1, LineFacts DEF Gap
<1>5. \A i \in 1..(h + f) : HistLine(h, f)[i] # 0 <=> i <= h
  BY <1>1, <1>4
<1>6. \A i \in 1..(h + f) : ForecastLine(h, f)[i] # 0 <=> h <= i
  BY <1>1, <1>4
<1>7. \A i \in 1..(h + f) : (i <= h \/ h <= i) /\ (i <= h /\ h <= i => i = h)
  BY <1>1
<1>8. DOMAIN HistLine(h, f) = 1..(h + f) /\ DOMAIN ForecastLine(h, f) = 1..(h + f)
  BY <1>1, LineFacts
<1>9. HistLine(h, f)[h] = ForecastLine(h, f)[h]
  BY <1>1, <1>3, <1>4
<1>10. {i \in 1..(h + f) : HistLine(h, f)[i] # 0 /\ ForecastLine(h, f)[i] # 0} = {h}
  BY <1>1, <1>3, <1>5, <1>6, <1>7
<1>11. QED
  BY <1>2, <1>5, <1>6, <1>7, <1>8, <1>9, <1>10 DEF Gap, h, f

-----------------------------------------------------------------------------
(* The controls. *)

LEMMA CallFacts ==
  ASSUME TypeOK, NEW s \in Slots
  PROVE  /\ Busy(s) => waiting[s] \in [of : {"history", "forecast"}, for : Asked,
                                       hist : Histories \cup {0}]
         /\ waiting[s].of \in {"history", "forecast"} => Busy(s)
  BY DEF TypeOK, Calls, Busy, Free

LEMMA InitInv == Init => Inv
<1> SUFFICES ASSUME Init
             PROVE  Inv
  OBVIOUS
<1> USE DEF Init
<1>1. PageInv
  BY PageInitInv
<1>2. AllNs \in Ns /\ activeNs = AllNs /\ showSys = FALSE /\ allNamespaces = {}
  BY DEF PageInit, Ns
<1>3. Asking \in Asked /\ Asking.ns = AllNs
  BY <1>2 DEF Asking, Asked, ChartNs, Ranges
<1>4. PICK s \in Slots : waiting = [t \in Slots |->
        IF t = s THEN [of |-> "history", for |-> Asking, hist |-> 0] ELSE Free]
  OBVIOUS
<1>5. [of |-> "history", for |-> Asking, hist |-> 0] \in Calls /\ Free \in Calls
  BY <1>3 DEF Calls
<1>6. waiting \in [Slots -> Calls]
  BY <1>4, <1>5
<1>7. TypeOK
  BY <1>1, <1>2, <1>3, <1>6 DEF PageInv, TypeOK, Ranges
<1>8. TileIsOffered /\ TileSelectTells
  BY OfferedFacts DEF TileIsOffered, TileSelectTells
<1>9. InForce(Asking)
  BY DEF InForce, Asking
<1>10. \A t \in Slots : Busy(t) => t = s /\ waiting[t].for = Asking
  BY <1>4 DEF Busy
<1>11. Busy(s)
  BY <1>4 DEF Busy, Free
<1>12. Drawing
  BY <1>9, <1>10, <1>11
     DEF Drawing, OneCall, CallIsCurrent, ShownIsCurrent, TitleTells, ForecastHasHistory,
         Settled, Idle, Busy
<1>13. QED
  BY <1>1, <1>7, <1>8, <1>12 DEF Inv, Controls

\* A call of fetchChart asks for something it can ask for.
LEMMA FetchType ==
  ASSUME TypeOK, FetchChart, PageTypeOK', activeRange' \in Ranges,
         dates' \in Dates \cup {NoDates}, tileNs' \in Ns, tileShown' \in Ns
  PROVE  TypeOK'
<1>1. Asking' \in Asked
  BY DEF Asking, Asked, ChartNs, PageTypeOK, Ns
<1>2. [of |-> "history", for |-> Asking', hist |-> 0] \in Calls
  BY <1>1 DEF Calls
<1>3. waiting' \in [Slots -> Calls]
  BY <1>2 DEF FetchChart, TypeOK
<1>4. excused' \in BOOLEAN
  BY DEF FetchChart
<1>5. QED
  BY <1>3, <1>4 DEF FetchChart, TypeOK

LEMMA AnswerType ==
  ASSUME Controls, NEW s \in Slots,
         HistoryComes(s) \/ HistoryFails(s) \/ ForecastComes(s) \/ ForecastRefused(s)
  PROVE  TypeOK'
<1> USE DEF Controls
<1>1. Free \in Calls
  BY DEF Calls
<1>2. PageTypeOK' /\ activeRange' \in Ranges /\ dates' \in Dates \cup {NoDates}
      /\ tileNs' \in Ns /\ tileShown' \in Ns
  BY DEF HistoryComes, HistoryFails, ForecastComes, ForecastRefused, Draw, Give, AskForecast,
         page, controls, TypeOK, PageTypeOK
<1>3. waiting[s] \in [of : {"history", "forecast"}, for : Asked, hist : Histories \cup {0}]
  BY CallFacts DEF HistoryComes, HistoryFails, ForecastComes, ForecastRefused
<1>4. ASSUME NEW h \in Histories \cup {0}, NEW f \in Forecasts \cup {0}, Draw(s, h, f)
      PROVE  TypeOK'
  <2>1. waiting' \in [Slots -> Calls] /\ excused' \in BOOLEAN
    BY <1>1, <1>4 DEF Draw, TypeOK
  <2>2. chart' \in [for : Asked, hist : Histories \cup {0}, forecast : Forecasts \cup {0}]
    BY <1>3, <1>4 DEF Draw, TypeOK
  <2>3. title' \in [ns : Ns, range : Ranges]
    BY <1>4 DEF Draw, Titled, TypeOK, PageTypeOK, Ns
  <2>4. QED
    BY <1>2, <2>1, <2>2, <2>3 DEF TypeOK
<1>5. ASSUME Give(s)
      PROVE  TypeOK'
  BY <1>1, <1>2, <1>5 DEF Give, TypeOK
<1>6. ASSUME NEW h \in Histories \cup {0}, AskForecast(s, h)
      PROVE  TypeOK'
  <2>1. [waiting[s] EXCEPT !.of = "forecast", !.hist = h] \in Calls
    BY <1>3 DEF Calls
  <2>2. waiting' \in [Slots -> Calls]
    BY <1>6, <2>1 DEF AskForecast, TypeOK
  <2>3. QED
    BY <1>2, <1>6, <2>2 DEF AskForecast, TypeOK
<1>7. CASE HistoryComes(s)
  <2>1. PICK h \in Histories \cup {0} : AskForecast(s, h) \/ Draw(s, h, 0)
    BY <1>7 DEF HistoryComes
  <2>2. QED
    BY <1>4, <1>6, <2>1
<1>8. CASE ForecastComes(s)
  <2>1. PICK f \in Forecasts \cup {0} : Draw(s, waiting[s].hist, f)
    BY <1>8 DEF ForecastComes
  <2>2. waiting[s].hist \in Histories \cup {0}
    BY <1>3
  <2>3. QED
    BY <1>4, <2>1, <2>2
<1>9. QED
  BY <1>5, <1>7, <1>8 DEF HistoryFails, ForecastRefused

\* No option that is not offered is shown, and only a hidden system namespace is kept.
LEMMA ControlsStep == Controls /\ [Next]_vars => Controls'
<1> SUFFICES ASSUME Controls, [Next]_vars
             PROVE  Controls'
  OBVIOUS
<1> USE DEF Controls
<1>1. activeRange \in Ranges /\ dates \in Dates \cup {NoDates} /\ tileNs \in Ns /\ tileShown \in Ns
      /\ showSys \in BOOLEAN /\ AllNs \in Ns
  BY DEF TypeOK, PageTypeOK, Ns
<1>2. \A loaded, sys : Offered(loaded, sys) \subseteq Ns
  BY OfferedFacts DEF Ns
<1>3. ASSUME LoadNamespaces \/ ChooseNs \/ ToggleSys \/ ToggleUnheard \/ UNCHANGED page
      PROVE  PageInv' /\ PageTypeOK'
  <2>1. PageInv'
    BY <1>3, PageStepInv
  <2>2. QED
    BY <2>1 DEF PageInv
<1>4. CASE NamespacesCome
  <2>1. PageInv' /\ PageTypeOK'
    BY <1>3, <1>4 DEF NamespacesCome
  <2>2. /\ allNamespaces = {} /\ allNamespaces' \in {Namespaces, Refused}
        /\ tileShown = AllNs /\ tileNs = AllNs
    BY <1>4, OfferedFacts DEF NamespacesCome, LoadNamespaces, TileIsOffered
  <2>3. tileShown' = AllNs /\ UNCHANGED <<activeRange, dates, tileNs>>
    BY <1>4, <2>2, KeptFacts DEF NamespacesCome
  <2>4. TypeOK'
    BY <1>1, <1>4, <2>1, <2>3 DEF NamespacesCome, NoFetch, TypeOK
  <2>5. TileIsOffered' /\ TileSelectTells'
    BY <2>2, <2>3, OfferedFacts DEF TileIsOffered, TileSelectTells
  <2>6. QED
    BY <2>1, <2>4, <2>5
<1>5. CASE UserChoosesNs
  <2>1. PageInv' /\ PageTypeOK'
    BY <1>3, <1>5 DEF UserChoosesNs
  <2>2. TypeOK'
    BY <1>1, <1>5, <2>1, FetchType DEF UserChoosesNs, controls
  <2>3. TileIsOffered' /\ TileSelectTells'
    BY <1>5 DEF UserChoosesNs, ChooseNs, controls, TileIsOffered, TileSelectTells
  <2>4. QED
    BY <2>1, <2>2, <2>3
<1>6. CASE UserTogglesSys
  <2>1. PageInv' /\ PageTypeOK'
    BY <1>3, <1>6 DEF UserTogglesSys
  <2>2. /\ tileShown' = Kept(tileShown, Offered(allNamespaces, showSys'))
        /\ showSys' = ~showSys /\ UNCHANGED <<allNamespaces, activeRange, dates, tileNs>>
    BY <1>6 DEF UserTogglesSys, ToggleSys
  <2>3. tileShown' \in Offered(allNamespaces', showSys') /\ tileShown' \in {tileShown, AllNs}
    BY <2>2, KeptFacts
  <2>4. TypeOK'
    BY <1>1, <1>2, <1>6, <2>1, <2>2, <2>3, FetchType DEF UserTogglesSys
  <2>5. CASE tileShown \in Offered(allNamespaces, showSys')
    BY <2>2, <2>3, <2>4, <2>5, <2>1, KeptFacts DEF TileIsOffered, TileSelectTells
  <2>6. CASE tileShown \notin Offered(allNamespaces, showSys')
    <3>1. tileShown \in System /\ tileShown' = AllNs
      BY <1>1, <2>2, <2>6, ToggledOptions DEF TileIsOffered, Kept
    <3>2. tileShown # AllNs
      BY <3>1, PageAssumption
    <3>3. TileSelectTells'
      BY <2>2, <3>1, <3>2 DEF TileSelectTells
    <3>4. QED
      BY <2>1, <2>2, <2>3, <2>4, <3>3 DEF TileIsOffered
  <2>7. QED
    BY <2>5, <2>6
<1>7. CASE UserTogglesUnheard
  <2>1. PageInv' /\ PageTypeOK'
    BY <1>3, <1>7 DEF UserTogglesUnheard
  <2>2. TypeOK'
    BY <1>1, <1>7, <2>1 DEF UserTogglesUnheard, NoFetch, controls, TypeOK
  <2>3. TileIsOffered' /\ TileSelectTells'
    BY <1>7, OfferedFacts
       DEF UserTogglesUnheard, ToggleUnheard, controls, TileIsOffered, TileSelectTells
  <2>4. QED
    BY <2>1, <2>2, <2>3
<1>8. CASE ChooseTileNs
  <2>1. /\ tileShown' \in Offered(allNamespaces, showSys) /\ tileNs' = tileShown'
        /\ UNCHANGED <<page, activeRange, dates>> /\ FetchChart
    BY <1>8 DEF ChooseTileNs
  <2>2. PageInv' /\ PageTypeOK'
    BY <1>3, <2>1
  <2>3. TypeOK'
    BY <1>1, <1>2, <2>1, <2>2, FetchType
  <2>4. TileIsOffered' /\ TileSelectTells'
    BY <2>1, OfferedFacts DEF page, TileIsOffered, TileSelectTells
  <2>5. QED
    BY <2>2, <2>3, <2>4
<1>9. CASE PickPreset \/ PickCustom \/ ApplyCustom
  <2>1. /\ UNCHANGED <<page, tileNs, tileShown>> /\ (FetchChart \/ NoFetch)
        /\ activeRange' \in Ranges /\ dates' \in Dates \cup {NoDates}
    BY <1>1, <1>9 DEF PickPreset, PickCustom, ApplyCustom, Ranges
  <2>2. PageInv' /\ PageTypeOK'
    BY <1>3, <2>1
  <2>3. TypeOK'
    <3>1. CASE FetchChart
      BY <1>1, <2>1, <2>2, <3>1, FetchType
    <3>2. CASE NoFetch
      BY <1>1, <2>1, <2>2, <3>2 DEF NoFetch, TypeOK
    <3>3. QED
      BY <2>1, <3>1, <3>2
  <2>4. TileIsOffered' /\ TileSelectTells'
    BY <2>1 DEF page, TileIsOffered, TileSelectTells
  <2>5. QED
    BY <2>2, <2>3, <2>4
<1>10. ASSUME NEW s \in Slots,
              HistoryComes(s) \/ HistoryFails(s) \/ ForecastComes(s) \/ ForecastRefused(s)
       PROVE  Controls'
  <2>1. UNCHANGED <<page, controls>>
    BY <1>10 DEF HistoryComes, HistoryFails, ForecastComes, ForecastRefused, Draw, Give, AskForecast
  <2>2. PageInv' /\ PageTypeOK'
    BY <1>3, <2>1
  <2>3. TileIsOffered' /\ TileSelectTells'
    BY <2>1 DEF page, controls, TileIsOffered, TileSelectTells
  <2>4. QED
    BY <1>10, <2>2, <2>3, AnswerType
<1>11. CASE UNCHANGED vars
  <2>1. UNCHANGED <<page, controls, waiting, chart, title, excused>>
    BY <1>11 DEF vars
  <2>2. PageInv' /\ PageTypeOK'
    BY <1>3, <2>1
  <2>3. QED
    BY <1>1, <2>1, <2>2 DEF page, controls, TileIsOffered, TileSelectTells, TypeOK
<1>12. QED
  BY <1>4, <1>5, <1>6, <1>7, <1>8, <1>9, <1>10, <1>11 DEF Next

-----------------------------------------------------------------------------
(* The chart. *)

\* A new call asks for the choices as the control has left them.
LEMMA FetchDrawing ==
  ASSUME Inv, FetchChart
  PROVE  Drawing'
<1> USE DEF Inv, Controls, Drawing
<1>1. PICK s \in Slots :
        /\ waiting[s] = Free
        /\ waiting' = [waiting EXCEPT ![s] = [of |-> "history", for |-> Asking', hist |-> 0]]
  BY DEF FetchChart
<1>2. excused' = ~Idle /\ UNCHANGED <<chart, title>>
  BY DEF FetchChart
<1>3. /\ waiting'[s] = [of |-> "history", for |-> Asking', hist |-> 0]
      /\ \A t \in Slots : t # s => waiting'[t] = waiting[t]
  BY <1>1 DEF TypeOK
<1>4. waiting'[s] # Free
  BY <1>3 DEF Free
<1>5. ~excused' => \A t \in Slots : waiting'[t] # Free => t = s
  BY <1>2, <1>3 DEF Idle
<1>6. InForce(waiting[s].for)'
  <2>1. waiting'[s].for = Asking'
    BY <1>3
  <2>2. InForce(Asking)'
    BY DEF InForce, Asking
  <2>3. QED
    BY <2>1, <2>2 DEF InForce
<1>7. OneCall' /\ CallIsCurrent'
  <2>1. OneCall'
    BY <1>5 DEF OneCall, Busy
  <2>2. ASSUME ~excused', NEW t \in Slots, Busy(t)'
        PROVE  InForce(waiting[t].for)'
    BY <1>5, <1>6, <2>2 DEF Busy
  <2>3. QED
    BY <2>1, <2>2 DEF CallIsCurrent
<1>8. ~Settled'
  BY <1>4 DEF Settled, Idle
<1>9. QED
  BY <1>2, <1>7, <1>8 DEF ShownIsCurrent, TitleTells, ForecastHasHistory

\* A step that fetches nothing leaves in force what is.
LEMMA NoFetchDrawing ==
  ASSUME Inv, NoFetch, UNCHANGED tileNs,
         \A asked : InForce(asked) => InForce(asked)'
  PROVE  Drawing'
<1> USE DEF Inv, Drawing
<1>1. OneCall' /\ CallIsCurrent'
  BY DEF NoFetch, OneCall, CallIsCurrent, Busy
<1>2. ShownIsCurrent' /\ TitleTells' /\ ForecastHasHistory'
  BY DEF NoFetch, ShownIsCurrent, TitleTells, ForecastHasHistory, Settled, Idle
<1>3. QED
  BY <1>1, <1>2

\* What is drawn is of the only call, unless it is excused.
LEMMA DrawDrawing ==
  ASSUME Inv, NEW s \in Slots, Busy(s), NEW h \in Histories \cup {0},
         NEW f \in Forecasts \cup {0}, Draw(s, h, f)
  PROVE  Drawing'
<1> USE DEF Inv, Controls, Drawing
<1>1. h \in Nat /\ f \in Nat
  BY CostChartAssumption
<1>2. /\ waiting' = [waiting EXCEPT ![s] = Free] /\ title' = Titled
      /\ chart' = IF h > 0 THEN [for |-> waiting[s].for, hist |-> h, forecast |-> f] ELSE chart
      /\ excused' = (excused \/ h = 0) /\ UNCHANGED <<page, controls>>
  BY DEF Draw
<1>3. \A asked : InForce(asked) => InForce(asked)'
  BY <1>2 DEF InForce, ChartNs, page, controls
<1>4. \A t \in Slots : waiting'[t] # Free => t # s /\ waiting'[t] = waiting[t]
  BY <1>2 DEF TypeOK
<1>5. OneCall' /\ CallIsCurrent'
  BY <1>2, <1>3, <1>4 DEF OneCall, CallIsCurrent, Busy
<1>6. ForecastHasHistory'
  BY <1>1, <1>2 DEF ForecastHasHistory
<1>7. ASSUME ~excused'
      PROVE  /\ InForce(chart.for)'
             /\ title.ns' = chart.for.ns' \/ chart.for.ns' = tileNs'
             /\ title.range' = chart.for.range' \/ title.range' = Custom
  <2>1. ~excused /\ h > 0
    <3>1. ~excused /\ h # 0
      BY <1>2, <1>7, Zenon
    <3>2. QED
      BY <1>1, <3>1
  <2>2. InForce(waiting[s].for) /\ chart'.for = waiting[s].for
    BY <1>2, <2>1 DEF CallIsCurrent
  <2>3. InForce(chart.for)'
    BY <1>3, <2>2
  <2>4. title'.ns = activeNs /\ title'.range = activeRange
    BY <1>2 DEF Titled
  <2>5. chart'.for.ns \in {activeNs, tileNs} /\ tileNs' = tileNs
    BY <1>2, <2>2 DEF InForce, ChartNs, controls
  <2>6. chart'.for.range = activeRange \/ activeRange = Custom
    BY <2>2 DEF InForce
  <2>7. QED
    BY <2>3, <2>4, <2>5, <2>6
<1>8. ShownIsCurrent' /\ TitleTells'
  BY <1>7 DEF ShownIsCurrent, TitleTells, Settled
<1>9. QED
  BY <1>5, <1>6, <1>8

LEMMA AnswerDrawing ==
  ASSUME Inv, NEW s \in Slots,
         HistoryComes(s) \/ HistoryFails(s) \/ ForecastComes(s) \/ ForecastRefused(s)
  PROVE  Drawing'
<1> USE DEF Inv, Controls, Drawing
<1>1. Busy(s)
  BY CallFacts DEF HistoryComes, HistoryFails, ForecastComes, ForecastRefused
<1>2. waiting[s] \in [of : {"history", "forecast"}, for : Asked, hist : Histories \cup {0}]
  BY <1>1, CallFacts
<1>3. ASSUME Give(s)
      PROVE  Drawing'
  <2>1. excused' = TRUE /\ chart' = chart
    BY <1>3 DEF Give
  <2>2. QED
    BY <2>1 DEF OneCall, CallIsCurrent, ShownIsCurrent, TitleTells, ForecastHasHistory, Settled
<1>4. ASSUME NEW h \in Histories \cup {0}, AskForecast(s, h)
      PROVE  Drawing'
  <2>1. /\ waiting' = [waiting EXCEPT ![s] = [waiting[s] EXCEPT !.of = "forecast", !.hist = h]]
        /\ UNCHANGED <<page, controls, chart, title, excused>>
    BY <1>4 DEF AskForecast, TypeOK
  <2>2. waiting'[s].for = waiting[s].for /\ waiting'[s] # Free
    BY <1>2, <2>1 DEF TypeOK, Free
  <2>3. \A t \in Slots : waiting'[t].for = waiting[t].for
    BY <2>1, <2>2 DEF TypeOK
  <2>4. \A t \in Slots : waiting'[t] # Free => waiting[t] # Free
    BY <1>1, <2>1 DEF TypeOK, Busy
  <2>5. \A asked : InForce(asked) => InForce(asked)'
    BY <2>1 DEF InForce, ChartNs, page, controls
  <2>6. OneCall' /\ CallIsCurrent'
    BY <2>1, <2>3, <2>4, <2>5 DEF OneCall, CallIsCurrent, Busy
  <2>7. ~Settled'
    BY <2>2 DEF Settled, Idle
  <2>8. QED
    BY <2>1, <2>6, <2>7 DEF ShownIsCurrent, TitleTells, ForecastHasHistory
<1>5. CASE HistoryComes(s)
  <2>1. PICK h \in Histories \cup {0} : AskForecast(s, h) \/ Draw(s, h, 0)
    BY <1>5 DEF HistoryComes
  <2>2. QED
    BY <1>1, <1>4, <2>1, DrawDrawing
<1>6. CASE ForecastComes(s)
  <2>1. PICK f \in Forecasts \cup {0} : Draw(s, waiting[s].hist, f)
    BY <1>6 DEF ForecastComes
  <2>2. waiting[s].hist \in Histories \cup {0}
    BY <1>2
  <2>3. QED
    BY <1>1, <2>1, <2>2, DrawDrawing
<1>7. QED
  BY <1>3, <1>5, <1>6 DEF HistoryFails, ForecastRefused

LEMMA StepInv == Inv /\ [Next]_vars => Inv'
<1> SUFFICES ASSUME Inv, [Next]_vars
             PROVE  Drawing'
  BY ControlsStep DEF Inv
<1>1. CASE NamespacesCome
  <2>1. allNamespaces # Refused /\ UNCHANGED <<activeNs, showSys, activeRange, dates, tileNs>>
    BY <1>1 DEF NamespacesCome, LoadNamespaces, Refused
  <2>2. \A asked : InForce(asked) => InForce(asked)'
    BY <2>1 DEF InForce, ChartNs
  <2>3. QED
    BY <1>1, <2>1, <2>2, NoFetchDrawing DEF NamespacesCome
<1>2. CASE UserChoosesNs \/ UserTogglesSys \/ ChooseTileNs \/ PickPreset
  BY <1>2, FetchDrawing DEF UserChoosesNs, UserTogglesSys, ChooseTileNs, PickPreset
<1>3. CASE UserTogglesUnheard
  <2>1. allNamespaces' = Refused /\ UNCHANGED <<activeNs, activeRange, dates, tileNs>>
    BY <1>3 DEF UserTogglesUnheard, ToggleUnheard, controls
  <2>2. \A asked : InForce(asked) => InForce(asked)'
    BY <2>1 DEF InForce, ChartNs
  <2>3. QED
    BY <1>3, <2>1, <2>2, NoFetchDrawing DEF UserTogglesUnheard
<1>4. CASE PickCustom
  <2>1. activeRange' = Custom /\ UNCHANGED <<page, dates, tileNs>>
    BY <1>4 DEF PickCustom
  <2>2. \A asked : InForce(asked) => InForce(asked)'
    BY <2>1 DEF InForce, ChartNs, page
  <2>3. QED
    BY <1>4, <2>1, <2>2, NoFetchDrawing DEF PickCustom
<1>5. CASE ApplyCustom
  <2>1. CASE FetchChart
    BY <2>1, FetchDrawing
  <2>2. CASE dates' = NoDates /\ NoFetch
    <3>1. UNCHANGED <<page, activeRange, tileNs>>
      BY <1>5 DEF ApplyCustom
    <3>2. \A asked : InForce(asked) => InForce(asked)'
      BY <2>2, <3>1 DEF InForce, ChartNs, page
    <3>3. QED
      BY <2>2, <3>1, <3>2, NoFetchDrawing
  <2>3. QED
    BY <1>5, <2>1, <2>2 DEF ApplyCustom
<1>6. CASE UNCHANGED vars
  <2>1. UNCHANGED <<page, controls, waiting, chart, title, excused>>
    BY <1>6 DEF vars
  <2>2. \A asked : InForce(asked) => InForce(asked)'
    BY <2>1 DEF InForce, ChartNs, page, controls
  <2>3. QED
    BY <2>1, <2>2, NoFetchDrawing DEF NoFetch, controls
<1>7. QED
  BY <1>1, <1>2, <1>3, <1>4, <1>5, <1>6, AnswerDrawing DEF Next

-----------------------------------------------------------------------------
\* The invariant holds in every reachable state.
THEOREM Invariance == Spec => []Inv
  BY InitInv, StepInv, PTL DEF Spec

\* Controls, calls and what is drawn have their types (fetchChart, 06-drawers.js 18-58).
THEOREM TypeCorrect == Spec => []TypeOK
<1>1. Inv => TypeOK
  BY DEF Inv, Controls
<1>2. QED
  BY <1>1, Invariance, PTL

\* The select of the page shows the namespace that filters, and offers it, whatever the
\* toggle and the list of namespaces do (renderDropdowns, 06-drawers.js 18-34).
THEOREM FilterHonest == Spec => []FilterIsHonest
<1>1. Inv => FilterIsHonest
  BY DEF Inv, Controls, PageInv
<1>2. QED
  BY <1>1, Invariance, PTL

\* Once nothing is in flight the chart is of the choices in force, but for the cases that
\* ChartIsCurrent names (fetchChart and all that call it).
THEOREM ChartFollows == Spec => []ChartIsCurrent
<1>1. Inv => ChartIsCurrent
  BY DEF Inv, Drawing, ShownIsCurrent, ChartIsCurrent, InForce
<1>2. QED
  BY <1>1, Invariance, PTL

\* The title differs from the chart in its two ways only (fetchChart 757-760).
THEOREM TitleFollows == Spec => []TitleTells
<1>1. Inv => TitleTells
  BY DEF Inv, Drawing
<1>2. QED
  BY <1>1, Invariance, PTL

\* The select of the tile shows what filters the chart, or a hidden system namespace
\* does (renderDropdowns).
THEOREM TileSelectFollows == Spec => []TileSelectTells
<1>1. Inv => TileSelectTells
  BY DEF Inv, Controls
<1>2. QED
  BY <1>1, Invariance, PTL

\* History and forecast, of any length, meet in one point and leave no label without a
\* point (uLine).
THEOREM CurvesMeet == Spec => []LinesMeet
  BY LinesOfDrawn, Invariance, PTL

-----------------------------------------------------------------------------
(* The shared page. *)

\* Every change of the choices on the page is one of those that the panels hear, and no
\* step of the chart disturbs them (06-drawers.js 18-34, 07-polling.js 53-67).
THEOREM PanelsAsAlone == DashboardSpec => ActsAsOverview
<1>1. DashboardInit => OverviewInit
  BY DEF DashboardInit
<1>2. [DashboardNext]_dashboardVars => [OverviewNext]_overviewVars
  <2>1. CASE Shared
    BY <2>1 DEF Shared, ListLoaded, NsChosen, SysToggled, SysToggledUnheard, TileNsChosen,
                OverviewNext
  <2>2. CASE ChartStep
    <3>1. UNCHANGED page
      BY <2>2 DEF ChartStep, PickPreset, PickCustom, ApplyCustom, HistoryComes, HistoryFails,
                  ForecastComes, ForecastRefused, Give, Draw, AskForecast, page
    <3>2. QED
      BY <2>2, <3>1 DEF ChartStep, PanelsStill, overviewVars
  <2>3. CASE PanelStep
    BY <2>3 DEF PanelStep, OverviewNext
  <2>4. CASE UNCHANGED dashboardVars
    BY <2>4 DEF dashboardVars, overviewVars
  <2>5. QED
    BY <2>1, <2>2, <2>3, <2>4 DEF DashboardNext
<1>3. QED
  BY <1>1, <1>2, PTL DEF DashboardSpec, ActsAsOverview, OverviewSpec

\* The chart hears every change of the choices, too, and no refresh of the panels
\* disturbs it.
THEOREM ChartAsAlone == DashboardSpec => ActsAsChart
<1>1. DashboardInit => Init
  BY DEF DashboardInit
<1>2. [DashboardNext]_dashboardVars => [Next]_vars
  <2>1. CASE Shared
    BY <2>1 DEF Shared, ListLoaded, NsChosen, SysToggled, SysToggledUnheard, TileNsChosen, Next
  <2>2. CASE ChartStep
    BY <2>2 DEF ChartStep, Next
  <2>3. CASE PanelStep
    <3>1. UNCHANGED page
      BY <2>3 DEF PanelStep, Tick, UserSortsEvents, Land, Fail, ShowSummary, ShowTile,
                  ShowMetrics, ShowEvents, ShowEfficiency, page
    <3>2. QED
      BY <2>3, <3>1 DEF PanelStep, chartVars, vars
  <2>4. CASE UNCHANGED dashboardVars
    BY <2>4 DEF dashboardVars, overviewVars, chartVars, vars
  <2>5. QED
    BY <2>1, <2>2, <2>3, <2>4 DEF DashboardNext
<1>3. QED
  BY <1>1, <1>2, PTL DEF DashboardSpec, ActsAsChart, Spec

\* So what was proved of each part alone holds on the page they share.
THEOREM PageKeepsBoth ==
  DashboardSpec => /\ [](FilterIsHonest /\ ChartIsCurrent /\ TitleTells /\ TileSelectTells)
                   /\ PanelsKeepUp
<1>1. DashboardSpec => OverviewSpec /\ Spec
  BY PanelsAsAlone, ChartAsAlone DEF ActsAsOverview, ActsAsChart
<1>2. QED
  BY <1>1, PanelsFollow, FilterHonest, ChartFollows, TitleFollows, TileSelectFollows, PTL
=============================================================================
