--------------------------- MODULE FirstRunProofs ---------------------------
(***************************************************************************)
(* FirstRun for a tour of any length, on a page that lacks any of its      *)
(* elements.                                                               *)
(*                                                                         *)
(* What the tour may do next rests on TourHasTarget, which is inductive    *)
(* with the types: Back always finds the step it came from.  That the      *)
(* three signals agree is not; it needs that they are all of one answer    *)
(* (SignalsOfAnswer).                                                      *)
(***************************************************************************)
EXTENDS FirstRun, TLAPS

\* Nothing has been shown since the page was loaded, or all three signals are of answer.
SignalsOfAnswer ==
  \/ summary = "checking" /\ banner = FALSE /\ tip = "none" /\ answer = NoAnswer
  \/ /\ summary = HealthSummary(answer)
     /\ banner = BannerShown(answer)
     /\ tip = answer.checks["database"]

Inv == TypeOK /\ TourHasTarget /\ SignalsOfAnswer

-----------------------------------------------------------------------------
\* What an answer of /health looks like.
LEMMA AnswerFacts ==
  ASSUME NEW a \in Answers
  PROVE  /\ a.checks["database"] \in {"ok", "unhealthy", "unknown"}
         /\ BannerShown(a) \in BOOLEAN
         /\ HealthSummary(a) \in {"unavailable", "degraded", "ok"}
         /\ a.status = "ok" => a.known /\ \A c \in Checks : a.checks[c] = "ok"
         /\ a.known /\ (\A c \in Checks : a.checks[c] = "ok") => a.status = "ok" \/ ~a.closed
<1>1. {"database", "metrics_api"} \subseteq Checks
  BY DEF Checks
<1>2. CASE a = NoAnswer
  BY <1>1, <1>2 DEF NoAnswer, BannerShown, HealthSummary
<1>3. ASSUME NEW f \in Found, a = HandleHealth(f)
      PROVE  /\ a.checks["database"] \in {"ok", "unhealthy", "unknown"}
             /\ BannerShown(a) \in BOOLEAN
             /\ HealthSummary(a) \in {"unavailable", "degraded", "ok"}
             /\ a.status = "ok" => a.known /\ \A c \in Checks : a.checks[c] = "ok"
             /\ a.known /\ (\A c \in Checks : a.checks[c] = "ok") => a.status = "ok" \/ ~a.closed
  <2>1. /\ a.known = TRUE /\ a.closed = f.closed
        /\ \A c \in Checks : a.checks[c] = CheckOf(f, c)
        /\ a.status = IF f.closed /\ \A c \in Checks : CheckOf(f, c) = "ok"
                      THEN "ok" ELSE "degraded"
    BY <1>3 DEF HandleHealth
  <2>2. a.checks["database"] \in {"ok", "unhealthy"}
    BY <1>1, <2>1 DEF CheckOf
  <2>3. BannerShown(a) \in BOOLEAN
    BY <2>1 DEF BannerShown
  <2>4. HealthSummary(a) \in {"degraded", "ok"}
    BY <2>1 DEF HealthSummary
  <2>5. QED
    BY <2>1, <2>2, <2>3, <2>4
<1>4. QED
  BY <1>2, <1>3 DEF Answers

\* The tour goes to an element that is there, under no drawer, or ends.
LEMMA RenderFacts ==
  ASSUME NEW i \in Steps, RenderStep(i)
  PROVE  /\ drawer' = FALSE
         /\ \/ /\ active' = FALSE /\ step' = 0 /\ target' = NoTarget
               /\ Showable(i) = {}
            \/ /\ active' = TRUE /\ target' = step'
               /\ step' \in Showable(i) /\ \A k \in Showable(i) : step' <= k
  BY DEF RenderStep, StopTour, DrawerAtStep

LEMMA ShowableFacts ==
  ASSUME NEW i \in Steps, NEW j \in Showable(i)
  PROVE  j \in Steps /\ j \in present /\ i <= j
  BY FirstRunAssumption DEF Showable, Steps

LEMMA InitInv == Init => Inv
<1> SUFFICES ASSUME Init
             PROVE  Inv
  OBVIOUS
<1>1. 0 \in Steps /\ NoTarget \in Steps \cup {NoTarget}
  BY FirstRunAssumption DEF Steps
<1>2. TypeOK
  BY <1>1 DEF Init, TypeOK, Answers
<1>3. TourHasTarget /\ SignalsOfAnswer
  BY DEF Init, TourHasTarget, SignalsOfAnswer
<1>4. QED
  BY <1>2, <1>3 DEF Inv

\* The part of the invariant that the tour, the panel and the drawer can disturb.
TourOK ==
  /\ done \in BOOLEAN /\ panel \in BOOLEAN /\ drawer \in BOOLEAN
  /\ active \in BOOLEAN /\ step \in Steps /\ target \in Steps \cup {NoTarget}
  /\ TourHasTarget

LEMMA RenderOK ==
  ASSUME Inv, NEW i \in Steps, RenderStep(i), panel', UNCHANGED browser
  PROVE  /\ drawer' \in BOOLEAN /\ active' \in BOOLEAN /\ step' \in Steps
         /\ target' \in Steps \cup {NoTarget} /\ TourHasTarget'
<1>1. 0 \in Steps /\ present' = present
  BY FirstRunAssumption DEF Steps, browser
<1>2. CASE active' = FALSE
  BY <1>1, <1>2, RenderFacts DEF TourHasTarget
<1>3. CASE active' = TRUE
  <2>1. step' \in Showable(i) /\ target' = step' /\ drawer' = FALSE
    BY <1>3, RenderFacts
  <2>2. step' \in Steps /\ step' \in present
    BY <2>1, ShowableFacts
  <2>3. QED
    BY <1>1, <1>3, <2>1, <2>2 DEF TourHasTarget
<1>4. QED
  BY <1>2, <1>3, RenderFacts

\* The invariant is preserved by every step.
LEMMA StepInv == Inv /\ [Next]_vars => Inv'
<1> SUFFICES ASSUME Inv, [Next]_vars
             PROVE  Inv'
  OBVIOUS
<1> USE DEF Inv, TypeOK, browser, tour, health
<1>1. 0 \in Steps /\ Steps \subseteq Int /\ Last \in Nat /\ Steps = 0..Last
  BY FirstRunAssumption DEF Steps
<1>2. ASSUME TourOK', UNCHANGED <<browser, health>>
      PROVE  Inv'
  BY <1>2 DEF TourOK, SignalsOfAnswer
<1>3. ASSUME StopTour, UNCHANGED <<browser, health>>, done' \in BOOLEAN,
             panel' \in BOOLEAN, drawer' \in BOOLEAN
      PROVE  Inv'
  <2>1. TourOK'
    BY <1>1, <1>3 DEF StopTour, TourOK, TourHasTarget
  <2>2. QED
    BY <1>2, <1>3, <2>1
<1>4. CASE Reload
  <2>1. panel' \in BOOLEAN /\ drawer' \in BOOLEAN
    BY <1>4 DEF Reload, IsDone
  <2>2. TourHasTarget' /\ step' \in Steps /\ target' = NoTarget /\ active' = FALSE
    BY <1>1, <1>4 DEF Reload, StopTour, TourHasTarget
  <2>3. answer' \in Answers /\ SignalsOfAnswer'
    BY <1>4 DEF Reload, SignalsOfAnswer, Answers
  <2>4. banner' \in BOOLEAN /\ summary' = "checking" /\ tip' = "none"
    BY <1>4 DEF Reload
  <2>5. QED
    BY <1>4, <2>1, <2>2, <2>3, <2>4 DEF Reload
<1>5. CASE RefreshHealth
  <2>1. PICK a \in Answers : /\ answer' = a /\ tip' = a.checks["database"]
                             /\ banner' = BannerShown(a) /\ summary' = HealthSummary(a)
                             /\ UNCHANGED <<browser, done, panel, tour, drawer>>
    BY <1>5 DEF RefreshHealth
  <2>2. banner' \in BOOLEAN
    BY <2>1, AnswerFacts
  <2>3. summary' \in {"unavailable", "degraded", "ok"} /\ tip' \in {"ok", "unhealthy", "unknown"}
    BY <2>1, AnswerFacts
  <2>4. SignalsOfAnswer'
    BY <2>1 DEF SignalsOfAnswer
  <2>5. TourHasTarget'
    BY <2>1 DEF TourHasTarget
  <2>6. QED
    BY <2>1, <2>2, <2>3, <2>4, <2>5
<1>6. CASE StartTour \/ Reopen
  <2>1. RenderStep(0) /\ panel' = TRUE /\ UNCHANGED <<browser, done, health>>
    BY <1>6 DEF StartTour, Reopen
  <2>2. QED
    BY <1>1, <1>2, <2>1, RenderOK DEF TourOK
<1>7. CASE Dismiss \/ Complete \/ Finish \/ Skip
  <2>1. StopTour /\ UNCHANGED <<browser, drawer, health>> /\ panel' \in BOOLEAN
    BY <1>7 DEF Dismiss, Complete, Finish, Skip
  <2>2. done' \in BOOLEAN
    BY <1>7 DEF Dismiss, Complete, Finish, Skip, SetDone
  <2>3. QED
    BY <1>3, <2>1, <2>2
<1>8. CASE GoOn
  <2>1. RenderStep(step + 1) /\ UNCHANGED <<browser, done, panel, health>>
    BY <1>8 DEF GoOn
  <2>2. step + 1 \in Steps
    BY <1>1, <1>8 DEF GoOn, AtEnd
  <2>3. panel = TRUE
    BY <1>8 DEF GoOn, TourHasTarget
  <2>4. QED
    BY <1>2, <2>1, <2>2, <2>3, RenderOK DEF TourOK
<1>9. CASE Back
  <2>1. RenderStep(step - 1) /\ UNCHANGED <<browser, done, panel, health>>
    BY <1>9 DEF Back
  <2>2. step - 1 \in Steps
    BY <1>1, <1>9 DEF Back
  <2>3. panel = TRUE
    BY <1>9 DEF Back, TourHasTarget
  <2>4. QED
    BY <1>2, <2>1, <2>2, <2>3, RenderOK DEF TourOK
<1>10. CASE Escapes
  <2>1. CASE StopTour /\ UNCHANGED drawer
    BY <1>3, <1>10, <2>1 DEF Escapes
  <2>2. CASE drawer' = FALSE /\ KeepTour
    <3>1. TourOK'
      BY <1>10, <2>2 DEF Escapes, KeepTour, TourOK, TourHasTarget
    <3>2. QED
      BY <1>2, <1>10, <3>1 DEF Escapes
  <2>3. QED
    BY <1>10, <2>1, <2>2 DEF Escapes, Escape
<1>11. CASE OpenDrawer \/ CloseDrawer
  <2>1. drawer' \in BOOLEAN /\ UNCHANGED <<browser, done, panel, tour, health>>
    BY <1>11 DEF OpenDrawer, CloseDrawer
  <2>2. TourOK'
    BY <2>1 DEF TourOK, TourHasTarget
  <2>3. QED
    BY <1>2, <2>1, <2>2
<1>12. CASE UNCHANGED vars
  <2>1. TourOK'
    BY <1>12 DEF vars, TourOK, TourHasTarget
  <2>2. QED
    BY <1>2, <1>12, <2>1 DEF vars
<1>13. QED
  BY <1>4, <1>5, <1>6, <1>7, <1>8, <1>9, <1>10, <1>11, <1>12 DEF Next

\* The invariant holds in every reachable state.
THEOREM Invariance == Spec => []Inv
  BY InitInv, StepInv, PTL DEF Spec

\* Panel, tour, drawer, mark and signals have their types.
THEOREM TypeCorrect == Spec => []TypeOK
<1>1. Inv => TypeOK
  BY DEF Inv
<1>2. QED
  BY <1>1, Invariance, PTL

\* The spotlight is always on an element that is there, with the panel shown, and on
\* nothing when the tour is over (renderOnboardingTourStep, stopOnboardingTour).
THEOREM TourPoints == Spec => []TourHasTarget
<1>1. Inv => TourHasTarget
  BY DEF Inv
<1>2. QED
  BY <1>1, Invariance, PTL

\* Summary, banner and tooltip say the same of one answer, and what its overall status
\* says, except for a breaker that is open while every check is well
\* (refreshHealthSignals, handleHealth).
THEOREM SignalsOfOneAnswer == Spec => []SignalsAgree
<1>1. ASSUME Inv
      PROVE  SignalsAgree
  <2> USE <1>1 DEF Inv, TypeOK, SignalsOfAnswer
  <2>1. CASE summary = "checking" /\ banner = FALSE /\ answer = NoAnswer
    BY <2>1 DEF SignalsAgree, NoAnswer
  <2>2. CASE /\ summary = HealthSummary(answer) /\ banner = BannerShown(answer)
             /\ tip = answer.checks["database"]
    <3>1. {"database", "metrics_api"} \subseteq Checks
      BY DEF Checks
    <3>2. banner => summary = "degraded"
      BY <2>2, <3>1 DEF BannerShown, HealthSummary
    <3>3. summary = "ok" => answer.known /\ \A c \in Checks : answer.checks[c] = "ok"
      BY <2>2 DEF HealthSummary
    <3>4. summary = "ok" => tip = "ok" /\ ~banner /\ (answer.status = "ok" \/ ~answer.closed)
      BY <2>2, <3>1, <3>3, AnswerFacts DEF BannerShown
    <3>5. answer.status = "ok" => summary = "ok"
      BY <2>2, AnswerFacts DEF HealthSummary
    <3>6. QED
      BY <3>2, <3>4, <3>5 DEF SignalsAgree
  <2>3. QED
    BY <2>1, <2>2
<1>2. QED
  BY <1>1, Invariance, PTL

-----------------------------------------------------------------------------
\* No step of the tour begins under an open drawer (renderOnboardingTourStep closes it).
THEOREM StepsAreUncovered == Spec => StepUncovered
<1>1. Inv /\ [Next]_vars => [active' /\ (~active \/ step' # step) => ~drawer']_vars
  <2> SUFFICES ASSUME Inv, [Next]_vars, active', ~active \/ step' # step
               PROVE  ~drawer'
    OBVIOUS
  <2>1. step \in Steps /\ Steps = 0..Last /\ Last \in Nat
    BY FirstRunAssumption DEF Inv, TypeOK, Steps
  <2>2. CASE StartTour \/ Reopen
    <3>1. RenderStep(0) /\ 0 \in Steps
      BY <2>1, <2>2 DEF StartTour, Reopen
    <3>2. QED
      BY <3>1, RenderFacts
  <2>3. CASE GoOn
    <3>1. RenderStep(step + 1) /\ step + 1 \in Steps
      BY <2>1, <2>3 DEF GoOn, AtEnd
    <3>2. QED
      BY <3>1, RenderFacts
  <2>4. CASE Back
    <3>1. RenderStep(step - 1) /\ step - 1 \in Steps
      BY <2>1, <2>4 DEF Back
    <3>2. QED
      BY <3>1, RenderFacts
  <2>5. CASE StopTour
    BY <2>5 DEF StopTour
  <2>6. CASE UNCHANGED tour
    BY <2>6 DEF tour
  <2>7. QED
    BY <2>2, <2>3, <2>4, <2>5, <2>6
       DEF Next, Reload, RefreshHealth, Dismiss, Complete, Finish, Skip, Escapes, Escape,
           KeepTour, OpenDrawer, CloseDrawer, vars, tour
<1>2. QED
  BY <1>1, Invariance, PTL DEF Spec, StepUncovered

\* Only the last step of the tour and the button of the checklist set the mark, both put
\* the panel away, and nothing takes the mark back (setOnboardingDone).
THEOREM MarkIsEarned == Spec => DoneIsEarned
<1>1. Inv /\ [Next]_vars =>
        [done' # done => done' /\ ~panel' /\ ((step = Last /\ Finish) \/ Complete)]_vars
  <2> SUFFICES ASSUME Inv, [Next]_vars, done' # done
               PROVE  done' /\ ~panel' /\ ((step = Last /\ Finish) \/ Complete)
    OBVIOUS
  <2>1. Finish \/ Complete
    BY DEF Next, Reload, RefreshHealth, StartTour, Reopen, Dismiss, GoOn, Back, Skip,
           Escapes, OpenDrawer, CloseDrawer, vars
  <2>2. done' /\ ~panel'
    BY <2>1 DEF Finish, Complete, SetDone, Inv, TypeOK
  <2>3. Finish => step = Last
    BY FirstRunAssumption DEF Finish, AtEnd, Inv, TypeOK, Steps
  <2>4. QED
    BY <2>1, <2>2, <2>3
<1>2. QED
  BY <1>1, Invariance, PTL DEF Spec, DoneIsEarned

\* Next goes forward or ends the tour, with the mark if the last element is there; Back
\* stays in the tour, however many elements are missing.
THEOREM TourAdvances == Spec => TourMoves
<1>1. Inv /\ [Next]_vars =>
        [/\ GoOn /\ active' => step' > step
         /\ (GoOn \/ Finish) /\ ~active' /\ Last \in present =>
              done' = (done \/ storage) /\ ~panel'
         /\ Back => active' /\ step' <= step]_vars
  <2> SUFFICES ASSUME Inv
               PROVE  /\ GoOn /\ active' => step' > step
                      /\ (GoOn \/ Finish) /\ ~active' /\ Last \in present =>
                           done' = (done \/ storage) /\ ~panel'
                      /\ Back => active' /\ step' <= step
    OBVIOUS
  <2>1. step \in Steps /\ Steps = 0..Last /\ Last \in Nat
    BY FirstRunAssumption DEF Inv, TypeOK, Steps
  <2>2. ASSUME GoOn
        PROVE  (active' => step' > step) /\ (Last \in present => active')
    <3>1. RenderStep(step + 1) /\ step + 1 \in Steps
      BY <2>1, <2>2 DEF GoOn, AtEnd
    <3>2. ASSUME active'
          PROVE  step' > step
      <4>1. step' \in Showable(step + 1)
        BY <3>1, <3>2, RenderFacts
      <4>2. step' \in Steps /\ step + 1 <= step'
        BY <3>1, <4>1, ShowableFacts
      <4>3. QED
        BY <2>1, <4>2
    <3>3. ASSUME Last \in present
          PROVE  active'
      <4>1. Last \in Showable(step + 1)
        BY <2>1, <3>1, <3>3 DEF Showable
      <4>2. QED
        BY <3>1, <4>1, RenderFacts
    <3>4. QED
      BY <3>2, <3>3
  <2>3. ASSUME Finish
        PROVE  done' = (done \/ storage) /\ ~panel'
    BY <2>3 DEF Finish, SetDone
  <2>4. ASSUME Back
        PROVE  active' /\ step' <= step
    <3>1. RenderStep(step - 1) /\ step - 1 \in Steps /\ active
      BY <2>1, <2>4 DEF Back
    <3>2. step \in Showable(step - 1)
      <4>1. step \in present
        BY <3>1 DEF Inv, TourHasTarget
      <4>2. step \in (step - 1)..Last
        BY <2>1
      <4>3. QED
        BY <4>1, <4>2 DEF Showable
    <3>3. QED
      BY <3>1, <3>2, RenderFacts
  <2>5. QED
    BY <2>2, <2>3, <2>4
<1>2. QED
  BY <1>1, Invariance, PTL DEF Spec, TourMoves

=============================================================================
