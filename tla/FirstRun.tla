----------------------------- MODULE FirstRun ------------------------------
(***************************************************************************)
(* What the dashboard shows to a new user and says of the agent's health   *)
(* (agent/static/js/07-polling.js 1-10 and 121-427, updateSpillTip in      *)
(* 01-init.js): the first-run panel, the guided tour that walks over the   *)
(* page, and three signals that refreshHealthSignals derives from one      *)
(* answer of /health, which handleHealth (agent/pkg/api/api_handlers.go    *)
(* 55-135) puts together.                                                  *)
(*                                                                         *)
(* A page load starts everything anew but the mark in localStorage.  The   *)
(* tour's overlay lets clicks through, so that a drawer can be opened in   *)
(* the middle of it; an open drawer covers the rest of the page but the    *)
(* tour's own buttons.                                                     *)
(***************************************************************************)
EXTENDS Integers

CONSTANT Last   \* index of the last of ONBOARDING_TOUR_STEPS

ASSUME FirstRunAssumption == Last \in Nat

VARIABLES
  present,   \* the steps whose selector finds an element: all of them on today's page
  storage,   \* localStorage can be used
  done,      \* ONBOARDING_DONE_KEY is set in it
  panel,     \* firstRunOnboarding is shown
  active,    \* onboardingTourState.active
  step,      \* onboardingTourState.step
  target,    \* onboardingTourState.targetEl, by the index of its step
  drawer,    \* drawerOpen
  summary,   \* onboardingHealthSummary
  banner,    \* degradedBanner is shown
  tip,       \* lastDbStatus, which the tooltip of the Connected badge shows
  answer     \* history: the answer of /health that the signals are of

browser == <<present, storage>>
tour == <<active, step, target>>
health == <<summary, banner, tip, answer>>
vars == <<browser, done, panel, tour, drawer, health>>

Steps == 0..Last
NoTarget == -1

-----------------------------------------------------------------------------
(* One answer of /health and what the page makes of it. *)

Checks == {"database", "k8s_api", "metrics_api", "collector"}

\* What handleHealth finds: three pings, the age of the last collect, and the breaker.
Collects == {"ok", "starting", "degraded"}
Found == [pings : SUBSET (Checks \ {"collector"}), collector : Collects, closed : BOOLEAN]

CheckOf(found, c) ==
  IF c = "collector" THEN found.collector
  ELSE IF c \in found.pings THEN "ok" ELSE "unhealthy"

\* The overall status counts the breaker, which is not one of the checks.
HandleHealth(found) ==
  [known |-> TRUE,
   checks |-> [c \in Checks |-> CheckOf(found, c)],
   status |-> IF found.closed /\ \A c \in Checks : CheckOf(found, c) = "ok"
              THEN "ok" ELSE "degraded",
   closed |-> found.closed]

\* No answer, or one without checks.
NoAnswer == [known |-> FALSE, checks |-> [c \in Checks |-> "unknown"],
             status |-> "unknown", closed |-> TRUE]

Answers == {HandleHealth(f) : f \in Found} \cup {NoAnswer}

\* Mutant: only a check that is unhealthy counts as a warning.
HealthSummaryUnhealthy(a) ==
  IF ~a.known THEN "unavailable"
  ELSE IF \E c \in Checks : a.checks[c] = "unhealthy" THEN "degraded" ELSE "ok"

\* updateOnboardingHealth
HealthSummary(a) ==
  IF ~a.known THEN "unavailable"
  ELSE IF \E c \in Checks : a.checks[c] # "ok" THEN "degraded" ELSE "ok"

\* updateMetricsDegradedBanner
BannerShown(a) == a.known /\ a.checks["metrics_api"] # "ok"

RefreshHealth ==
  \E a \in Answers :
    /\ answer' = a
    /\ tip' = a.checks["database"]
    /\ banner' = BannerShown(a)
    /\ summary' = HealthSummary(a)
    /\ UNCHANGED <<browser, done, panel, tour, drawer>>

-----------------------------------------------------------------------------
Init ==
  /\ present \in SUBSET Steps /\ storage \in BOOLEAN
  /\ done = FALSE /\ panel = TRUE
  /\ active = FALSE /\ step = 0 /\ target = NoTarget
  /\ drawer = FALSE
  /\ summary = "checking" /\ banner = FALSE /\ tip = "none" /\ answer = NoAnswer

-----------------------------------------------------------------------------
(* The guided tour. *)

StopTour == active' = FALSE /\ step' = 0 /\ target' = NoTarget
KeepTour == UNCHANGED tour

IsDone == storage /\ done

\* The page is loaded again: of all it showed only localStorage is left.
Reload ==
  /\ panel' = ~IsDone
  /\ StopTour
  /\ drawer' = FALSE
  /\ summary' = "checking" /\ banner' = FALSE /\ tip' = "none" /\ answer' = NoAnswer
  /\ UNCHANGED <<browser, done>>

SetDone == done' = (done \/ storage)

\* Mutant: the next step is laid over whatever drawer is open.
DrawerAtStepKept == drawer

DrawerAtStep == FALSE

\* Mutant: a step without its element ends the tour.
ShowableHere(i) == {j \in {i} : j \in present}

\* renderOnboardingTourStep goes on to the next step whose element is there, ...
Showable(i) == {j \in i..Last : j \in present}

\* ... and ends the tour if there is none.
RenderStep(i) ==
  IF i \in Steps
  THEN /\ drawer' = DrawerAtStep
       /\ \/ /\ Showable(i) = {}
             /\ StopTour
          \/ \E j \in Showable(i) :
               /\ \A k \in Showable(i) : j <= k
               /\ active' = TRUE /\ step' = j /\ target' = j
  ELSE step' = i /\ UNCHANGED <<active, target, drawer>>

\* Buttons of the page cannot be reached under an open drawer.
StartTour ==
  /\ panel /\ ~drawer
  /\ RenderStep(0)
  /\ UNCHANGED <<browser, done, panel, health>>

Reopen ==
  /\ ~drawer
  /\ panel' = TRUE
  /\ RenderStep(0)
  /\ UNCHANGED <<browser, done, health>>

Dismiss ==
  /\ panel /\ ~drawer
  /\ panel' = FALSE
  /\ StopTour
  /\ UNCHANGED <<browser, done, drawer, health>>

\* Mutant: the checklist is put away and the tour goes on.
CompleteKeepingTour ==
  /\ panel /\ ~drawer
  /\ SetDone /\ panel' = FALSE
  /\ KeepTour
  /\ UNCHANGED <<browser, drawer, health>>

Complete ==
  /\ panel /\ ~drawer
  /\ SetDone /\ panel' = FALSE
  /\ StopTour
  /\ UNCHANGED <<browser, drawer, health>>

\* Mutant: > for >=
AtEndLate == step > Last

AtEnd == step >= Last

Finish ==
  /\ active /\ AtEnd
  /\ StopTour
  /\ SetDone /\ panel' = FALSE
  /\ UNCHANGED <<browser, drawer, health>>

GoOn ==
  /\ active /\ ~AtEnd
  /\ RenderStep(step + 1)
  /\ UNCHANGED <<browser, done, panel, health>>

Back ==
  /\ active /\ step > 0
  /\ RenderStep(step - 1)
  /\ UNCHANGED <<browser, done, panel, health>>

\* Mutant: stopOnboardingTour is the listener itself, and takes the event for markDone.
SkipMarking ==
  /\ active
  /\ StopTour
  /\ SetDone /\ panel' = FALSE
  /\ UNCHANGED <<browser, drawer, health>>

Skip ==
  /\ active
  /\ StopTour
  /\ UNCHANGED <<browser, done, panel, drawer, health>>

\* Escape ends the tour before it closes a drawer.
Escape ==
  \/ active /\ StopTour /\ UNCHANGED drawer
  \/ ~active /\ drawer /\ drawer' = FALSE /\ KeepTour
Escapes == Escape /\ UNCHANGED <<browser, done, panel, health>>

\* A card of the page, and the drawer's own button.
OpenDrawer == ~drawer /\ drawer' = TRUE /\ UNCHANGED <<browser, done, panel, tour, health>>
CloseDrawer == drawer /\ drawer' = FALSE /\ UNCHANGED <<browser, done, panel, tour, health>>

Next ==
  \/ Reload
  \/ RefreshHealth
  \/ StartTour
  \/ Reopen
  \/ Dismiss
  \/ Complete
  \/ Finish
  \/ GoOn
  \/ Back
  \/ Skip
  \/ Escapes
  \/ OpenDrawer
  \/ CloseDrawer

Spec == Init /\ [][Next]_vars

-----------------------------------------------------------------------------
TypeOK ==
  /\ present \subseteq Steps /\ storage \in BOOLEAN
  /\ done \in BOOLEAN /\ panel \in BOOLEAN
  /\ active \in BOOLEAN /\ step \in Steps /\ target \in Steps \cup {NoTarget}
  /\ drawer \in BOOLEAN /\ banner \in BOOLEAN
  /\ summary \in {"checking", "unavailable", "degraded", "ok"}
  /\ tip \in {"none", "ok", "unhealthy", "unknown"}
  /\ answer \in Answers

\* A running tour points at an element that is there, and its panel, in which the last
\* step's element is, is shown: no button of the panel or of the tour leaves the
\* spotlight on something hidden.
TourHasTarget ==
  IF active THEN target = step /\ step \in present /\ panel
            ELSE target = NoTarget /\ step = 0

\* A step never begins under an open drawer (CHANGELOG.md:22), though drawers can be
\* opened at any time during the tour.
StepUncovered ==
  [][active' /\ (~active \/ step' # step) => ~drawer']_vars

\* The mark that keeps the panel away is set by a finished tour or by the button of the
\* checklist, never by leaving the tour, and nothing takes it back.
DoneIsEarned ==
  [][done' # done => done' /\ ~panel' /\ ((step = Last /\ Finish) \/ Complete)]_vars

\* Whichever elements the page lacks, Next goes forward until the tour ends, and it ends
\* with the mark if the page has the last one; Back never ends the tour and at worst
\* shows the same step again.
TourMoves ==
  [][/\ GoOn /\ active' => step' > step
     /\ (GoOn \/ Finish) /\ ~active' /\ Last \in present => done' = (done \/ storage) /\ ~panel'
     /\ Back => active' /\ step' <= step]_vars

\* The three signals are of one answer, and what they say together is what /health says:
\* the panel calls all checks OK only with the database shown as OK, no banner and an
\* overall status of ok, unless it is the breaker alone that is not well.
SignalsAgree ==
  /\ banner => summary = "degraded"
  /\ summary = "ok" => tip = "ok" /\ ~banner /\ (answer.status = "ok" \/ ~answer.closed)
  /\ answer.status = "ok" => summary = "ok"
=============================================================================
