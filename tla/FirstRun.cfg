SPECIFICATION Spec
CONSTANT Last = 3
INVARIANTS
  TypeOK
  TourHasTarget
  SignalsAgree
PROPERTIES
  StepUncovered
  DoneIsEarned
  TourMoves
CHECK_DEADLOCK FALSE
