SPECIFICATION Spec
CONSTANTS
  s1 = s1
  s2 = s2
  Slots <- MCSlots
  Pages <- MCPages
  Nodes = {"node-1"}
  Namespaces = {"shop"}
  Filters = {"", "some"}
  Periods = {"30m", "7d"}
SYMMETRY Symmetric
INVARIANTS
  LoadingIsPending
  FiltersAgree
  ShowsCurrent
PROPERTIES
  AnswersKeepControls
CHECK_DEADLOCK FALSE
