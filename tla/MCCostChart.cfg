SPECIFICATION Spec
CONSTANTS
  s1 = s1
  s2 = s2
  Slots <- MCSlots
  Namespaces = {"kube-system"}
  System = {"kube-system"}
  Presets = {"30m", "7d"}
  Dates = {"may", "june"}
  Histories = {2}
  Forecasts = {2}
SYMMETRY Symmetric
INVARIANTS
  ChartIsCurrent
  TitleTells
  TileSelectTells
  LinesMeet
CHECK_DEADLOCK FALSE
