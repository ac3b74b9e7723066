SPECIFICATION FairSpec
CONSTANTS
  Namespaces = {"kube-system"}
  System = {"kube-system"}
  Resources = {"cpu"}
  MaxFlying = 2
INVARIANTS
  FilterIsHonest
PROPERTIES
  PanelsKeepUp
  PanelsSettle
CHECK_DEADLOCK FALSE
