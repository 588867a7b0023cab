SPECIFICATION Spec
CONSTANT Configurations <- MCConfigurations
CHECK_DEADLOCK FALSE
INVARIANTS
  SlicesComeBack
  StartsAlike
  ContextsStayInside
  NeverAborts
