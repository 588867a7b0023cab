SPECIFICATION Spec
CONSTANTS
  NumAps = 2
  CcComponents = {"cb"}
  TLayers = {0, 1}
  LeadingTLayers = {1}
  HighestTids = {1}
  CraApsResets = {FALSE}
CHECK_DEADLOCK FALSE
INVARIANTS
  SkipsLeadingPictures
