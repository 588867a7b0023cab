SPECIFICATION Spec
CONSTANTS
  NumAps = 2
  CcComponents = {"cb"}
  TLayers = {0, 1}
  LeadingTLayers = {1}
  HighestTids = {0, 1}
  CraApsResets = {TRUE, FALSE}
CHECK_DEADLOCK FALSE
INVARIANTS
  StreamIsDecodable
  FiltersAsTheEncoder
