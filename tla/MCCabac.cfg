SPECIFICATION Spec
CONSTANTS
  Ops <- MCOps
  MaxOps = 4
  Contexts0 <- MCContexts
INVARIANTS
  RegistersInRange
  ReadsExactlyTheSubstream
PROPERTIES
  BinsComeBack
