SPECIFICATION Spec
CONSTANTS
  MaxPocLsb = 256
  MAX_INT = 1000
  Configs <- MCConfigs
  Structures = {"gop8"}
INVARIANTS
  EncoderNeverAborts
