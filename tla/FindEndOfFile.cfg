SPECIFICATION Spec
CONSTANTS
  MaxPocLsb = 256
  MAX_INT = 1000
  Configs <- MCConfigs
  Structures = {"endOfFile"}
PROPERTIES
  Terminates
