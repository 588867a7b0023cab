SPECIFICATION Spec
CONSTANTS
  MaxPocLsb = 256
  MAX_INT = 1000
  Configs <- MCConfigs
  Structures = {"small", "long", "shipped"}
INVARIANTS
  EncoderNeverAborts
  GivesBackTheFrames
  StsaIsASwitchingPoint
  EncoderBufferBounded
  BufferBounded
PROPERTIES
  Terminates
