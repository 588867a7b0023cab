SPECIFICATION MCSpec
CONSTANTS
  MaxPocLsb = 16
  MAX_INT = 1000
  SkipFrames = {0, 1, 2, 3}
  TemporalLayers = {1}
  Limits <- MCLimits
  Streams <- MCStreams
  Starts = {"idr", "rasl", "radl", "gdr"}
  Segments = {"trail", "jump", "hidden", "slices", "rasl", "radl", "idr", "gdr", "eosIdr", "eosRasl", "eosRadl"}
  Ends = {"trail", "slices", "rasl", "radl", "gdr", "idr"}
  MinSegments = 0
  MaxSegments = 2
  FirstPoc = 6
  Reorder = 1
  Buffering = 3
INVARIANTS
  TypeOK
  NeverAborts
  ExactlyTheDecodable
  PocsAgree
  BufferBounded
PROPERTIES
  PredictsFromTheRightPictures
  Terminates
