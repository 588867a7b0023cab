SPECIFICATION Spec
CONSTANTS
  MaxPocLsb = 32
  MAX_INT = 1000
  SkipFrames = {0}
  TemporalLayers = {0, 1}
  Limits <- MCLimits
  Streams <- DamagedStreams
  Starts = {"idr", "rasl"}
  Segments = {"trail", "jump", "hidden", "slices", "rasl", "gdr", "eosIdr", "eosRadl"}
  Ends = {"trail", "slices", "rasl", "idr"}
  MinSegments = 0
  MaxSegments = 2
  FirstPoc = 1
  Reorder = 1
  Buffering = 3
INVARIANTS
  WritesOnlyShown
  WritesOnlyPictures
PROPERTIES
  OutputOrder
  Halts
