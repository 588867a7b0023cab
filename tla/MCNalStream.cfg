SPECIFICATION Spec
CONSTANTS
  Units <- MCUnits
  MaxUnits = 3
  Gaps = {0, 2}
INVARIANTS
  NoStartCodeInside
  KeepsPlace
  ReadsToTheEnd
PROPERTIES
  UnitsComeBack
