SPECIFICATION Spec
CONSTANTS
  SpsContents = {1}
  PpsContents = {1, 2}
  ApsContents = {1, 2}
  PpsIds = {0}
  ApsIds <- MCApsIds
  MaxApss = 2
  MaxSlices = 2
INVARIANTS
  NeverFails
  DecodesWithTheSetsInEffect
  UsedApssExist
