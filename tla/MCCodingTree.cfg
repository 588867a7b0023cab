SPECIFICATION Spec
CONSTANTS
  Configs <- MCConfigs
INVARIANTS
  NeverAborts
  ReadsTheSplits
  EachSampleOnce
  NeighboursAreCoded
  UnitsArePredictable
  PartitionerMatchesItsStack
PROPERTIES
  UnitsShareTheirGroupsQp
