\* Three identifiers for two structures, one parameter each; intervals that meet every six seconds.
CONSTANTS
  StructureIds = { 1, 2, 3 }
  ParameterIds = { "temperature", "unknown" }
  Parameters = { "temperature" }
  Intervals = { 0, 2, 3 }
  InitialStructures <- MCInitialStructures
  ECSSMaxHousekeepingStructures = 2
  ECSSMaxSimplyCommutatedParameters = 1
  Horizon = 6
  MaxDelay = 4
  MaxLateness = 1
SPECIFICATION FairSpec
INVARIANT TypeOK
PROPERTY FrozenWhileEnabled
PROPERTY CollectionKept
PROPERTY EnabledIsCollected
CHECK_DEADLOCK FALSE
