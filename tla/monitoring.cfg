\* Three identifiers, a list of two definitions, room for two limit checks and one of each other type.
CONSTANTS
  ParameterIds = { "temperature", "unknown" }
  Parameters = { "temperature" }
  Values = { 0, 2 }
  PMONIds = { 1, 2, 3 }
  RepetitionNumbers = { 0 }
  Bodies <- MCBodies
  Delays = { 0 }
  CounterModulus = 2
  MaxMonitoringDefinitions = 2
  MaximumNumberOfChecks <- MCMaximumNumberOfChecks
  MaxTime = 1
SPECIFICATION FairSpec
INVARIANT TypeOK
INVARIANT SlotsDistinct
INVARIANT StatusFitsLimits
PROPERTY AboveLimitNoticed
CHECK_DEADLOCK FALSE
