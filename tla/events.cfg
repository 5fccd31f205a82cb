\* Two events and a number that is none, room for two definitions, actions that change the definitions.
CONSTANTS
  NumberOfEvents = 2
  Severities = { "LowSeverityAnomalyReport" }
  CounterModulus = 3
  MapSize = 2
  DefinitionIDs = { 1, 2, 3 }
  Applications = { "app", "foreign" }
  Requests = { other, deleteTwo, deleteAll, disableSelf, reportTwo }
  other = other
  deleteTwo = deleteTwo
  deleteAll = deleteAll
  disableSelf = disableSelf
  reportTwo = reportTwo
  Content <- MCContent
  GroundInstructions <- MCGroundInstructions
  MaxDepth = 3
SPECIFICATION Spec
INVARIANT TypeOK
INVARIANT DefinitionsUnique
INVARIANT ReportsAccounted
PROPERTY EnabledDefinitionKept
CHECK_DEADLOCK FALSE
