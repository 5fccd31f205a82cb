\* Two controlled applications; 258 shares its low byte with one of them. Service 99 is unknown.
CONSTANTS
  ApplicationIds = { 1, 2, 258 }
  ControlledApplications = { 1, 2 }
  KeyModulus = 256
  ServiceTypes = { 5, 11, 99 }
  MessageTypes = { 1, 2 }
  MessagesOfService <- MCMessagesOfService
  ECSSMaxServiceTypeDefinitions = 2
  ECSSMaxReportTypeDefinitions = 3
SPECIFICATION Spec
INVARIANT TypeOK
INVARIANT KeysInUse
INVARIANT ForwardsWhatIsAsked
CHECK_DEADLOCK FALSE
