CONSTANTS
  MaxActivities = 3
  TimeMargin = 1
  TimeModulus = 5
  MaxTime = 2
  other = other
  resetIt = resetIt
  insertOne = insertOne
  deleteOwn = deleteOwn
  shiftOwn = shiftOwn
  shiftAll = shiftAll
  ShiftedTimes <- NoWrap
  RequestIDs <- MCRequestIDs
  OwnRequestIDs <- MCOwnRequestIDs
  Requests = {other}
  Content <- MCContent
  GroundTelecommands <- MCGroundTelecommands
SPECIFICATION FairSpec
INVARIANT TypeOK
INVARIANT ReportFollowsSchedule
PROPERTY RemovesWhatItExecutes
PROPERTY MarginRespected
PROPERTY RefinesActivitySchedule
PROPERTY DueIsServed
