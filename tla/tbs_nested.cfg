CONSTANTS
  MaxActivities = 2
  TimeMargin = 1
  TimeModulus = 6
  MaxTime = 3
  other = other
  resetIt = resetIt
  insertOne = insertOne
  deleteOwn = deleteOwn
  shiftOwn = shiftOwn
  shiftAll = shiftAll
  ShiftedTimes <- NoWrap
  RequestIDs <- MCRequestIDs
  OwnRequestIDs <- MCOwnRequestIDs
  Requests = {other, resetIt, insertOne, deleteOwn, shiftOwn, shiftAll}
  Content <- MCContent
  GroundTelecommands <- NestedGroundTelecommands
SPECIFICATION Spec
INVARIANT ScheduleOrdered
PROPERTY WokenInTime
PROPERTY EarliestDueFirst
CHECK_DEADLOCK FALSE
