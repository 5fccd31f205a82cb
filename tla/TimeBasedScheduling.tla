------------------------- MODULE TimeBasedScheduling -------------------------
(***************************************************************************)
(* ST[11], the time-based scheduling service                               *)
(* (TimeBasedSchedulingService).  The service keeps a list of telecommands  *)
(* ordered by release time; an external task calls executeScheduledActivity *)
(* to run the head of the list once it is due.                              *)
(*                                                                         *)
(* The library is single-threaded: one telecommand is handled at a time.   *)
(* A handler that loops over the instructions of its telecommand takes one *)
(* step per instruction; the variable request holds what is left to read.  *)
(* Executing an activity hands its telecommand to the same handlers, so an  *)
(* activity that is itself a TC[11,*] changes the list it is being run from. *)
(***************************************************************************)
EXTENDS Integers, Sequences, FiniteSets, Functions

CONSTANTS
  MaxActivities,     \* ECSSMaxNumberOfTimeSchedActivities, the list's capacity
  TimeMargin,        \* ECSSTimeMarginForActivation, in clock ticks
  TimeModulus,       \* values of the time stamp's counter (2^32 in the code)
  MaxTime,           \* bound: the clock stops here
  ShiftedTimes,      \* bound: where a shift of the whole schedule may take a time
  RequestIDs,        \* request identifiers (source, application, sequence count)
  OwnRequestIDs,     \* those with applicationID = ApplicationId
  Requests,          \* names of the telecommands an activity may hold
  Content,           \* Requests -> the telecommand
  GroundTelecommands \* the telecommands ground may send

Ops == { "EnableScheduleExecution", "DisableScheduleExecution", "ResetSchedule",
         "InsertActivities", "TimeShiftAllActivities", "TimeShiftActivitiesByID",
         "DeleteActivitiesByID", "DetailReportAllActivities",
         "DetailReportActivitiesByID", "SummaryReportActivitiesByID", "Other" }

Nodes == 1 .. MaxActivities
Times == 0 .. TimeModulus - 1

Instruction == [releaseTime : Times, request : Requests]

\* What is left to read of a telecommand: "Other" is every telecommand that
\* leaves ST[11] alone.
Telecommand == [op : Ops, id : RequestIDs, offset : Int,
                ids : Seq(RequestIDs), instructions : Seq(Instruction)]

ASSUME ConstantsAssumption ==
  /\ MaxActivities \in Nat \ {0}
  /\ TimeMargin \in Nat
  /\ TimeModulus \in Nat \ {0}
  /\ MaxTime \in Nat
  /\ ShiftedTimes \subseteq Int
  /\ MaxTime + TimeMargin < TimeModulus
  /\ OwnRequestIDs \subseteq RequestIDs

ASSUME TelecommandAssumption ==
  /\ Content \in [Requests -> Telecommand]
  /\ GroundTelecommands \subseteq Telecommand

\* One entry of the list.  node is the cell of the list's pool that holds it;
\* consumed says that its telecommand was read to the end (readPosition).
Activity == [node : Nodes, requestReleaseTime : Times, requestID : RequestIDs,
             request : Requests, consumed : BOOLEAN]

NoRequest == [op |-> "None"]
NoNode == 0

\* Wake-up times: at once, and max(), the last value of the counter.
AtOnce == 0
Never == TimeModulus - 1

Errors == { "NoError", "InstructionExecutionStartError", "SubServiceExecutionStartError" }
NoReport == [kind |-> "None", activities |-> << >>]
ReportKinds == { "None", "TimeBasedScheduleReportById", "TimeBasedScheduledSummaryReport" }

VARIABLES
  now,                     \* the time TimeGetter returns
  executionFunctionStatus, \* the schedule execution indicator
  scheduledActivities,     \* the list
  request,                 \* the telecommand being handled, or NoRequest
  matchedActivities,       \* the list a report handler fills
  running,                 \* node of the activity being executed, or NoNode
  wakeUpTime,              \* when the task that executes activities means to call again
  error,                   \* the error the last step reported
  report,                  \* the TM[11,10] or TM[11,13] the last step stored
  undefined                \* a pop or push the list cannot take: a failed assertion of ETL, or worse

vars == << now, executionFunctionStatus, scheduledActivities, request,
           matchedActivities, running, wakeUpTime, error, report, undefined >>

-----------------------------------------------------------------------------
(* Time stamps: operator+ works modulo the width of the counter, the        *)
(* comparison operators compare counters.                                   *)

Plus(time, offset) == (time + offset) % TimeModulus

\* A slip for mutation: a release time has only to be in the future.
TooSoonWithoutMargin(time) == time < now

TooSoon(time) == time < Plus(now, TimeMargin)

-----------------------------------------------------------------------------
(* The list.                                                                *)

IsOrdered(s) ==
  \A i, j \in DOMAIN s : i < j => s[i].requestReleaseTime <= s[j].requestReleaseTime

\* The stable sorts of s (there is exactly one).
SortPermutations(s) ==
  { p \in Bijection(DOMAIN s, DOMAIN s) :
      \A i, j \in DOMAIN s : i < j =>
        \/ s[p[i]].requestReleaseTime < s[p[j]].requestReleaseTime
        \/ /\ s[p[i]].requestReleaseTime = s[p[j]].requestReleaseTime
           /\ p[i] < p[j] }

Sorted(s) == { [i \in DOMAIN s |-> s[p[i]]] : p \in SortPermutations(s) }

FirstMatch(s, id) ==
  { i \in DOMAIN s : s[i].requestID = id /\ \A j \in 1 .. i - 1 : s[j].requestID # id }

FreeNodes == Nodes \ { scheduledActivities[i].node : i \in DOMAIN scheduledActivities }

\* The cells push_back may take: the pool hands out a free one, and is not to be
\* asked for one when it has none.
CellsToTake ==
  IF FreeNodes = {} THEN Nodes ELSE { n \in FreeNodes : \A m \in FreeNodes : n <= m }

\* A slip for mutation: one activity more than the list takes.
AtCapacityLate == Len(scheduledActivities) > MaxActivities

\* available() == 0
AtCapacity == Len(scheduledActivities) = MaxActivities

\* What executeScheduledActivity returns when it leaves the list as s.
NextReleaseTime(s) == IF s = << >> THEN Never ELSE Head(s).requestReleaseTime

\* A slip for mutation: the task is only told of an activity that ends its pause.
NotifyAfterPause ==
  wakeUpTime' = IF Len(scheduledActivities) = 1 THEN AtOnce ELSE wakeUpTime

\* The task is told of new activities, whichever they are, and calls at once.
NotifyNewActivityAddition == wakeUpTime' = AtOnce

Without(s, i) == SubSeq(s, 1, i - 1) \o SubSeq(s, i + 1, Len(s))

-----------------------------------------------------------------------------
\* A slip for mutation: a telecommand is let in between execution and pop_front.
IdleWhileRunning == request = NoRequest /\ ~undefined

Idle == request = NoRequest /\ running = NoNode /\ ~undefined

Init ==
  /\ now = 0
  /\ executionFunctionStatus = FALSE
  /\ scheduledActivities = << >>
  /\ request = NoRequest
  /\ matchedActivities = << >>
  /\ running = NoNode
  /\ wakeUpTime = AtOnce
  /\ error = "NoError"
  /\ report = NoReport
  /\ undefined = FALSE

\* A step that reports nothing to ground.
Silent == error' = "NoError" /\ report' = NoReport

Reject(err) == error' = err /\ report' = NoReport

\* The clock moves between telecommands: one is handled within a clock tick.
Tick ==
  /\ Idle
  /\ now < MaxTime
  /\ now' = now + 1
  /\ Silent
  /\ UNCHANGED << executionFunctionStatus, scheduledActivities, request,
                  matchedActivities, running, wakeUpTime, undefined >>

\* Bound: a shift of the whole schedule that takes a time out of ShiftedTimes
\* is not asked for.
ShiftAllowed(tc) ==
  tc.op = "TimeShiftAllActivities" =>
    \A i \in DOMAIN scheduledActivities :
      scheduledActivities[i].requestReleaseTime + tc.offset \in ShiftedTimes

\* MessageParser hands a telecommand from ground to the service.
ReceiveTelecommand(tc) ==
  /\ Idle
  /\ ShiftAllowed(tc)
  /\ request' = tc
  /\ Silent
  /\ UNCHANGED << now, executionFunctionStatus, scheduledActivities,
                  matchedActivities, running, wakeUpTime, undefined >>

Handling(op) == ~undefined /\ request # NoRequest /\ request.op = op

\* The handler returns.
Return == request' = NoRequest /\ matchedActivities' = << >>

\* A telecommand of another service leaves ST[11] alone.
OtherService ==
  /\ Handling("Other")
  /\ Return
  /\ Silent
  /\ UNCHANGED << now, executionFunctionStatus, scheduledActivities, running, wakeUpTime, undefined >>

EnableScheduleExecution ==
  /\ Handling("EnableScheduleExecution")
  /\ executionFunctionStatus' = TRUE
  /\ Return
  /\ Silent
  /\ UNCHANGED << now, scheduledActivities, running, wakeUpTime, undefined >>

DisableScheduleExecution ==
  /\ Handling("DisableScheduleExecution")
  /\ executionFunctionStatus' = FALSE
  /\ Return
  /\ Silent
  /\ UNCHANGED << now, scheduledActivities, running, wakeUpTime, undefined >>

ResetSchedule ==
  /\ Handling("ResetSchedule")
  /\ executionFunctionStatus' = FALSE
  /\ scheduledActivities' = << >>
  /\ Return
  /\ Silent
  /\ UNCHANGED << now, running, wakeUpTime, undefined >>

\* One turn of the loop of insertActivities: the instruction is rejected, or
\* the activity goes to the end of the list, unsorted as yet.
InsertActivities ==
  /\ Handling("InsertActivities")
  /\ request.instructions # << >>
  /\ request' = [request EXCEPT !.instructions = Tail(@)]
  /\ LET instruction == Head(request.instructions) IN
     \/ /\ AtCapacity \/ TooSoon(instruction.releaseTime)
        /\ Reject("InstructionExecutionStartError")
        /\ UNCHANGED << scheduledActivities, undefined >>
     \/ /\ ~(AtCapacity \/ TooSoon(instruction.releaseTime))
        /\ Silent
        /\ \E cell \in CellsToTake :
             scheduledActivities' = Append(scheduledActivities,
               [node |-> cell,
                requestReleaseTime |-> instruction.releaseTime,
                requestID |-> request.id,
                request |-> instruction.request,
                consumed |-> FALSE])
        /\ undefined' = (FreeNodes = {})
  /\ UNCHANGED << now, executionFunctionStatus, matchedActivities, running, wakeUpTime >>

\* A slip for mutation: the new activities stay at the end of the list.
FinishInsertActivitiesUnsorted ==
  /\ Handling("InsertActivities") /\ request.instructions = << >>
  /\ NotifyNewActivityAddition /\ Return /\ Silent
  /\ UNCHANGED << now, executionFunctionStatus, scheduledActivities, running, undefined >>

\* sortActivitiesReleaseTime and notifyNewActivityAddition after the loop.
FinishInsertActivities ==
  /\ Handling("InsertActivities")
  /\ request.instructions = << >>
  /\ scheduledActivities' \in Sorted(scheduledActivities)
  /\ NotifyNewActivityAddition
  /\ Return
  /\ Silent
  /\ UNCHANGED << now, executionFunctionStatus, running, undefined >>

\* All or nothing, decided by the earliest release time.  On an empty list the
\* code reads the release time of the end iterator: it may report the error.
TimeShiftAllActivities ==
  /\ Handling("TimeShiftAllActivities")
  /\ Return
  /\ LET shifted(i) == Plus(scheduledActivities[i].requestReleaseTime, request.offset)
         earliest(i) == \A j \in DOMAIN scheduledActivities :
                          scheduledActivities[i].requestReleaseTime
                            <= scheduledActivities[j].requestReleaseTime
     IN \/ /\ scheduledActivities = << >>
           /\ Silent \/ Reject("SubServiceExecutionStartError")
           /\ UNCHANGED scheduledActivities
        \/ /\ \E i \in DOMAIN scheduledActivities : earliest(i) /\ TooSoon(shifted(i))
           /\ Reject("SubServiceExecutionStartError")
           /\ UNCHANGED scheduledActivities
        \/ /\ scheduledActivities # << >>
           /\ \A i \in DOMAIN scheduledActivities : earliest(i) => ~TooSoon(shifted(i))
           /\ Silent
           /\ scheduledActivities' =
                [i \in DOMAIN scheduledActivities |->
                   [scheduledActivities[i] EXCEPT !.requestReleaseTime = shifted(i)]]
  /\ UNCHANGED << now, executionFunctionStatus, running, wakeUpTime, undefined >>

\* One turn of the loop of timeShiftActivitiesByID: the first activity with the
\* identifier moves, in place.
TimeShiftActivitiesByID ==
  /\ Handling("TimeShiftActivitiesByID")
  /\ request.ids # << >>
  /\ request' = [request EXCEPT !.ids = Tail(@)]
  /\ \/ /\ FirstMatch(scheduledActivities, Head(request.ids)) = {}
        /\ Reject("InstructionExecutionStartError")
        /\ UNCHANGED scheduledActivities
     \/ \E i \in FirstMatch(scheduledActivities, Head(request.ids)) :
          LET shifted == Plus(scheduledActivities[i].requestReleaseTime, request.offset)
          IN \/ /\ TooSoon(shifted)
                /\ Reject("InstructionExecutionStartError")
                /\ UNCHANGED scheduledActivities
             \/ /\ ~TooSoon(shifted)
                /\ Silent
                /\ scheduledActivities' =
                     [scheduledActivities EXCEPT ![i].requestReleaseTime = shifted]
  /\ UNCHANGED << now, executionFunctionStatus, matchedActivities, running, wakeUpTime, undefined >>

\* A slip for mutation: the shifted activities keep their places.
FinishTimeShiftActivitiesByIDUnsorted ==
  /\ Handling("TimeShiftActivitiesByID") /\ request.ids = << >>
  /\ Return /\ Silent
  /\ UNCHANGED << now, executionFunctionStatus, scheduledActivities, running, wakeUpTime, undefined >>

FinishTimeShiftActivitiesByID ==
  /\ Handling("TimeShiftActivitiesByID")
  /\ request.ids = << >>
  /\ scheduledActivities' \in Sorted(scheduledActivities)
  /\ Return
  /\ Silent
  /\ UNCHANGED << now, executionFunctionStatus, running, wakeUpTime, undefined >>

\* One turn of the loop of deleteActivitiesByID: the first activity with the
\* identifier leaves the list.
DeleteActivitiesByID ==
  /\ Handling("DeleteActivitiesByID")
  /\ request.ids # << >>
  /\ request' = [request EXCEPT !.ids = Tail(@)]
  /\ \/ /\ FirstMatch(scheduledActivities, Head(request.ids)) = {}
        /\ Reject("InstructionExecutionStartError")
        /\ UNCHANGED scheduledActivities
     \/ /\ Silent
        /\ \E i \in FirstMatch(scheduledActivities, Head(request.ids)) :
             scheduledActivities' = Without(scheduledActivities, i)
  /\ UNCHANGED << now, executionFunctionStatus, matchedActivities, running, wakeUpTime, undefined >>

FinishDeleteActivitiesByID ==
  /\ Handling("DeleteActivitiesByID")
  /\ request.ids = << >>
  /\ Return
  /\ Silent
  /\ UNCHANGED << now, executionFunctionStatus, scheduledActivities, running, wakeUpTime, undefined >>

Store(kind, activities) ==
  error' = "NoError" /\ report' = [kind |-> kind, activities |-> activities]

DetailReportAllActivities ==
  /\ Handling("DetailReportAllActivities")
  /\ Store("TimeBasedScheduleReportById", scheduledActivities)
  /\ Return
  /\ UNCHANGED << now, executionFunctionStatus, scheduledActivities, running, wakeUpTime, undefined >>

ReportOps == { "DetailReportActivitiesByID", "SummaryReportActivitiesByID" }

\* One turn of the loop of the two report-by-identifier handlers.  The list of
\* matches has the capacity of the schedule: an identifier named once more than
\* that overruns it, without a check.
MatchActivitiesByID ==
  /\ \E op \in ReportOps : Handling(op)
  /\ request.ids # << >>
  /\ request' = [request EXCEPT !.ids = Tail(@)]
  /\ \/ /\ FirstMatch(scheduledActivities, Head(request.ids)) = {}
        /\ Reject("InstructionExecutionStartError")
        /\ UNCHANGED << matchedActivities, undefined >>
     \/ /\ Silent
        /\ \E i \in FirstMatch(scheduledActivities, Head(request.ids)) :
             matchedActivities' = Append(matchedActivities, scheduledActivities[i])
        /\ undefined' = (Len(matchedActivities) = MaxActivities)
  /\ UNCHANGED << now, executionFunctionStatus, scheduledActivities, running, wakeUpTime >>

\* A slip for mutation: the report lists the matches in the order they were asked for.
FinishReportUnsorted(op, kind) ==
  /\ Handling(op) /\ request.ids = << >>
  /\ Store(kind, matchedActivities)
  /\ Return
  /\ UNCHANGED << now, executionFunctionStatus, scheduledActivities, running, wakeUpTime, undefined >>

FinishReport(op, kind) ==
  /\ Handling(op)
  /\ request.ids = << >>
  /\ \E sorted \in Sorted(matchedActivities) : Store(kind, sorted)
  /\ Return
  /\ UNCHANGED << now, executionFunctionStatus, scheduledActivities, running, wakeUpTime, undefined >>

DetailReportActivitiesByID ==
  FinishReport("DetailReportActivitiesByID", "TimeBasedScheduleReportById")

SummaryReportActivitiesByID ==
  FinishReport("SummaryReportActivitiesByID", "TimeBasedScheduledSummaryReport")

-----------------------------------------------------------------------------
(* executeScheduledActivity, called by the task that waits for release times, *)
(* at any time it likes.  It returns when to call again.                     *)

\* A slip for mutation: the head is run one tick early.
HeadIsDueSoon ==
  /\ Idle
  /\ scheduledActivities # << >>
  /\ now + 1 >= Head(scheduledActivities).requestReleaseTime

HeadIsDue ==
  /\ Idle
  /\ scheduledActivities # << >>
  /\ now >= Head(scheduledActivities).requestReleaseTime

\* What an activity's telecommand holds: its arguments are read only once.
ToExecute(activity) ==
  LET tc == Content[activity.request] IN
  IF activity.consumed
  THEN [tc EXCEPT !.offset = 0, !.ids = << >>, !.instructions = << >>]
  ELSE tc

\* The head is handed to MessageParser::execute by reference, while it is still
\* in the list.  executionFunctionStatus is not looked at.  When the activity
\* deletes itself the cell goes back to the pool, but its bytes stay as they are
\* until another activity takes the cell: request keeps its value.
ExecuteScheduledActivity ==
  /\ HeadIsDue
  /\ LET activity == Head(scheduledActivities) IN
     /\ activity.requestID \in OwnRequestIDs
     /\ ShiftAllowed(ToExecute(activity))
     /\ request' = ToExecute(activity)
     /\ running' = activity.node
  /\ scheduledActivities' = [scheduledActivities EXCEPT ![1].consumed = TRUE]
  /\ Silent
  /\ UNCHANGED << now, executionFunctionStatus, matchedActivities, wakeUpTime, undefined >>

\* Nothing is due: the call returns when to come back.
NothingDue ==
  /\ Idle
  /\ ~HeadIsDue
  /\ wakeUpTime' = NextReleaseTime(scheduledActivities)
  /\ Silent
  /\ UNCHANGED << now, executionFunctionStatus, scheduledActivities, request,
                  matchedActivities, running, undefined >>

\* pop_front, once the telecommand has been executed: whatever is at the front
\* by then, which is undefined when the list has become empty.
PopFront ==
  /\ ~undefined
  /\ running # NoNode
  /\ request = NoRequest
  /\ running' = NoNode
  /\ \/ /\ scheduledActivities = << >>
        /\ undefined' = TRUE
        /\ UNCHANGED << scheduledActivities, wakeUpTime >>
     \/ /\ scheduledActivities # << >>
        /\ scheduledActivities' = Tail(scheduledActivities)
        /\ wakeUpTime' = NextReleaseTime(Tail(scheduledActivities))
        /\ UNCHANGED undefined
  /\ Silent
  /\ UNCHANGED << now, executionFunctionStatus, request, matchedActivities >>

\* An activity of another application process leaves the list without being executed.
DropForeignActivity ==
  /\ HeadIsDue
  /\ Head(scheduledActivities).requestID \notin OwnRequestIDs
  /\ scheduledActivities' = Tail(scheduledActivities)
  /\ wakeUpTime' = NextReleaseTime(Tail(scheduledActivities))
  /\ Silent
  /\ UNCHANGED << now, executionFunctionStatus, request, matchedActivities, running, undefined >>

-----------------------------------------------------------------------------
\* The steps of the handler of the telecommand in hand.
Handle ==
  \/ OtherService
  \/ EnableScheduleExecution
  \/ DisableScheduleExecution
  \/ ResetSchedule
  \/ InsertActivities
  \/ FinishInsertActivities
  \/ TimeShiftAllActivities
  \/ TimeShiftActivitiesByID
  \/ FinishTimeShiftActivitiesByID
  \/ DeleteActivitiesByID
  \/ FinishDeleteActivitiesByID
  \/ DetailReportAllActivities
  \/ MatchActivitiesByID
  \/ DetailReportActivitiesByID
  \/ SummaryReportActivitiesByID

\* A slip for mutation: pop_front is only called for activities that are executed.
ReleaseOwnOnly == ExecuteScheduledActivity

Release == ExecuteScheduledActivity \/ DropForeignActivity

Next ==
  \/ Tick
  \/ \E tc \in GroundTelecommands : ReceiveTelecommand(tc)
  \/ Handle
  \/ Release
  \/ NothingDue
  \/ PopFront

Spec == Init /\ [][Next]_vars

\* The thread finishes what it has started, and the task that waits for release
\* times is not shut out for ever by telecommands from ground.
Fairness == WF_vars(Handle) /\ WF_vars(PopFront) /\ SF_vars(Release)

FairSpec == Spec /\ Fairness

-----------------------------------------------------------------------------
(* Properties.                                                              *)

TypeOK ==
  /\ now \in 0 .. MaxTime
  /\ executionFunctionStatus \in BOOLEAN
  /\ scheduledActivities \in Seq(Activity)
  /\ Len(scheduledActivities) <= MaxActivities
  /\ request \in Telecommand \cup { NoRequest }
  /\ matchedActivities \in Seq(Activity)
  /\ running \in Nodes \cup { NoNode }
  /\ wakeUpTime \in Times
  /\ error \in Errors
  /\ report \in [kind : ReportKinds, activities : Seq(Activity)]
  /\ undefined \in BOOLEAN

\* While a handler loops over its instructions the list may be out of order.
Reordering == request # NoRequest /\ request.op \in { "InsertActivities", "TimeShiftActivitiesByID" }

\* The list is in order of release time whenever the service can look at its
\* head, whatever was inserted, shifted, deleted or executed before
\* (scheduledActivities, sortActivitiesReleaseTime).
ScheduleOrdered == ~Reordering => IsOrdered(scheduledActivities)

NodesOf(s) == { s[i].node : i \in DOMAIN s }

\* The task means to come back later than the first activity is to be executed.
Oversleeps ==
  /\ running = NoNode /\ ~Reordering
  /\ scheduledActivities # << >>
  /\ wakeUpTime > Head(scheduledActivities).requestReleaseTime

\* The task that executes activities is never left to sleep past a release time, whatever
\* is inserted, deleted or executed after executeScheduledActivity told it when to come
\* back, by its own activities too: only a time shift, which tells it nothing, can do that
\* (insertActivities, executeScheduledActivity).
WokenInTime ==
  [][~Oversleeps /\ Oversleeps' =>
       request # NoRequest /\ request.op \in { "TimeShiftAllActivities", "TimeShiftActivitiesByID" }]_vars

\* A report lists activities of the schedule as they are, in order of release
\* time, whichever were asked for, in whatever order ("in an ascending order based
\* on their release time", TimeBasedSchedulingService.hpp).
ReportFollowsSchedule ==
  /\ IsOrdered(report.activities)
  /\ Range(report.activities) \subseteq Range(scheduledActivities)

\* A release time that a telecommand sets, by inserting an activity or by
\* shifting one, is at least the margin away from the present
\* (insertActivities, timeShiftAllActivities, timeShiftActivitiesByID).
MarginRespected ==
  [][\A i \in DOMAIN scheduledActivities' :
       \/ \E j \in DOMAIN scheduledActivities :
            /\ scheduledActivities[j].node = scheduledActivities'[i].node
            /\ scheduledActivities[j].requestReleaseTime = scheduledActivities'[i].requestReleaseTime
       \/ scheduledActivities'[i].requestReleaseTime >= now + TimeMargin]_vars

\* An activity that starts to execute is due, and none that waits is due before
\* it (executeScheduledActivity looks at the head only).
EarliestDueFirst ==
  [][running # running' /\ running' # NoNode =>
       \E i \in DOMAIN scheduledActivities :
         /\ scheduledActivities[i].node = running'
         /\ scheduledActivities[i].requestReleaseTime <= now
         /\ \A j \in DOMAIN scheduledActivities :
              scheduledActivities[i].requestReleaseTime
                <= scheduledActivities[j].requestReleaseTime]_vars

\* executeScheduledActivity removes the activity it has executed, and only that one.
RemovesWhatItExecutes ==
  [][running # NoNode /\ running' = NoNode =>
       /\ running \in NodesOf(scheduledActivities)
       /\ NodesOf(scheduledActivities') = NodesOf(scheduledActivities) \ { running }]_vars

IsDue(node) ==
  \E i \in DOMAIN scheduledActivities :
    /\ scheduledActivities[i].node = node
    /\ scheduledActivities[i].requestReleaseTime <= now

\* A due activity does not stay in the schedule: it is executed or dropped,
\* unless a telecommand takes it out or shifts it first.
DueIsServed == \A node \in Nodes : IsDue(node) ~> ~IsDue(node)

-----------------------------------------------------------------------------
\* The release times of the activities that wait, by cell: those in the list but for the
\* one being executed.
PendingOf(activities, executed) ==
  LET waiting == { i \in DOMAIN activities : activities[i].node # executed }
  IN [node \in { activities[i].node : i \in waiting } |->
        (CHOOSE a \in { activities[i] : i \in waiting } : a.node = node).requestReleaseTime]

Pending == PendingOf(scheduledActivities, running)

Abstract == INSTANCE ActivitySchedule WITH
  Cells <- Nodes,
  Times <- Times,
  Margin <- TimeMargin,
  Nobody <- NoNode,
  executing <- running,
  pending <- Pending

\* The service keeps the promise of ActivitySchedule: what it executes was accepted,
\* is due, is the earliest that waits and never comes back, and nothing touches the
\* schedule while it is executed (activities that are not TC[11,*] themselves).
RefinesActivitySchedule == Abstract!Spec
=============================================================================
