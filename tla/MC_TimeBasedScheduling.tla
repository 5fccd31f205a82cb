------------------------ MODULE MC_TimeBasedScheduling ------------------------
(* Instances of ST[11] for model checking. *)
EXTENDS TimeBasedScheduling

CONSTANTS other, resetIt, insertOne, deleteOwn, shiftOwn, shiftAll

MCRequestIDs == { "own", "foreign" }
MCOwnRequestIDs == { "own" }

TC(op, id, offset, ids, instructions) ==
  [op |-> op, id |-> id, offset |-> offset, ids |-> ids, instructions |-> instructions]

Plain(op) == TC(op, "own", 0, << >>, << >>)

\* What the activities hold.
NestedContent(r) ==
  CASE r = other     -> Plain("Other")
    [] r = resetIt   -> Plain("ResetSchedule")
    [] r = insertOne -> TC("InsertActivities", "own", 0, << >>, << [releaseTime |-> 5, request |-> other] >>)
    [] r = deleteOwn -> TC("DeleteActivitiesByID", "own", 0, << "own" >>, << >>)
    [] r = shiftOwn  -> TC("TimeShiftActivitiesByID", "own", 2, << "own" >>, << >>)
    [] r = shiftAll  -> TC("TimeShiftAllActivities", "own", 2, << >>, << >>)

MCContent == [r \in Requests |-> NestedContent(r)]

\* Release times asked for by TC[11,4]: near, far, too soon, out of order.
InsertTimes == { << 1 >>, << 4, 2 >>, << 0, 2, 1 >> }

Inserts == { TC("InsertActivities", id, 0, << >>,
                [k \in 1 .. Len(ts) |-> [releaseTime |-> ts[k], request |-> r]]) :
               id \in RequestIDs, ts \in InsertTimes, r \in Requests }

IdLists == { << "own", "own" >>, << "foreign" >> }

ById(op, offset) == { TC(op, "own", offset, ids, << >>) : ids \in IdLists }

Shifts(offsets) ==
  UNION { ById("TimeShiftActivitiesByID", k) \cup { TC("TimeShiftAllActivities", "own", k, << >>, << >>) } :
            k \in offsets }

Switches == { Plain("EnableScheduleExecution"), Plain("DisableScheduleExecution") }

InsertsOf(id, times) == { tc \in Inserts : tc.id = id /\
                            \E ts \in times : Len(tc.instructions) = Len(ts) /\
                              \A k \in DOMAIN ts : tc.instructions[k].releaseTime = ts[k] }

MCGroundTelecommands ==
  InsertsOf("own", InsertTimes) \cup InsertsOf("foreign", { << 4, 2 >> })
    \cup Shifts({ -2, 2 })
    \cup { Plain("ResetSchedule"), Plain("DetailReportAllActivities") }
    \cup ById("DeleteActivitiesByID", 0)
    \cup { TC("DetailReportActivitiesByID", "own", 0, << "own", "own" >>, << >>),
           TC("SummaryReportActivitiesByID", "own", 0, << "foreign", "own" >>, << >>) }

\* Fewer telecommands from ground, for activities that are themselves TC[11,*].
NestedGroundTelecommands ==
  InsertsOf("own", { << 1 >>, << 4, 2 >> })
    \cup Switches
    \cup { Plain("DetailReportAllActivities"), TC("TimeShiftAllActivities", "own", -2, << >>, << >>) }

\* The times a shift may lead to: those to which the counter does not wrap.
NoWrap == Times
=============================================================================
