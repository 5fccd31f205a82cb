# ecss-services: a verification development in TLA+

`ecss-services` is the AcubeSAT implementation of the Packet Utilisation Standard
(ECSS-E-ST-70-41C) for on-board software: each *service* is a C++ class that keeps some state
in fixed-capacity ETL containers, handles the telecommands (TC) of its type and stores
telemetry (TM).  This directory models the services that keep state worth arguing about,
model-checks them with TLC and proves theorems about them with TLAPS.  Paths below are relative
to the repository.

## 1. Inventory

| component | state | operations | what makes it correct |
|---|---|---|---|
| **ST[11] time-based scheduling** `TimeBasedSchedulingService` | list `scheduledActivities` ordered by release time, `executionFunctionStatus` | insert, delete, shift (by id, all), reset, report, enable, disable; `executeScheduledActivity` | the list stays ordered and within capacity; an activity leaves once, at its time, earliest first; nothing is accepted closer than the margin; nothing due waits for ever, nor does the task that executes activities sleep past one |
| **ST[15] storage and retrieval** `StorageAndRetrievalService`, `PacketStore` | map of packet stores: recording, two retrievals, queue of timed packets | 20 telecommands, three calls by the flight software | one retrieval at a time; nothing it works from changes under it; queues in order of time while they are filled in order; copies exact; the map within capacity |
| **ST[05] event reporting** `EventReportService`, **ST[19] event-action** `EventActionService` | bitset of enabled events, counters; multimap of event-action definitions, function status | reports by severity, enable and disable generation; add, delete, enable, disable definitions; `executeAction` | the action of an event is executed when it happens, and no other; one definition for an event; an enabled definition is kept; reports counted are stored |
| **ST[12] on-board monitoring** `OnBoardMonitoringService`, `PMON` | map from definition id to a reference into one of three vectors; status, counter, limits | add, modify, enable, disable, delete; `checkAll` | definitions do not share storage; a status tells of the limits in force; a value out of limits is noticed |
| ST[20] parameters | map of parameters | set, report | a parameter has the last value set |
| ST[08] functions | map of names to functions | perform | the named function runs once |
| **ST[03] housekeeping** `HousekeepingService` | map of structures: parameters, interval, enabled or not; the caller keeps when it called last and the delay it was given | create, delete, append, enable, disable, change the interval; `reportPendingStructures` | a structure is reported at its interval, whatever the others have the caller sleep; an enabled one keeps its layout; capacities |
| ST[04] parameter statistics | map of statistics | enable, add, delete, report, reset | intervals; capacity |
| **ST[14] real-time forwarding** `RealTimeForwardingControlService` | map from application and service to the types of reports to forward | add and delete by type, by service, by application, all; report | what is forwarded is what was asked for; capacity at each level; no empty level left |
| **ST[23] file management** `FileManagementService`, `Filesystem` | the file system, locks | create, delete, lock, unlock files; create, delete directories; report attributes | a locked file is kept; a telecommand that meets no error has been carried out |
| **ST[13] large packets** `LargePacketTransferService` | none | split | parts in order and complete |
| **Messages** `Message`, `MessageParser` | an array of bytes, the cursor of the writer and that of the reader | append and read fields, finalize, parse a packet or an embedded telecommand, dispatch | what is read is what was written; cursors stay in the array; each telecommand reaches its service |
| **Time formats** `TimeStamp`, `UTCTimestamp`, `Time.hpp` | a counter of TAI ticks; a UTC date | convert, add durations, format and parse the unsegmented code | date and counter agree; a time is received as it was sent |
| ST[01], ST[06], ST[17] | none of their own | reports; memory access; ping | - |
| `ServicePool`, `ErrorHandler` | the services; packet counters | reach a service, report an error | - |

**How they interact.**  `MessageParser::execute` hands a telecommand to the service of its type.
Handlers run to completion in one thread, but *nest*: ST[11] and ST[19] hold telecommands and give
them to `MessageParser::execute` from within their own loops, so a handler can be entered while
an operation of the same service is half-way; ST[08] calls a function that may report an event,
which executes an action.  ST[12] holds references to the parameters of ST[20].  Errors
go to ST[01] reports.  The flight software calls `executeScheduledActivity`, `checkAll`, the
event reports, `reportPendingStructures` and `addTelemetryToPacketStore` between telecommands.  ST[03] keeps no clock: the caller
of `reportPendingStructures` sleeps as long as it is told and hands back both times
(`test/Services/HousekeepingServiceTests.cpp:628-693`).  ST[13] splits any message
into parts; ST[11] and ST[19] keep telecommands as bytes that `MessageParser` parses again.

**What is hard.**  Re-entrancy (iterators and fronts of lists used after a nested telecommand);
long sequences of legal telecommands whose checks are spread over many handlers; containers at
their capacity; release times that wrap modulo 2^32; half-done work of a refused request; timing
(margin, due, time windows, a caller that is late); cursors over bits and bytes that a writer and a reader move
each for itself; one thing named in several ways (paths, applications of 16 and of 8 bits).  There is no persistence and no
message loss inside this code.
`PROJECT.json` lists the hazards one by one, each at its line.

## 2. Modules

| module | models | properties |
|---|---|---|
| `ActivitySchedule` | what ST[11] promises: cells, release times, release in order | abstract specification |
| `TimeBasedScheduling` | ST[11] in detail | refines `ActivitySchedule` |
| `TimeBasedScheduling_proofs` | the theorems about ST[11] | proved by TLAPS |
| `PacketStoreLifecycle` | what ST[15] promises of a store's life: absent, idle, retrieved one way or the other, recording | abstract specification |
| `StorageAndRetrieval` | ST[15] in detail | refines `PacketStoreLifecycle` |
| `StorageAndRetrieval_proofs` | the theorems about ST[15] | proved by TLAPS |
| `EventHandling` | ST[05] and ST[19] together, with the stack of nested calls | |
| `EventHandling_proofs` | the theorems about ST[05] and ST[19] | proved by TLAPS |
| `OnBoardMonitoring` | ST[12] over the parameters of ST[20] | |
| `OnBoardMonitoring_proofs` | the theorems about ST[12] | proved by TLAPS |
| `Housekeeping` | ST[03] and the caller of its periodic reports | |
| `Housekeeping_proofs` | the theorems about ST[03] | proved by TLAPS |
| `RealTimeForwarding` | ST[14] | |
| `RealTimeForwarding_proofs` | the theorems about ST[14] | proved by TLAPS |
| `FileManagement` | ST[23] over the file system of the x86 platform | |
| `FileManagement_proofs` | the theorems about ST[23] | proved by TLAPS |
| `Messages` | the buffer of `Message`, the lengths `MessageParser` reads, the parts of ST[13] | |
| `TimeFormats` | counters, dates and the unsegmented code | |
| `Formats_proofs` | the theorems about `Messages` and about `TimeFormats`, which share lemmas on division | proved by TLAPS |
| `MC_*` | values of the constants for TLC: telecommands ground may send, what activities and actions hold | |

Conventions: definitions keep the names of the source.  A definition named after a rule with
"Without", "OffByOne", "Always" or the like, and marked "a slip for mutation", is not part of any
specification: it is a plausible mistake used to see that a property notices it.  A variable
marked *history* records something for a property and guards nothing.  Errors appear only where a
property tells them apart; texts, report layouts and packet headers are left out.

### TimeBasedScheduling
The list is a sequence of activities; each sits in a `node` of the ETL list (nodes are what the
code's references and iterators name, and a freed node may be taken again).  A telecommand is
`request`; each handler is one step per turn of its loop with a `Finish...` step for what follows
the loop (the sort, the report), because the order of change, search and sort matters.
`executeScheduledActivity` is `ExecuteScheduledActivity` (hand the telecommand of the front to its
handler), the handler's own steps, then `PopFront`.  `sortActivitiesReleaseTime` is *any* sorted
permutation: the code promises no stability.  Release times are counters modulo `TimeModulus`.
The capacity is what the code compares, the *length* of the list (`AtCapacity`); the pool of nodes is ETL's, so that a push
without a free node is an outcome of the model (`CellsToTake`) and not excluded by it.  `wakeUpTime` is when the task that
executes activities means to call again: what `executeScheduledActivity` returned last (`NextReleaseTime`; max() for an empty
list), or at once after `notifyNewActivityAddition`, a hook of the platform.  It may call earlier at any time.
`undefined` is set where the code pops an empty list or fills a list beyond its room: ETL
asserts there (`ETL_CHECK_PUSH_POP`), or nothing is defined.

### StorageAndRetrieval
`packetStores` is a function on the identifiers in use; a packet is its time stamp.  Each handler
is one action for one named store, or one `...OfAll` action for the form that means all
stores: a telecommand that names several is several steps, between which the model allows more
than the code does.  `refused` tells that the last step reported an error.  The flight software is free in what it
hands over: packets of any time for any store, known or not (`AddTelemetryToPacketStore`), and whole stores in any state
(`AddPacketStore`, over `GivenStores`); the service asks nothing, so neither does the model.  Where a container has no room
left `undefined` is set and the model stops.  `latest` and `chronological` (history) tell whether packets were handed over in
the order of their time so far, to all stores together: a copy carries packets from one store to another,
so that order in each store alone is not enough.

### EventHandling
`definitions` maps the nodes of the multimap to entries, ordered by event number; `stack` holds the
calls in progress: a telecommand with what its loop has left, or a report with the position of
`executeAction` and the end it saved.  Nodes are reused, so the saved end may be free or hold
another entry.  The refusal of TC[19,1] leaves the rest of the definition unread; the next turn then
reads another instruction: one more of those ground may send.

### OnBoardMonitoring
`parameterMonitoringList` maps an identifier to a slot (vector and index), `checks` holds the contents of
the slots in the list, `sizes` the sizes of the three vectors, which never shrink.  `checkAll` is one
step.  Time is in seconds; the change per second is compared by multiplying the thresholds.

### Housekeeping
`housekeepingStructures` is a function on the identifiers in use, limited as the ETL map is.  `now` is the clock,
`slept` the time since the last call and `expectedDelay` what that call returned, which are what the caller hands
to `reportPendingStructures`.  Telecommands come at any time while the caller sleeps.  The clock
is a cycle of `Horizon` seconds, a multiple of every interval: the service looks at times modulo the intervals and
for zero, the start, only.  `collected` is the set of structures of the last report; `steady` (history)
are those enabled ever since the last call.

### RealTimeForwarding
`definitions` maps a key (8 bits of an application, a service) to the vector of types.  Each instruction of a
telecommand is a step; the types of one service in TC[14,1] are a loop of their own (`adding`), because the checks of the
service precede it.  `undefined` is set where a vector is pushed beyond its capacity or the map of all
report types has no such service (`.at`).

### FileManagement
A path is the sequence of its components; `nodes` maps the paths that exist to files and directories.  A telecommand
names a repository and an object, and the same path may be cut in several ways.  What the file system
refuses is modelled after the calls of `Filesystem.cpp`: a stream that cannot be opened does nothing,
`std::filesystem` throws and nothing catches it (`uncaught` keeps the telecommand, and nothing follows).  `picture` (history) is
the tree as ground knows it from the telecommands that reported no error, each entry `checked` if the object was named right
in its repository, the directory the service looks at.  `WriteFile` stands for the programs that fill
files, which only a lock stops.

### Messages
The array is the set of its bits that are one.  A field appended is `written`, with the bit at which it ends; the
message is finalised and reaches its reader as it is, as a packet of some announced length (`ReceivePacket`),
or through the fixed space of a telecommand in another (`Embed`); the reader then asks for the same
fields.  Or it is `Split`.  The bits are data the property is about: a field lies across bytes, and the two cursors are
moved by different code.

### TimeFormats
A clock shows `taiCounter` and `date`; `Add` adds a duration to both by the code of each, `Convert` sets the
date from the counter.  `Send` puts the time in a format with the header of the code,
`Receive` reads the header and fills a counter of its own format.  Years and months are those of the
code; the seconds of a minute, an hour and a day are constants, so that a century fits TLC's integers.
The two loops of the constructor that add up years and months are `DaysBeforeYear` and `DaysBeforeMonth`; the two
of `UTCTimestamp::operator+=` that take years and months off, each as long as the duration has one, are a `CHOOSE`
of the year, or month, they end at (`SkipYears`, `SkipMonths`), which the proofs show to exist and to be the only one.
The bytes of a counter come from its repeated division by 256 (`Shifted`), as many as the format has: seconds fit if
nothing is left after the bytes of the format.  The clock's own counter is a natural number; the widths are those of the formats.
Its definitions of behaviour are called `ClockInit`, `ClockNext`, `ClockSpec`.

## 3. Runs

Every run is exhaustive for its bounds.  The "violation" run shows a place where the code does other than
its documentation says.

| run | shows | bounds and why they are enough |
|---|---|---|
| `tbs_schedule` | types and capacity of the list, reports, single release of the activity executed, margin, refinement, and that a due activity is released | 3 activities and a telecommand of 3 instructions: a full list, refusals within a telecommand, ties, two shared identifiers; times to 4, clock to 2, margin 1. `ShiftedTimes <- NoWrap` restricts ground to shifts that do not wrap the counter (section 6 tells what the others do) |
| `tbs_nested` | what holds when activities are TC[11,*]: order, nothing before its time or before an earlier one, the task never left asleep past a release time but by a shift | 2 activities, each kind of telecommand that changes the list |
| `tbs_nested_pop` (violation) | the activity removed is not the one executed | as above |
| `sar_retrieval` | exclusive retrieval, frozen configuration, refinement, capacity | 3 identifiers for 2 places: creation at the limit; every telecommand; stores the flight software adds in the default state and in either retrieval, but not in both (`GivenExclusive`); identifiers symmetric |
| `sar_content` | order of queues while they are filled in order, exact copies, content kept under retrieval | 2 stores of up to 3 packets handed over in any order, or with a store that has them in order or not; packets of 2 times, windows over 4: before, at, between and after packets |
| `events` | one definition per event, enabled ones kept, reports accounted for | 2 events and a number that is no event, 2 definitions, actions that delete, clear, disable and report; 3 nested calls; counters modulo 3 so that they wrap |
| `monitoring` | no shared slots, status fits limits, limits exceeded are noticed | 3 identifiers for a list of 2, vectors of 2 and 1: full list, full vector, slots left behind |
| `housekeeping` | enabled structures keep their parameters, no collection is missed by a caller at most a second late, enabled structures are reported again and again | 3 identifiers for 2 places; intervals 0, 2 and 3, which meet every 6 seconds (`Horizon`); lateness 1, the most for which it holds: a call two seconds late jumps over the second it was meant for |
| `forwarding` | what is forwarded is what was asked for; no key without reports | applications 1, 2 and 258, which shares the key of 2 and is not controlled; 2 services known and one that is not; 2 types, so that a vector of 3 overflows by repetition |
| `files` | what meets no error is done, locked contents kept | 3 repositories, objects of no, one and two components and a wildcard: a tree of three levels in which a path is cut in several ways; contents empty and two others |
| `messages` | fields are read as written, cursors stay in the array, parts make up the message | an array of 5 bytes for up to 6 fields of 1 to 3 bytes, within and across bytes, one of them a string its reader has no room for; an embedding space of 3, parts of 2, every announced packet length |
| `time_formats` | date and counter agree, also when durations are added; a time is received as sent | start years 2020 to 2103 around leap years and 2100; three durations from a second to almost a year; ten formats with every kind of header. A minute has 2 seconds, an hour 4, a day 8 |

**Deadlock.**  `CHECK_DEADLOCK FALSE` stands in the runs whose model stops where the code leaves
defined behaviour (`undefined`): `tbs_nested*`, `events`, `monitoring`, `housekeeping`, `forwarding`,
`files`, `sar_retrieval` and `sar_content`; and in `messages`, where a message is read to its end or split and nothing follows.

**Fairness.**  `TimeBasedScheduling!Fairness`: handlers and the pop that follows an execution run to
their end (weak; they are straight-line code), and `executeScheduledActivity` is called
again and again by the flight software, also when ground keeps sending telecommands (strong: a
telecommand being handled disables it for a while). `OnBoardMonitoring!FairSpec`: `checkAll` is
called periodically, as `PMON::performCheck` documents ("called periodically and consistently every
ECSSMonitoringFrequency").  `Housekeeping!FairSpec`: time passes, and the caller that was told to call again after a while
does (`HousekeepingService.hpp` documents the delay as that of the next periodic call; the test of it calls so).
Ground is never obliged to do anything, and the clock of ST[11] need not advance.

## 4. Theorems

`StorageAndRetrieval_proofs` proves for every value of the constants allowed by
`ConstantsAssumption` (any identifiers, capacities and sets of times):

* `TypeCorrect`: `[]TypeOK`, with the capacities of the map and of the queues;
* `RetrievalIsExclusive`: `[]RetrievalExclusive`, if no store the flight software adds is in both retrievals (`GivenExclusive`);
* `ContentIsOrdered`: `[]ContentOrdered`, order as long as packets are handed over in order;
* `RetrievalIsFrozen`, `RetrievedContentIsKept`: the action properties `FrozenWhileRetrieved`
  and `RetrievedContentKept`;
* `CopyIsExact`: the action property `CopyExact`;
* `ImplementsLifecycle`: `Spec => RefinesLifecycle`, with `GivenExclusive`.

The argument.  The inductive invariant is `IInv == TypeOK /\ StoresWellKept /\ (GivenExclusive => RetrievalExclusive)`.
`RetrievalExclusive` alone is not inductive without the types of the stores:
that a step writes a *packet store* back is what lets its flags be compared.  `ContentOrdered` alone is
not either: a packet appended keeps a queue in order only because, while `chronological` holds, no packet in any store is later
than `latest`, the one handed over last; `StoresWellKept` says so, and that no queue outgrows its capacity.  A copy keeps
the order, and the capacity, because the destination is empty (`CopyError`) and the copies come in the order of the source.  That a
copy holds packets of the window only, each once, follows from the loop whatever the order of the source.
That it *misses none* takes a source in order, since the loop stops at the first packet after the window and the checks look at
the ends of the queue only: `CopyExact` claims it for such sources and for no others.  `Invariance` proves
`Init => IInv` and `IInv /\ [Next]_vars => IInv'`, one step per action; the action properties and the
refinement step use `IInv` in the state before.

`OnBoardMonitoring_proofs` proves, for any parameters, values, limits and capacities:

* `TypesHold`: `[]TypeOK`, with the capacity of the list and of the vectors;
* `SlotsStayDistinct` and `StatusAlwaysFitsLimits`: `SlotsDistinct` and `StatusFitsLimits`, which the run
  `monitoring` checks too, and `DisabledStaysUnchecked`: a disabled definition is unchecked.

The argument.  `SlotsDistinct` is not inductive: a new definition takes the slot after the end of its
vector, which is unused only because every slot the list refers to lies within the vector (`Allocated`, in
`SlotsOK`).  What the other properties say of a slot is gathered in `SlotOK`; a step either writes one slot
(`WriteInvariant`), takes identifiers off the list (`EraseInvariant`), leaves the list alone
(`ListVarsUnchanged`), adds one (`AddInvariant`) or checks (`CheckAllInvariant`), and one lemma for each kind
of step carries `SlotOK` over.

`EventHandling_proofs` proves, for any number of events, contents of actions and depth of calls:

* `TypeCorrect`: `[]TypeOK`, with the capacity of the map and the width of the counters;
* `DefinitionsStayUnique`, `ReportsStayAccounted`, `EnabledIsKept`: the properties `DefinitionsUnique`,
  `ReportsAccounted` and `EnabledDefinitionKept`.

The argument.  `ReportsAccounted` counts the reports on the stack, so it takes knowing what returns: `StackInOrder` says that
every report below the top waits for the telecommand it led to, and that one at the top stands on a definition
that is there, on the last one or at the end.  A step pushes, pops or changes the top call only, and the
calls below are `Suspended`.  That the counters agree *modulo their width* is carried by the lemma `RemainderFirst`.

`TimeBasedScheduling_proofs` has two invariants:

* `ListInv`, the types, the capacity and that no two activities share a node, holds without any assumption, also when activities
  are TC[11,*] that change the list they are run from: `TypeCorrect`, with `Len(scheduledActivities) <= MaxActivities`.  Where
  nodes are distinct a list below its capacity leaves a free one, so a push that passes the check of
  `insertActivities` finds its cell.
* `OrderInv` holds if no shift of the whole schedule wraps the counter (`NoWrapAround`, what the runs assume of
  `ShiftedTimes` too): the list is ordered unless a handler is in the middle of its loop, the offset of a
  shift in progress fits every activity, the matches collected and the report given are of the list.  From it
  follow `ScheduleStaysOrdered`, `ReportFollows`, `EarliestIsFirst` and `MarginIsRespected` (the properties
  `ScheduleOrdered`, `ReportFollowsSchedule`, `EarliestDueFirst`, `MarginRespected`), and `TaskIsWokenInTime` (`WokenInTime`).

`WokenInTime` compares the wake-up time with a list that has changed since the task was told it.  An insertion makes the task call at
once, whatever is inserted where; a deletion or a release can only make the first release time later, because the list is
*ordered* when it happens; the end of an execution and a call with nothing due set the wake-up time anew.  What remains are
the two shifts (section 6).

`RemovesExecuted` proves `RemovesWhatItExecutes` if no activity is itself a TC[11,*]: then the activity in execution
stays at the front (`RunningIsHead`).  The run `tbs_nested_pop` shows that it does not hold otherwise.

`ImplementsActivitySchedule` proves `RefinesActivitySchedule` from both invariants and `RunningIsHead`.  The mapping is `Pending`, the
release times by cell without the activity in execution.  `PendingFacts` says what it holds, after which each step falls under one of five
lemmas: the same cells with the same times or ones a margin away (`Reschedules`; a sort is the case in which none changes), fewer cells
(`Cancels`), one more (`Accepts`), the head taken (`Releases`) or done with (`Finishes`).  The abstract
schedule has no fairness, so the refinement is all safety.

`Housekeeping_proofs` proves, for any structures, intervals and cycle of the clock:

* `TypeCorrect`, `EnabledIsFrozen` (the property `FrozenWhileEnabled`: existence and parameters, not the interval, which
  TC[3,31] may change while the structure is enabled);
* `CollectionIsKept`: `CollectionKept`, provided `MaxLateness <= 1`.

The argument.  `DelayFits` says that the delay returned leads no further than the next collection of any structure
enabled ever since.  A call on time or one second late is then at that collection or one after it, which the two
tests of the code (the present, and the time the call was meant for) tell apart.  With a lateness of
2 the property is violated: a collection in between is missed.

`FileManagement_proofs` proves, for any names, paths and contents: `TypeCorrect`, `AcceptedIsAlwaysDone` (`AcceptedIsDone`) and
`LockedContentIsKept` (`LockedContentKept`).  The argument.  An object named right in its repository lies in the directory
the service has looked at (`CheckedHasPlace`), so the stream that makes a file and `create_directory` succeed although nobody reads
their answer, and what is thrown is thrown for others (`ThrownIsUnchecked`).  What ground was told of goes only by a telecommand that
removes it, under whichever name, since a directory that holds a node is not empty.  For `LockedContentKept`
the invariant is that *all* directories above a node exist (`AncestorsIntact`): a step that keeps the directories
above a locked file needs all of them.

`RealTimeForwarding_proofs` proves, for any applications, services, types and capacities: `TypeCorrect` and
`KeysStayInUse` (`KeysInUse`; its half about the capacity holds because the model stops where a vector is pushed beyond it)
without an assumption, and `ForwardsWhatWasAsked` (`ForwardsWhatIsAsked`) if every controlled application
fits the 8 bits a key has for one (`ApplicationsFitKeys`; two that share them forward each other's reports).
The argument.  What is asked for is always forwarded (`AskedIsForwarded`), doubled or not, since a removal
keeps every other type; the converse (`ForwardedIsAsked`) needs that no type is twice at a key.  `RemovedFacts` is
what `erase(remove(...))` does, from the enumeration of the positions that stay.

`Formats_proofs` holds the theorems of two modules.  Of `Messages` it proves, for any array, fields,
spaces and parts:

* `TypeCorrect`: `[]TypeOK`, no cursor leaves the array;
* `ReadsWhatWasWritten`: `[]ReadsBack`;
* `PartsHoldAll`: `[]PartsRebuild`.

The argument.  `ReadsBack` says of two lists, the fields written and those read, that they agree; what makes it so is the
array between them and two cursors moved by different code.  The invariant `IInv` says that the fields lie one behind
the other (`FieldsLaid`), that the array holds each of them where it lies (`FieldsHeld`), that the cursor of the writer is at
the end of the last field (`WriterInPlace`), or past what was dropped when the array was full, and that of the
reader at the end of the last field it got (`ReaderInPlace`).  A lemma for each way to append shows that what lies
below the cursor is not touched (`WindowKept`, `HoldsKept`), one for each way to read that the
window read is the field.  The length before an octet string is the one number read as a number: `Octets`
and `OctetOfBits` say that the two conversions are inverse.

Of `TimeFormats` it proves, for any lengths of minute, hour and day of which each divides the next, any start years,
durations, fraction and formats (`ClockAssumption`):

* `ConversionsAgreeAlways`: `[]ConversionsAgree`;
* `SumsAlwaysAgree`: `SumsAgree`, if every duration is shorter than 365 days (`ShortDurations`);
* `ReceivedAsSentAlways`: `[]ReceivedAsSent`, for every time that fits its format (`SecondsFit`) and the formats of
  `ReadableHeader`.

The argument.  `YearsAddUp` shows that the days added up year by year are those of the closed form of the calendar
(`DaysToYear`), and `MonthTable` lists those of the months.  So the loops that take off years and months end, at the one
year and month that the remaining duration lies in (`YearsTaken`, `MonthsTaken`, `Skipped`).  What is left is split into
days, hours, minutes and seconds and added to the fields of the date, after which each field is carried once:
`Carriable` bounds the fields so that once is enough for the time of day, and `Repaired` shows that the
carries keep the seconds of the date (`Value`) and never go back.  From the epoch no field needs a carry, and the date is one
of the calendar (`Converted`): hence `ConversionsAgree`.  `SumsAgree` needs the invariant `InStep`, that the date shown is
the counter and its fields are in bounds (a day up to 31, as the month is carried once, with the length of
the month before).  Its hypothesis is what the code asks for: a whole year is taken off with the length of the *first* year
(section 6), so that a duration of a year or more may come out a day off, and the property is about shorter ones.
For the code of a time, `HeaderRead` shows case by case that the header gives back the numbers of bytes it was built from,
`SentBytes` and `CounterReceived` that the bytes behind it are taken at the right place, and `LeadingZeros` that a
number in more bytes than it needs begins with zeros; `ShiftedFacts` says what the divisions by 256 leave.  `ReceivedAsSent` is
about the formats whose header is as long as its type: all but those of 4 bytes of seconds with up to 3 of fraction and of 3 of
fraction with up to 4 of seconds.  The default format, 4 bytes and none, is among the excluded ones (section 6).

## 5. Model-checked only

* Liveness (`DueIsServed`, `AboveLimitNoticed`, `EnabledIsCollected`): fairness and ENABLED are out of TLAPS's reach.

Every other property of a passing run is stated by a theorem.  Some theorems have a hypothesis on the constants beyond the
assumptions of the module: `RetrievalIsExclusive` and `ImplementsLifecycle` of ST[15] (`GivenExclusive`), `CollectionIsKept`
(`MaxLateness <= 1`), `ForwardsWhatWasAsked` (`ApplicationsFitKeys`) and
`SumsAlwaysAgree` (`ShortDurations`); those of ST[11] on order, and `TaskIsWokenInTime`, assume `NoWrapAround`, and
`RemovesExecuted` that no activity
is a TC[11,*].  In each case the section above says what the code does without it.

## 6. Differences between code and documentation

Shown by the violation run: see `findings` in `PROJECT.json`.  Met while modelling, without a run, by service:

*ST[11].*
* Activities are executed while the execution function is disabled: `executeScheduledActivity`
  (`TimeBasedSchedulingService.cpp:12`) does not
  read the status that `TimeBasedSchedulingService.hpp:166` says stops the execution.
* A shift is added modulo 2^32 (`:97`, `TimeStamp.hpp:240-256`): one that takes a time below zero or past the end wraps, and the
  margin and the order break.
* A shift to an earlier time (`:101`, `:131`) tells the task that executes activities nothing, unlike an insertion (`:80`): it
  stays asleep until the release time it was told before.
* All activities of one TC[11,4] get the request identifier of the telecommand
  (`TimeBasedSchedulingService.cpp:70-74`), which `TimeBasedSchedulingService.hpp:268` calls unique: delete, shift and
  report by identifier reach the first of them.
* The list of matches (`:205`) has the capacity of the schedule but gets one entry for each identifier named: an identifier
  named often enough overruns it.

*ST[15].*
* `noTimestampInTimeWindow` (`StorageAndRetrievalService.cpp:103-111`) looks at the ends of the queue only: an empty
  window between two packets is not reported.
* `resetPacketStores` (`:209`) removes the stores, not their content.
* `addTelemetryToPacketStore` (`:205`) makes a store for an unknown identifier, on virtual channel 0, and `addPacketStore`
  (`:199`) takes any store: one in both retrievals stays so.  Neither asks for room.
* Nothing looks at the time of a packet that is handed over: filled against the convention of `PacketStore.hpp:68-74` a queue is
  out of order, and a copy (`:32`) misses the packets of its window behind the first later one.
* `createPacketStores` (`:530`) does not look at `ECSSMaxPacketStoreSizeInBytes`, which
  `resizePacketStores` enforces.

*ST[05], ST[19].*
* `EventReportService` indexes a bitset of `NumberOfEvents` bits with event numbers that start at 1:
  the last event uses a bit outside the set, and `disabledEventsCount` may count bit 0, which is no event.
  `disableAllEvents` leaves `disabledEventsCount` as it was.
* `executeAction` (`EventActionService.cpp:188-192`) keeps the range of an event's definitions while the action's telecommand may
  erase them: the loop may go on into the actions of other events, against `EventActionService.hpp:122`.  The iterator is
  incremented even when the definition it stood on was deleted.

*ST[12].*
* TC[12,7] changes a definition before refusing its limits, leaves the remaining definitions of the telecommand
  unread after the first unknown one, and casts by the type in the telecommand.
* `checkAll` does not look at `parameterMonitoringFunctionStatus`.
* A delta check enabled again compares with the value from before it was disabled.
* The status is set at the first check: `repetitionNumber` (`PMON.hpp:40`) is stored and never read (`:254`); TC[12,1]
  sets the counter of repetitions to zero.
* A deleted definition leaves its place in the vector taken: a vector fills up while the list has room
  (`OnBoardMonitoringService.hpp:101` against `:45`).

*Dispatch.*
* The case of ST[15] has no `break` (`MessageParser.cpp:54`): every telecommand of ST[15] goes to ST[12] as well.  Those ST[15] does
  not know, 5 to 8, are carried out there, since its handlers ignore the answer of `assertTC`
  (`OnBoardMonitoringService.cpp:66, 145, 165, 254`).  There is no case for ST[13].

*ST[03].*
* The identifiers of the structures made at the start are taken from a parameter's *value*.
* Too many parameters in TC[3,1] are pushed to a full vector.
* With no structure enabled the delay is 429496729 seconds; one enabled meanwhile waits that long
  unless its caller wakes up earlier.

*ST[14].*
* An application has 16 bits in a telecommand and 8 in a key: 258 shares the key of 2, and a controlled application above 255
  can be added, but neither found for its limits nor deleted.
* Adding all types of a service does not look for those there already: a type may be held twice, a deletion takes away one
  (`RealTimeForwardingControlService.cpp:225`), and repeated additions overflow the vector.
* `deleteApplicationProcess` (`:170-178`) erases what `find` returned without asking.
* The limit of services refuses new types for services that are already there; a type is not checked to belong to its
  service; an unknown service reaches `.at`.

*ST[23].*
* A lock is not looked at by `deleteDirectory`: an empty file that is locked goes.
* Directories between the repository and the object are not checked: `createFile` then fails silently, `create_directory`
  throws and nothing catches it; so does deleting the working directory.

*Messages.*
* `MessageParser` requires a packet length of the bytes after the primary header, `compose` writes one less (and the checksum is
  counted by one of them): a composed telecommand is not parsed again.  For a packet shorter than its header the
  length wraps.
* A string is copied over bits begun before it, and the message may then end past its array when finalised.
* An octet string between bits has its length refused and its content appended; one too long for its reader leaves the
  cursor within it; a 64-bit number is appended as two words, the second of which may be refused alone.
* Reads are bounded by `ECSSMaxMessageSize`, not by the size of the message; `skipBytes` by nothing.
* `bytesEqualWith` compares the whole array, against its comment.
* A message shorter than a part is split into two parts numbered 0; one of just `ECSSMaxMessageSize` is read past its array; parts of
  256 bytes exceed the length `readOctetString(uint8_t*)` can return.

*Time.*
* A format of 4 bytes of seconds with up to 3 of fraction, or of 3 of fraction with up to 4 of seconds, has a header type of two
  bytes (`TimeStamp.hpp:70`) while a header of one is
  built for it (`Time.hpp:247`): the byte sent first is zero and the receiver misreads the time, also in the default format.
* A header of two bytes with eight bytes of counter writes past the array of nine.
* Adding a duration takes whole years off with the length of the first year, wrong across a 29 February (the model adds less than a
  year at a time); a month is carried once, so 31 January and 30 days is 30 February; second 60 is not carried.
* Refused constructors of `TimeStamp` leave `taiCounter` uninitialised; the clock of the x86 platform passes the year since 1900 and
  the month from 0.

## 7. Not modelled

`PROJECT.json` lists every component with its status.

* ST[04]: a map with one check for each operation; what is hard in it are floating-point sums, which neither tool computes.
* ST[06]: reads and writes raw memory at platform addresses.
* ST[01], ST[17], `ErrorHandler`, `ServicePool`: no state that another part depends on.
* Of ST[20] the report and of ST[08] functions that do other than report an event: they read, or are the mission's.
* Of the headers all fields but the lengths, and the checksum: compared with constants, or arithmetic over every byte.
* Of the time formats units other than the second: converted in floating point.
* The platform: its demonstration program and its configuration, for whose values the constants stand.
* The composition of ST[15] with ST[12] through the missing `break`: their handlers read one message with one cursor, and
  what the second makes of the rest is any telecommand of ground's.

## 8. Plan

What remains, in this order:

1. `ParameterStatistics` (ST[04]) with the statistics as bags of samples, if a property beyond its one check is found;
2. the dispatch itself: one message, read by ST[15] and then by ST[12];
3. for the refinement of ST[11], what remains of it when activities are TC[11,*] themselves.
