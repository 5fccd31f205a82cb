----------------------------- MODULE Housekeeping -----------------------------
(***************************************************************************)
(* ST[03] housekeeping (HousekeepingService).                              *)
(*                                                                         *)
(* Ground defines structures: sets of parameters with a collection         *)
(* interval. The flight software calls reportPendingStructures, which      *)
(* reports the enabled structures that are due and returns how long it may *)
(* be left alone; the caller sleeps as long and hands back when it called  *)
(* last and how long it was told to sleep. Structures change while it      *)
(* sleeps, and it may wake up late.                                        *)
(*                                                                         *)
(* Time is in seconds, and the clock is a cycle: the service looks at      *)
(* times modulo the intervals only, and for zero, which is the start. A    *)
(* telecommand names one structure here; one that names several is several *)
(* steps in a row. TC[3,9], TC[3,27] and TC[3,33] read the structures and  *)
(* change none: left out, and so are the values in a report.               *)
(***************************************************************************)
EXTENDS Integers, FiniteSets, FiniteSetsExt, Functions

CONSTANTS
  StructureIds,                      \* what a telecommand may name as a structure
  ParameterIds,                      \* what a telecommand may name as a parameter
  Parameters,                        \* the parameters of ST[20]
  Intervals,                         \* collection intervals, 0 for "at every call"
  InitialStructures,                 \* the structures the platform starts with
  ECSSMaxHousekeepingStructures,
  ECSSMaxSimplyCommutatedParameters,
  Horizon,                           \* length of the clock's cycle
  MaxDelay,                          \* the delay when nothing is to be collected
  MaxLateness                        \* how much later than told the caller may call

HousekeepingStructure ==
  [collectionInterval : Intervals, periodicGenerationActionStatus : BOOLEAN,
   simplyCommutatedParameterIds :
     { ids \in SUBSET ParameterIds : Cardinality(ids) <= ECSSMaxSimplyCommutatedParameters }]

ASSUME ConstantsAssumption ==
  /\ IsFiniteSet(StructureIds) /\ IsFiniteSet(ParameterIds)
  /\ Parameters \subseteq ParameterIds
  /\ Intervals \subseteq Nat
  /\ DOMAIN InitialStructures \subseteq StructureIds
  /\ InitialStructures \in [DOMAIN InitialStructures -> HousekeepingStructure]
  /\ ECSSMaxHousekeepingStructures \in Nat
  /\ Cardinality(DOMAIN InitialStructures) <= ECSSMaxHousekeepingStructures
  /\ ECSSMaxSimplyCommutatedParameters \in Nat
  /\ Horizon \in Nat \ {0}
  /\ \A interval \in Intervals \ {0} : Horizon % interval = 0
  /\ MaxDelay \in Nat \ {0} /\ MaxLateness \in Nat

VARIABLES
  now,                     \* 0 at the start, then 1 .. Horizon over and over
  slept,                   \* seconds since the last call, so now - slept is previousTime
  expectedDelay,           \* what the last call returned
  housekeepingStructures,
  undefined,               \* a push to a full vector
  collected,               \* what the call of this second reported
  steady                   \* history: enabled at the last call and not touched since

clockVars == << now, slept, expectedDelay >>
vars == << clockVars, housekeepingStructures, undefined, collected, steady >>

-----------------------------------------------------------------------------
Existing == DOMAIN housekeepingStructures

Enabled(id) == housekeepingStructures[id].periodicGenerationActionStatus
Interval(id) == housekeepingStructures[id].collectionInterval

EnabledStructures == { id \in Existing : Enabled(id) }

Init ==
  /\ now = 0
  /\ slept = 0
  /\ expectedDelay = 0
  /\ housekeepingStructures = InitialStructures
  /\ undefined = FALSE
  /\ collected = {}
  /\ steady = {}

-----------------------------------------------------------------------------
(* Telecommands.                                                           *)

\* The structure changes; what is steady is what stays as the last call saw it.
Write(id, structure) ==
  /\ housekeepingStructures' = [housekeepingStructures EXCEPT ![id] = structure]
  /\ steady' = steady \ { id }

\* A slip for mutation: off by one.
HasRoomForOneMore == Cardinality(Existing) <= ECSSMaxHousekeepingStructures

HasRoom == Cardinality(Existing) < ECSSMaxHousekeepingStructures

\* TC[3,1].  Neither the number of parameters nor whether they exist is looked at; a
\* push_back to a vector that is full is undefined.
CreateHousekeepingReportStructure(id, interval, parameterIds) ==
  /\ ~undefined
  /\ id \notin Existing
  /\ HasRoom
  /\ \/ /\ Cardinality(parameterIds) <= ECSSMaxSimplyCommutatedParameters
        /\ LET structure == [collectionInterval |-> interval,
                             periodicGenerationActionStatus |-> FALSE,
                             simplyCommutatedParameterIds |-> parameterIds]
           IN housekeepingStructures' =
                [i \in Existing \cup { id } |->
                   IF i = id THEN structure ELSE housekeepingStructures[i]]
        /\ UNCHANGED undefined
     \/ /\ Cardinality(parameterIds) > ECSSMaxSimplyCommutatedParameters
        /\ undefined' = TRUE
        /\ UNCHANGED housekeepingStructures
  /\ UNCHANGED << clockVars, collected, steady >>

\* A slip for mutation: any structure that exists may go.
MayDeleteEnabled(id) == id \in Existing

MayDelete(id) == id \in Existing /\ ~Enabled(id)

DeleteHousekeepingReportStructure(id) ==
  /\ ~undefined
  /\ MayDelete(id)
  /\ housekeepingStructures' = Restrict(housekeepingStructures, Existing \ { id })
  /\ UNCHANGED << clockVars, undefined, collected, steady >>

SetPeriodicGenerationActionStatus(id, status) ==
  /\ ~undefined
  /\ id \in Existing
  /\ Write(id, [housekeepingStructures[id] EXCEPT !.periodicGenerationActionStatus = status])
  /\ UNCHANGED << clockVars, undefined, collected >>

\* TC[3,29] for one parameter.
AppendParameterToHousekeepingStructure(id, parameterId) ==
  /\ ~undefined
  /\ id \in Existing
  /\ ~Enabled(id)
  /\ LET ids == housekeepingStructures[id].simplyCommutatedParameterIds
     IN /\ Cardinality(ids) < ECSSMaxSimplyCommutatedParameters
        /\ parameterId \in Parameters \ ids
        /\ Write(id, [housekeepingStructures[id] EXCEPT
                        !.simplyCommutatedParameterIds = ids \cup { parameterId }])
  /\ UNCHANGED << clockVars, undefined, collected >>

\* TC[3,31], for enabled structures too.
ModifyCollectionInterval(id, interval) ==
  /\ ~undefined
  /\ id \in Existing
  /\ Write(id, [housekeepingStructures[id] EXCEPT !.collectionInterval = interval])
  /\ UNCHANGED << clockVars, undefined, collected >>

-----------------------------------------------------------------------------
(* The clock and the periodic reports.                                     *)

\* A slip for mutation: what was expected of this call is forgotten.
DueNow(interval) == interval = 0 \/ (now # 0 /\ now % interval = 0)

\* Due at this second, or at the second the call was meant for.
Due(interval) ==
  \/ interval = 0
  \/ /\ now # 0
     /\ \/ now % interval = 0
        \/ (now - slept + expectedDelay) % interval = 0

\* A slip for mutation: the interval, whatever is left of it.
TimeToCollectionFromNow(interval) == interval

TimeToCollection(interval) == IF interval = 0 THEN 0 ELSE interval - (now % interval)

NextCollection ==
  Min({ MaxDelay } \cup { TimeToCollection(Interval(id)) : id \in EnabledStructures })

\* The task of the flight software wakes up.
ReportPendingStructures ==
  /\ ~undefined
  /\ slept >= expectedDelay
  /\ collected' = { id \in EnabledStructures : Due(Interval(id)) }
  /\ expectedDelay' = NextCollection
  /\ slept' = 0
  /\ steady' = EnabledStructures
  /\ UNCHANGED << now, housekeepingStructures, undefined >>

Tick ==
  /\ ~undefined
  /\ slept < expectedDelay + MaxLateness
  /\ now' = IF now = Horizon THEN 1 ELSE now + 1
  /\ slept' = slept + 1
  /\ collected' = {}
  /\ UNCHANGED << expectedDelay, housekeepingStructures, undefined, steady >>

-----------------------------------------------------------------------------
Telecommand ==
  \E id \in StructureIds :
    \/ \E interval \in Intervals, parameterIds \in SUBSET ParameterIds :
         CreateHousekeepingReportStructure(id, interval, parameterIds)
    \/ DeleteHousekeepingReportStructure(id)
    \/ \E status \in BOOLEAN : SetPeriodicGenerationActionStatus(id, status)
    \/ \E parameterId \in ParameterIds : AppendParameterToHousekeepingStructure(id, parameterId)
    \/ \E interval \in Intervals : ModifyCollectionInterval(id, interval)

Next == Telecommand \/ ReportPendingStructures \/ Tick

Spec == Init /\ [][Next]_vars

\* Time passes, and the task that was told to call again in a while does.
FairSpec == Spec /\ WF_vars(Tick) /\ WF_vars(ReportPendingStructures)

-----------------------------------------------------------------------------
(* Properties.                                                             *)

TypeOK ==
  /\ now \in 0 .. Horizon
  /\ slept \in 0 .. MaxDelay + MaxLateness
  /\ expectedDelay \in 0 .. MaxDelay
  /\ Existing \subseteq StructureIds
  /\ Cardinality(Existing) <= ECSSMaxHousekeepingStructures
  /\ housekeepingStructures \in [Existing -> HousekeepingStructure]
  /\ undefined \in BOOLEAN
  /\ collected \subseteq StructureIds
  /\ steady \subseteq EnabledStructures

\* The layout of a periodic report stays as ground was last told (TM[3,10]) as long as
\* the structure is enabled: no telecommand deletes it or changes its parameters without
\* disabling it first.
FrozenWhileEnabled ==
  [][\A id \in EnabledStructures :
       /\ id \in Existing'
       /\ housekeepingStructures'[id].simplyCommutatedParameterIds
            = housekeepingStructures[id].simplyCommutatedParameterIds]_vars

\* A multiple of the interval passed since the last call.
Passed(interval) == \E time \in now - slept + 1 .. now : time % interval = 0

\* A caller that is at most a second late misses no collection of a structure that was
\* enabled all along, whatever the intervals of the others have it sleep, and reports
\* none whose time did not come since the last call.  (With an interval of 0 enabled the
\* caller does not sleep and the second part does not hold: what is due is reported
\* in every call of the same second.)
CollectionKept ==
  [][ReportPendingStructures =>
       /\ \A id \in steady : Interval(id) # 0 /\ Passed(Interval(id)) => id \in collected'
       /\ expectedDelay # 0 =>
            \A id \in collected' : Interval(id) = 0 \/ Passed(Interval(id))]_vars

EnabledAt(id, interval) ==
  /\ ~undefined
  /\ id \in EnabledStructures
  /\ Interval(id) = interval

\* A structure that stays enabled with one interval is reported again and again, also when it
\* was enabled while the caller slept for others, or for nothing, and whatever ground
\* does to other structures.
EnabledIsCollected ==
  \A id \in StructureIds, interval \in Intervals :
    <>[]EnabledAt(id, interval) => []<>(id \in collected)
=============================================================================
