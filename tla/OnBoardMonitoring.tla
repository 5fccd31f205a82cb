--------------------------- MODULE OnBoardMonitoring ---------------------------
(***************************************************************************)
(* ST[12] on-board monitoring (OnBoardMonitoringService, PMON) of the       *)
(* parameters of ST[20] (ParameterService).                                 *)
(*                                                                         *)
(* The list maps the identifier of a monitoring definition to a reference   *)
(* into one of three vectors, one for each type of check.  The vectors only *)
(* grow: a definition that is deleted leaves its slot behind.  Telecommands *)
(* change definitions, the periodic monitoring checks the enabled ones, and *)
(* the parameters change in between.                                        *)
(*                                                                         *)
(* A telecommand here names one definition; one that names several is       *)
(* several steps in a row.  The identifiers of the events of a check and    *)
(* numberOfConsecutiveDeltaChecks are stored and reported, never used: left *)
(* out.                                                                     *)
(***************************************************************************)
EXTENDS Integers, Sequences, FiniteSets, Functions

CONSTANTS
  ParameterIds,              \* what a telecommand may name as a parameter
  Parameters,                \* the parameters of ST[20]
  Values,                    \* values a parameter may take
  PMONIds,                   \* what a telecommand may name as a definition
  RepetitionNumbers,
  Bodies,                    \* limits, masks and thresholds a telecommand may hold
  Delays,
  CounterModulus,            \* values of repetitionCounter (2^16 in the code)
  MaxMonitoringDefinitions,  \* ECSSMaxMonitoringDefinitions
  MaximumNumberOfChecks,     \* MaximumNumberOfChecksLimitCheck and its like, by type of check
  MaxTime                    \* bound on the clock

CheckTypes == { "Limit", "ExpectedValue", "Delta" }

\* "Other" stands for the numbers that are no type of check.
Body == [type : { "Limit", "Delta" }, low : Int, high : Int]
        \cup [type : { "ExpectedValue" }, mask : SUBSET Nat, expectedValue : Nat]
        \cup [type : { "Other" }]

ASSUME ConstantsAssumption ==
  /\ Parameters \subseteq ParameterIds
  /\ Values \subseteq Nat /\ Values # {}
  /\ RepetitionNumbers \subseteq Nat
  /\ Bodies \subseteq Body
  /\ Delays \subseteq Nat /\ 0 \in Delays
  /\ CounterModulus \in Nat \ {0}
  /\ MaxMonitoringDefinitions \in Nat /\ MaximumNumberOfChecks \in [CheckTypes -> Nat]
  /\ MaxTime \in Nat

StatusesOf(type) ==
  CASE type = "Limit" -> { "WithinLimits", "BelowLowLimit", "AboveHighLimit" }
    [] type = "ExpectedValue" -> { "ExpectedValue", "UnexpectedValue" }
    [] type = "Delta" -> { "Invalid", "WithinThreshold", "BelowLowThreshold", "AboveHighThreshold" }

CheckingStatuses == { "Unchecked" } \cup UNION { StatusesOf(type) : type \in CheckTypes }

Slots == UNION { { type } \X (1 .. MaximumNumberOfChecks[type]) : type \in CheckTypes }

\* previous is previousValue and previousTimestamp of a delta check.
NoPrevious == [known |-> FALSE]
Previous == { NoPrevious } \cup [known : { TRUE }, value : Values, time : 0 .. MaxTime]

PMON == [monitoredParameterId : Parameters, body : Bodies,
         repetitionNumber : Nat, repetitionCounter : 0 .. CounterModulus - 1,
         monitoringEnabled : BOOLEAN, checkingStatus : CheckingStatuses, previous : Previous]

VARIABLES
  now,                               \* TimeGetter's clock, in seconds
  values,                            \* the current value of each parameter
  parameterMonitoringList,           \* PMON identifier -> slot
  checks,                            \* the contents of the slots in the list
  sizes,                             \* sizes of limitChecks, expectedValueChecks, deltaChecks
  parameterMonitoringFunctionStatus,
  maximumTransitionReportingDelay,
  undefined,                         \* an object written as another type, a push to a full vector
  checked                            \* history: the value each slot was last checked with

environmentVars == << now, values >>
listVars == << parameterMonitoringList, checks, sizes, checked >>
settingVars == << parameterMonitoringFunctionStatus, maximumTransitionReportingDelay >>
vars == << environmentVars, listVars, settingVars, undefined >>

-----------------------------------------------------------------------------
Listed == DOMAIN parameterMonitoringList
Referenced(list) == Range(list)

Definition(id) == checks[parameterMonitoringList[id]]

\* The list loses these identifiers.
Erase(ids) ==
  LET list == Restrict(parameterMonitoringList, Listed \ ids)
  IN /\ parameterMonitoringList' = list
     /\ checks' = Restrict(checks, Referenced(list))
     /\ checked' = Restrict(checked, Referenced(list))
     /\ UNCHANGED sizes

Write(id, pmon) ==
  /\ checks' = [checks EXCEPT ![parameterMonitoringList[id]] = pmon]
  /\ UNCHANGED << parameterMonitoringList, sizes, checked >>

\* A slip for mutation: a full vector is only seen when it is more than full.
ListIsFullOffByOne == Cardinality(Listed) > MaxMonitoringDefinitions

ListIsFull == Cardinality(Listed) = MaxMonitoringDefinitions

\* A slip for mutation: the slot after those in use, as if deleting a definition
\* shortened the vector.
NewSlotAfterUsed(type) ==
  << type, Cardinality({ slot \in DOMAIN checks : slot[1] = type }) + 1 >>

NewSlot(type) == << type, sizes[type] + 1 >>

-----------------------------------------------------------------------------
Init ==
  /\ now = 0
  /\ values \in [Parameters -> Values]
  /\ parameterMonitoringList = << >>
  /\ checks = << >>
  /\ sizes = [type \in CheckTypes |-> 0]
  /\ parameterMonitoringFunctionStatus = FALSE
  /\ maximumTransitionReportingDelay = 0
  /\ undefined = FALSE
  /\ checked = << >>

Tick ==
  /\ ~undefined
  /\ now < MaxTime
  /\ now' = now + 1
  /\ UNCHANGED << values, listVars, settingVars, undefined >>

\* A parameter takes a value: TC[20,3], or the flight software.
SetParameter(parameterId, value) ==
  /\ ~undefined
  /\ parameterId \in Parameters
  /\ values' = [values EXCEPT ![parameterId] = value]
  /\ UNCHANGED << now, listVars, settingVars, undefined >>

-----------------------------------------------------------------------------
(* TC[12,1] to TC[12,7].                                                     *)

\* The counter of repetitions is left; their number is set to zero.
EnableParameterMonitoringDefinitions(id) ==
  /\ ~undefined
  /\ id \in Listed
  /\ Write(id, [Definition(id) EXCEPT !.repetitionNumber = 0, !.monitoringEnabled = TRUE])
  /\ UNCHANGED << environmentVars, settingVars, undefined >>

Disabled(pmon) == [pmon EXCEPT !.monitoringEnabled = FALSE, !.checkingStatus = "Unchecked"]

DisableParameterMonitoringDefinitions(id) ==
  /\ ~undefined
  /\ id \in Listed
  /\ Write(id, Disabled(Definition(id)))
  /\ UNCHANGED << environmentVars, settingVars, undefined >>

ChangeMaximumTransitionReportingDelay(delay) ==
  /\ ~undefined
  /\ maximumTransitionReportingDelay' = delay
  /\ UNCHANGED << environmentVars, listVars, parameterMonitoringFunctionStatus, undefined >>

DeleteAllParameterMonitoringDefinitions ==
  /\ ~undefined
  /\ ~parameterMonitoringFunctionStatus
  /\ Erase(Listed)
  /\ UNCHANGED << environmentVars, settingVars, undefined >>

Consistent(body) == body.type \in { "Limit", "Delta" } => body.low < body.high

\* push_back to a vector that is full fails ETL's assertion (ETL_CHECK_PUSH_POP), or
\* writes after its end in a build without assertions.
AddParameterMonitoringDefinitions(id, parameterId, repetitionNumber, body) ==
  /\ ~undefined
  /\ parameterId \in Parameters
  /\ id \notin Listed
  /\ ~ListIsFull
  /\ body.type \in CheckTypes
  /\ Consistent(body)
  /\ LET slot == NewSlot(body.type)
         list == [i \in Listed \cup { id } |-> IF i = id THEN slot ELSE parameterMonitoringList[i]]
         pmon == [monitoredParameterId |-> parameterId, body |-> body,
                  repetitionNumber |-> repetitionNumber, repetitionCounter |-> 0,
                  monitoringEnabled |-> FALSE, checkingStatus |-> "Unchecked",
                  previous |-> NoPrevious]
     IN \/ /\ slot \in Slots
           /\ parameterMonitoringList' = list
           /\ checks' = [s \in Referenced(list) |-> IF s = slot THEN pmon ELSE checks[s]]
           /\ checked' = [s \in Referenced(list) |-> IF s = slot THEN {} ELSE checked[s]]
           /\ sizes' = [sizes EXCEPT ![body.type] = @ + 1]
           /\ UNCHANGED undefined
        \/ /\ slot \notin Slots
           /\ undefined' = TRUE
           /\ UNCHANGED listVars
  /\ UNCHANGED << environmentVars, settingVars >>

DeleteParameterMonitoringDefinitions(id) ==
  /\ ~undefined
  /\ id \in Listed
  /\ ~Definition(id).monitoringEnabled
  /\ Erase({ id })
  /\ UNCHANGED << environmentVars, settingVars, undefined >>

\* A slip for mutation: the status the old limits gave survives.
RestartedKeepingStatus(pmon, repetitionNumber) ==
  [pmon EXCEPT !.repetitionCounter = 0, !.repetitionNumber = repetitionNumber]

Restarted(pmon, repetitionNumber) ==
  [pmon EXCEPT !.repetitionCounter = 0, !.repetitionNumber = repetitionNumber,
               !.checkingStatus = "Unchecked"]

\* The definition restarts before the limits are looked at, and the object is cast
\* to the type the telecommand names, whatever type it has.
ModifyParameterMonitoringDefinitions(id, parameterId, repetitionNumber, body) ==
  /\ ~undefined
  /\ id \in Listed
  /\ Definition(id).monitoredParameterId = parameterId
  /\ LET pmon == Restarted(Definition(id), repetitionNumber)
     IN \/ /\ body.type \notin CheckTypes \/ ~Consistent(body)
           /\ Write(id, pmon)
           /\ UNCHANGED undefined
        \/ /\ body.type = pmon.body.type
           /\ Consistent(body)
           /\ Write(id, [pmon EXCEPT !.body = body])
           /\ UNCHANGED undefined
        \/ /\ body.type \in CheckTypes \ { pmon.body.type }
           /\ Consistent(body)
           /\ undefined' = TRUE
           /\ UNCHANGED listVars
  /\ UNCHANGED << environmentVars, settingVars >>

\* The flight software sets the member of the service.
SetParameterMonitoringFunctionStatus(status) ==
  /\ ~undefined
  /\ parameterMonitoringFunctionStatus' = status
  /\ UNCHANGED << environmentVars, listVars, maximumTransitionReportingDelay, undefined >>

ClearParameterMonitoringList ==
  /\ ~undefined
  /\ Erase(Listed)
  /\ UNCHANGED << environmentVars, settingVars, undefined >>

-----------------------------------------------------------------------------
(* The checks.                                                               *)

BitsOf(value) == { bit \in 0 .. value : (value \div 2^bit) % 2 = 1 }

\* Where value lies between low and high.
Compared(value, low, high, below, within, above) ==
  CASE value < low -> below
    [] value > high -> above
    [] OTHER -> within

\* The change per second is compared; it counts as none within one second.
DeltaOutcome(body, previous, value) ==
  LET seconds == now - previous.time
      delta == IF seconds = 0 THEN 0 ELSE value - previous.value
      scale == IF seconds = 0 THEN 1 ELSE seconds
  IN IF previous.known
     THEN Compared(delta, body.low * scale, body.high * scale,
                   "BelowLowThreshold", "WithinThreshold", "AboveHighThreshold")
     ELSE "Invalid"

\* The outcome of a check that looks at the value alone.
ValueOutcome(body, value) ==
  CASE body.type = "Limit" ->
         Compared(value, body.low, body.high, "BelowLowLimit", "WithinLimits", "AboveHighLimit")
    [] body.type = "ExpectedValue" ->
         IF BitsOf(value) \cap body.mask = BitsOf(body.expectedValue) THEN "ExpectedValue"
         ELSE "UnexpectedValue"

Outcome(pmon, value) ==
  IF pmon.body.type = "Delta" THEN DeltaOutcome(pmon.body, pmon.previous, value)
  ELSE ValueOutcome(pmon.body, value)

PerformCheck(pmon) ==
  LET value == values[pmon.monitoredParameterId]
      status == Outcome(pmon, value)
  IN [pmon EXCEPT
        !.checkingStatus = status,
        !.repetitionCounter =
          IF status = pmon.checkingStatus THEN (@ + 1) % CounterModulus ELSE 1 % CounterModulus,
        !.previous =
          IF pmon.body.type = "Delta" THEN [known |-> TRUE, value |-> value, time |-> now] ELSE @]

\* A slip for mutation: the loop ends at the first definition that is not enabled.
ToCheckUntilDisabled ==
  { id \in Listed : \A i \in Listed : i <= id => Definition(i).monitoringEnabled }

ToCheck == { id \in Listed : Definition(id).monitoringEnabled }

CheckAll ==
  /\ ~undefined
  /\ LET slots == { parameterMonitoringList[id] : id \in ToCheck }
     IN /\ checks' = [s \in DOMAIN checks |-> IF s \in slots THEN PerformCheck(checks[s]) ELSE checks[s]]
        /\ checked' = [s \in DOMAIN checked |->
                         IF s \in slots THEN { values[checks[s].monitoredParameterId] } ELSE checked[s]]
  /\ UNCHANGED << environmentVars, parameterMonitoringList, sizes, settingVars, undefined >>

-----------------------------------------------------------------------------
MonitoringTelecommand ==
  \/ \E id \in PMONIds :
       \/ EnableParameterMonitoringDefinitions(id)
       \/ DisableParameterMonitoringDefinitions(id)
       \/ DeleteParameterMonitoringDefinitions(id)
       \/ \E parameterId \in ParameterIds, number \in RepetitionNumbers, body \in Bodies :
            \/ AddParameterMonitoringDefinitions(id, parameterId, number, body)
            \/ ModifyParameterMonitoringDefinitions(id, parameterId, number, body)
  \/ DeleteAllParameterMonitoringDefinitions
  \/ \E delay \in Delays : ChangeMaximumTransitionReportingDelay(delay)

FlightSoftware ==
  \/ Tick
  \/ \E parameterId \in ParameterIds, value \in Values : SetParameter(parameterId, value)
  \/ \E status \in BOOLEAN : SetParameterMonitoringFunctionStatus(status)
  \/ ClearParameterMonitoringList

Next == MonitoringTelecommand \/ FlightSoftware \/ CheckAll

Spec == Init /\ [][Next]_vars

\* checkAll is called every ECSSMonitoringFrequency.
FairSpec == Spec /\ WF_vars(CheckAll)

-----------------------------------------------------------------------------
(* Properties.                                                              *)

TypeOK ==
  /\ now \in 0 .. MaxTime
  /\ values \in [Parameters -> Values]
  /\ Listed \subseteq PMONIds /\ Cardinality(Listed) <= MaxMonitoringDefinitions
  /\ parameterMonitoringList \in [Listed -> Slots]
  /\ checks \in [Referenced(parameterMonitoringList) -> PMON]
  /\ \A slot \in DOMAIN checks :
       /\ checks[slot].body.type = slot[1]
       /\ checks[slot].checkingStatus \in StatusesOf(slot[1]) \cup { "Unchecked" }
  /\ sizes \in [CheckTypes -> Nat] /\ \A type \in CheckTypes : sizes[type] <= MaximumNumberOfChecks[type]
  /\ parameterMonitoringFunctionStatus \in BOOLEAN
  /\ maximumTransitionReportingDelay \in Delays
  /\ undefined \in BOOLEAN
  /\ checked \in [DOMAIN checks -> SUBSET Values]

\* Two definitions never share a slot, however definitions are added and deleted:
\* the list holds references into the vectors, and a slot written for a new
\* definition while an old one refers to it would change what the old one checks.
SlotsDistinct == IsInjective(parameterMonitoringList)

\* A definition that is disabled says "Unchecked": added, disabled or modified, it
\* does not report the outcome of a check made before.
DisabledIsUnchecked ==
  \A id \in Listed :
    Definition(id).monitoringEnabled \/ Definition(id).checkingStatus = "Unchecked"

\* The status of a limit or expected value check is what its present limits say of
\* the value it was last checked with: no TC[12,7] leaves a status that was found
\* under other limits, also when its limits are refused.
StatusFitsLimits ==
  \A id \in Listed :
    LET pmon == Definition(id)
        found == { ValueOutcome(pmon.body, value) : value \in checked[parameterMonitoringList[id]] }
    IN pmon.body.type # "Delta" => pmon.checkingStatus \in found \cup { "Unchecked" }

LimitExceeded(id) ==
  /\ ~undefined
  /\ id \in Listed
  /\ LET pmon == Definition(id)
     IN /\ pmon.monitoringEnabled
        /\ pmon.body.type = "Limit"
        /\ values[pmon.monitoredParameterId] > pmon.body.high

\* Time and again every enabled limit check whose parameter is above the limit says so:
\* no definition goes unnoticed, whatever others ground adds, disables or deletes, and
\* however often parameters change and ground modifies limits.
AboveLimitNoticed ==
  []<>(\A id \in PMONIds : LimitExceeded(id) => Definition(id).checkingStatus = "AboveHighLimit")
=============================================================================
