----------------------- MODULE OnBoardMonitoring_proofs -----------------------
(***************************************************************************)
(* Proofs about OnBoardMonitoring, for every value of its constants.        *)
(***************************************************************************)
EXTENDS OnBoardMonitoring, FiniteSetTheorems, TLAPS

(* What holds of the contents of one slot, and the value it was checked with. *)
Fits(pmon, seen) ==
  pmon.body.type # "Delta" =>
    pmon.checkingStatus \in { ValueOutcome(pmon.body, value) : value \in seen } \cup { "Unchecked" }

SlotOK(slot, pmon, seen) ==
  /\ pmon \in PMON
  /\ pmon.body.type = slot[1]
  /\ pmon.checkingStatus \in StatusesOf(slot[1]) \cup { "Unchecked" }
  /\ pmon.monitoringEnabled \/ pmon.checkingStatus = "Unchecked"
  /\ seen \in SUBSET Values
  /\ Fits(pmon, seen)

(* The inductive invariant: the environment and the settings, the list with   *)
(* slots that have been allocated and are its own, and the slots.             *)
OthersTyped ==
  /\ now \in 0 .. MaxTime
  /\ values \in [Parameters -> Values]
  /\ sizes \in [CheckTypes -> Nat]
  /\ \A type \in CheckTypes : sizes[type] <= MaximumNumberOfChecks[type]
  /\ parameterMonitoringFunctionStatus \in BOOLEAN
  /\ maximumTransitionReportingDelay \in Delays
  /\ undefined \in BOOLEAN

Allocated(slot) == slot[2] <= sizes[slot[1]]

ListTyped ==
  /\ Listed \subseteq PMONIds
  /\ IsFiniteSet(Listed) /\ Cardinality(Listed) <= MaxMonitoringDefinitions
  /\ parameterMonitoringList \in [Listed -> Slots]

SlotsOK ==
  /\ checks = [slot \in Referenced(parameterMonitoringList) |-> checks[slot]]
  /\ checked = [slot \in Referenced(parameterMonitoringList) |-> checked[slot]]
  /\ \A slot \in Referenced(parameterMonitoringList) :
       /\ SlotOK(slot, checks[slot], checked[slot])
       /\ Allocated(slot)

IInv == OthersTyped /\ ListTyped /\ SlotsDistinct /\ SlotsOK

-----------------------------------------------------------------------------
(* A slot is a place in the vector of a type of check.                       *)
LEMMA SlotType ==
  ASSUME NEW slot \in Slots
  PROVE  slot[1] \in CheckTypes /\ slot[2] \in Nat
<1>1. PICK type \in CheckTypes : slot \in { type } \X (1 .. MaximumNumberOfChecks[type])
  BY DEF Slots
<1>2. PICK n \in 1 .. MaximumNumberOfChecks[type] : slot = << type, n >>
  BY <1>1
<1>3. MaximumNumberOfChecks[type] \in Nat
  BY ConstantsAssumption
<1>4. n \in Nat
  BY <1>3
<1>5. slot[1] = type /\ slot[2] = n
  BY <1>2
<1> QED
  BY <1>4, <1>5

(* The list refers to slots.                                                 *)
LEMMA SlotOfList ==
  ASSUME ListTyped, NEW id \in Listed
  PROVE  /\ parameterMonitoringList[id] \in Slots
         /\ parameterMonitoringList[id] \in Referenced(parameterMonitoringList)
BY DEF ListTyped, Referenced, Range, Listed

(* The initial states.                                                       *)
LEMMA InitInvariant == Init => IInv
<1> SUFFICES ASSUME Init PROVE IInv
  OBVIOUS
<1>1. Listed = {} /\ Referenced(parameterMonitoringList) = {}
  BY DEF Init, Listed, Referenced, Range
<1>2. OthersTyped
  <2>1. MaxTime \in Nat /\ 0 \in Delays /\ \A type \in CheckTypes : MaximumNumberOfChecks[type] \in Nat
    BY ConstantsAssumption
  <2>2. now \in 0 .. MaxTime
    BY <2>1 DEF Init
  <2>3. \A type \in CheckTypes : sizes[type] = 0
    BY DEF Init
  <2>4. /\ sizes \in [CheckTypes -> Nat]
        /\ \A type \in CheckTypes : sizes[type] <= MaximumNumberOfChecks[type]
    BY <2>1, <2>3 DEF Init
  <2> QED
    BY <2>1, <2>2, <2>4 DEF Init, OthersTyped
<1>3. ListTyped
  <2>1. IsFiniteSet({}) /\ Cardinality({}) = 0
    BY FS_EmptySet
  <2>2. parameterMonitoringList \in [Listed -> Slots]
    BY <1>1 DEF Init, Listed
  <2> QED
    BY <1>1, <2>1, <2>2, ConstantsAssumption DEF ListTyped
<1>4. SlotsDistinct
  BY <1>1 DEF SlotsDistinct, IsInjective, Listed
<1>5. SlotsOK
  BY <1>1 DEF Init, SlotsOK
<1> QED
  BY <1>2, <1>3, <1>4, <1>5 DEF IInv

-----------------------------------------------------------------------------
(* Steps that leave the definitions alone.                                   *)
LEMMA ListVarsUnchanged ==
  ASSUME IInv, OthersTyped', UNCHANGED listVars
  PROVE  IInv'
<1>1. ListTyped'
  BY DEF IInv, ListTyped, listVars, Listed
<1>2. SlotsDistinct'
  BY DEF IInv, SlotsDistinct, listVars, Listed
<1>3. SlotsOK'
  BY DEF IInv, SlotsOK, listVars, Allocated
<1> QED
  BY <1>1, <1>2, <1>3 DEF IInv

(* A step that writes the definition of one identifier.                      *)
LEMMA WriteInvariant ==
  ASSUME IInv, OthersTyped', NEW id \in Listed, NEW pmon, Write(id, pmon),
         SlotOK(parameterMonitoringList[id], pmon, checked[parameterMonitoringList[id]])
  PROVE  IInv'
<1> DEFINE slot == parameterMonitoringList[id]
<1>1. /\ checks' = [checks EXCEPT ![slot] = pmon]
      /\ parameterMonitoringList' = parameterMonitoringList
      /\ sizes' = sizes /\ checked' = checked
  BY DEF Write
<1>2. ListTyped' /\ SlotsDistinct'
  BY <1>1 DEF IInv, ListTyped, SlotsDistinct, Listed
<1>3. slot \in Referenced(parameterMonitoringList)
  BY SlotOfList DEF IInv
<1>4. DOMAIN checks = Referenced(parameterMonitoringList)
  BY DEF IInv, SlotsOK
<1>5. checks' = [s \in Referenced(parameterMonitoringList) |-> checks'[s]]
  BY <1>1, <1>4
<1>6. ASSUME NEW s \in Referenced(parameterMonitoringList)
      PROVE  SlotOK(s, checks'[s], checked[s]) /\ Allocated(s)
  <2>1. Allocated(s) /\ SlotOK(s, checks[s], checked[s])
    BY DEF IInv, SlotsOK
  <2>2. CASE s = slot
    BY <1>1, <1>4, <2>1, <2>2
  <2>3. CASE s # slot
    BY <1>1, <1>4, <2>1, <2>3
  <2> QED
    BY <2>2, <2>3
<1>7. checked = [s \in Referenced(parameterMonitoringList) |-> checked[s]]
  BY DEF IInv, SlotsOK
<1>8. SlotsOK'
  BY <1>1, <1>5, <1>6, <1>7 DEF SlotsOK, Allocated
<1> QED
  BY <1>2, <1>8 DEF IInv

(* A step that takes identifiers off the list.                               *)
LEMMA EraseInvariant ==
  ASSUME IInv, OthersTyped', NEW ids, Erase(ids)
  PROVE  IInv'
<1> DEFINE list == Restrict(parameterMonitoringList, Listed \ ids)
<1>1. /\ parameterMonitoringList' = [id \in Listed \ ids |-> parameterMonitoringList[id]]
      /\ sizes' = sizes
  BY DEF Erase, Restrict
<1>2. Listed' = Listed \ ids
  BY <1>1 DEF Listed
<1>3. ListTyped'
  <2>1. IsFiniteSet(Listed \ ids) /\ Cardinality(Listed \ ids) <= Cardinality(Listed)
    BY FS_Subset DEF IInv, ListTyped
  <2>2. Cardinality(Listed \ ids) \in Nat /\ Cardinality(Listed) \in Nat
    BY <2>1, FS_CardinalityType DEF IInv, ListTyped
  <2>3. Cardinality(Listed \ ids) <= MaxMonitoringDefinitions
    BY <2>1, <2>2, ConstantsAssumption DEF IInv, ListTyped
  <2>4. parameterMonitoringList' \in [Listed' -> Slots]
    BY <1>1, <1>2 DEF IInv, ListTyped
  <2> QED
    BY <1>2, <2>1, <2>3, <2>4 DEF IInv, ListTyped
<1>4. SlotsDistinct'
  BY <1>1 DEF IInv, SlotsDistinct, IsInjective, Listed
<1>5. Referenced(parameterMonitoringList)' \subseteq Referenced(parameterMonitoringList)
  BY <1>1 DEF Referenced, Range, Listed
<1>6. /\ checks' = [s \in Referenced(parameterMonitoringList)' |-> checks[s]]
      /\ checked' = [s \in Referenced(parameterMonitoringList)' |-> checked[s]]
  BY DEF Erase, Restrict, Referenced
<1>7. SlotsOK'
  BY <1>1, <1>5, <1>6 DEF IInv, SlotsOK, Allocated
<1> QED
  BY <1>3, <1>4, <1>7 DEF IInv

-----------------------------------------------------------------------------
(* The actions.                                                              *)
(* TC[12,1].                                                                 *)
LEMMA EnableInvariant ==
  ASSUME IInv, NEW id, EnableParameterMonitoringDefinitions(id)
  PROVE  IInv'
<1> DEFINE slot == parameterMonitoringList[id]
           pmon == [Definition(id) EXCEPT !.repetitionNumber = 0, !.monitoringEnabled = TRUE]
<1>1. SlotOK(slot, Definition(id), checked[slot])
  BY SlotOfList DEF EnableParameterMonitoringDefinitions, IInv, SlotsOK, Definition
<1>2. SlotOK(slot, pmon, checked[slot])
  BY <1>1 DEF SlotOK, Fits, PMON
<1>3. OthersTyped'
  BY DEF EnableParameterMonitoringDefinitions, Write, environmentVars, settingVars, IInv, OthersTyped
<1> QED
  BY <1>2, <1>3, WriteInvariant DEF EnableParameterMonitoringDefinitions

(* TC[12,2].                                                                 *)
LEMMA DisableInvariant ==
  ASSUME IInv, NEW id, DisableParameterMonitoringDefinitions(id)
  PROVE  IInv'
<1> DEFINE slot == parameterMonitoringList[id]
           pmon == Disabled(Definition(id))
<1>1. SlotOK(slot, Definition(id), checked[slot])
  BY SlotOfList DEF DisableParameterMonitoringDefinitions, IInv, SlotsOK, Definition
<1>2. SlotOK(slot, pmon, checked[slot])
  BY <1>1 DEF SlotOK, Fits, PMON, Disabled, CheckingStatuses
<1>3. OthersTyped'
  BY DEF DisableParameterMonitoringDefinitions, Write, environmentVars, settingVars, IInv, OthersTyped
<1> QED
  BY <1>2, <1>3, WriteInvariant DEF DisableParameterMonitoringDefinitions

(* TC[12,7], also when it is refused after the definition restarted.         *)
LEMMA ModifyInvariant ==
  ASSUME IInv, NEW id, NEW parameterId, NEW number \in RepetitionNumbers, NEW body \in Bodies,
         ModifyParameterMonitoringDefinitions(id, parameterId, number, body)
  PROVE  IInv'
<1> DEFINE slot == parameterMonitoringList[id]
           pmon == Restarted(Definition(id), number)
<1>1. SlotOK(slot, Definition(id), checked[slot])
  BY SlotOfList DEF ModifyParameterMonitoringDefinitions, IInv, SlotsOK, Definition
<1>2. SlotOK(slot, pmon, checked[slot]) /\ pmon \in PMON /\ pmon.checkingStatus = "Unchecked"
  <2>1. number \in Nat /\ 0 \in 0 .. CounterModulus - 1 /\ "Unchecked" \in CheckingStatuses
    BY ConstantsAssumption DEF CheckingStatuses
  <2>2. Definition(id) \in PMON
    BY <1>1 DEF SlotOK
  <2>3. pmon = [Definition(id) EXCEPT !.repetitionCounter = 0, !.repetitionNumber = number,
                                      !.checkingStatus = "Unchecked"]
    BY DEF Restarted
  <2>4. pmon \in PMON
    BY <2>1, <2>2, <2>3 DEF PMON
  <2>5. pmon.checkingStatus = "Unchecked" /\ pmon.body = Definition(id).body
    BY <2>2, <2>3 DEF PMON
  <2> QED
    BY <1>1, <2>4, <2>5 DEF SlotOK, Fits
<1>3. CASE Write(id, pmon) /\ UNCHANGED undefined
  <2>1. OthersTyped'
    BY <1>3 DEF ModifyParameterMonitoringDefinitions, Write, environmentVars, settingVars, IInv, OthersTyped
  <2> QED
    BY <1>2, <1>3, <2>1, WriteInvariant DEF ModifyParameterMonitoringDefinitions
<1>4. CASE body.type = pmon.body.type /\ Write(id, [pmon EXCEPT !.body = body]) /\ UNCHANGED undefined
  <2>1. OthersTyped'
    BY <1>4 DEF ModifyParameterMonitoringDefinitions, Write, environmentVars, settingVars, IInv, OthersTyped
  <2>2. SlotOK(slot, [pmon EXCEPT !.body = body], checked[slot])
    BY <1>2, <1>4 DEF SlotOK, Fits, PMON
  <2> QED
    BY <2>1, <2>2, <1>4, WriteInvariant DEF ModifyParameterMonitoringDefinitions
<1>5. CASE undefined' = TRUE /\ UNCHANGED listVars
  <2>1. OthersTyped'
    BY <1>5 DEF ModifyParameterMonitoringDefinitions, listVars, environmentVars, settingVars, IInv, OthersTyped
  <2> QED
    BY <1>5, <2>1, ListVarsUnchanged
<1> QED
  BY <1>3, <1>4, <1>5 DEF ModifyParameterMonitoringDefinitions

(* TC[12,5]: the slot of the new definition is after every slot allocated before.*)
LEMMA AddInvariant ==
  ASSUME IInv, NEW id \in PMONIds, NEW parameterId, NEW number \in RepetitionNumbers, NEW body \in Bodies,
         AddParameterMonitoringDefinitions(id, parameterId, number, body)
  PROVE  IInv'
<1> DEFINE slot == NewSlot(body.type)
           list == [i \in Listed \cup { id } |-> IF i = id THEN slot ELSE parameterMonitoringList[i]]
           pmon == [monitoredParameterId |-> parameterId, body |-> body,
                    repetitionNumber |-> number, repetitionCounter |-> 0,
                    monitoringEnabled |-> FALSE, checkingStatus |-> "Unchecked",
                    previous |-> NoPrevious]
<1>1. CASE undefined' = TRUE /\ UNCHANGED listVars
  <2>1. OthersTyped'
    BY <1>1 DEF AddParameterMonitoringDefinitions, listVars, environmentVars, settingVars, IInv, OthersTyped
  <2> QED
    BY <1>1, <2>1, ListVarsUnchanged
<1>2. CASE /\ slot \in Slots
           /\ parameterMonitoringList' = list
           /\ checks' = [s \in Referenced(list) |-> IF s = slot THEN pmon ELSE checks[s]]
           /\ checked' = [s \in Referenced(list) |-> IF s = slot THEN {} ELSE checked[s]]
           /\ sizes' = [sizes EXCEPT ![body.type] = @ + 1]
           /\ UNCHANGED undefined
  <2>1. /\ parameterId \in Parameters /\ id \notin Listed /\ ~ListIsFull
        /\ body.type \in CheckTypes
        /\ UNCHANGED << environmentVars, settingVars >>
    BY DEF AddParameterMonitoringDefinitions
  <2>2. /\ slot = << body.type, sizes[body.type] + 1 >>
        /\ sizes[body.type] + 1 <= MaximumNumberOfChecks[body.type]
    <3>1. PICK type \in CheckTypes : slot \in { type } \X (1 .. MaximumNumberOfChecks[type])
      BY <1>2 DEF Slots
    <3>2. slot = << body.type, sizes[body.type] + 1 >>
      BY DEF NewSlot
    <3>3. sizes[body.type] + 1 \in 1 .. MaximumNumberOfChecks[type] /\ type = body.type
      BY <3>1, <3>2
    <3> QED
      BY <3>2, <3>3, <2>1, ConstantsAssumption
  <2>3. OthersTyped'
    BY <1>2, <2>1, <2>2, ConstantsAssumption DEF IInv, OthersTyped, environmentVars, settingVars
  <2>4. Listed' = Listed \cup { id }
    BY <1>2 DEF Listed
  <2>5. ListTyped'
    <3>1. /\ IsFiniteSet(Listed \cup { id })
          /\ Cardinality(Listed \cup { id }) = Cardinality(Listed) + 1
      BY <2>1, FS_AddElement DEF IInv, ListTyped
    <3>2. Cardinality(Listed) \in Nat
      BY FS_CardinalityType DEF IInv, ListTyped
    <3>3. Cardinality(Listed) + 1 <= MaxMonitoringDefinitions
      BY <2>1, <3>2, ConstantsAssumption DEF IInv, ListTyped, ListIsFull
    <3>4. parameterMonitoringList' \in [Listed' -> Slots]
      BY <1>2, <2>4 DEF IInv, ListTyped
    <3> QED
      BY <2>4, <3>1, <3>3, <3>4 DEF IInv, ListTyped
  <2>6. \A s \in Referenced(parameterMonitoringList) : s # slot
    <3> SUFFICES ASSUME NEW s \in Referenced(parameterMonitoringList), s = slot
                 PROVE  FALSE
      OBVIOUS
    <3>1. s[1] = body.type /\ s[2] = sizes[body.type] + 1
      BY <2>2
    <3>2. s[2] <= sizes[s[1]]
      BY DEF IInv, SlotsOK, Allocated
    <3> QED
      BY <2>1, <3>1, <3>2 DEF IInv, OthersTyped
  <2>7. SlotsDistinct'
    <3>1. \A i \in Listed : parameterMonitoringList[i] # slot
      BY <2>6, SlotOfList DEF IInv
    <3> QED
      BY <1>2, <2>4, <3>1 DEF IInv, SlotsDistinct, IsInjective, Listed
  <2>8. Referenced(list) = Referenced(parameterMonitoringList) \cup { slot }
    BY <2>1 DEF Referenced, Range, Listed
  <2>9. SlotOK(slot, pmon, {})
    BY <2>1, <2>2, ConstantsAssumption DEF SlotOK, Fits, PMON, CheckingStatuses, Previous
  <2>10. ASSUME NEW s \in Referenced(list)
         PROVE  SlotOK(s, checks'[s], checked'[s]) /\ s[2] <= sizes'[s[1]]
    <3>1. CASE s = slot
      BY <1>2, <2>1, <2>2, <2>9, <3>1 DEF IInv, OthersTyped
    <3>2. CASE s # slot
      <4>1. s \in Referenced(parameterMonitoringList)
        BY <2>8, <3>2
      <4>2. SlotOK(s, checks[s], checked[s]) /\ s[2] <= sizes[s[1]]
        BY <4>1 DEF IInv, SlotsOK, Allocated
      <4>3. s[2] \in Nat /\ s[1] \in CheckTypes
        BY <4>1, SlotType DEF IInv, ListTyped, Referenced, Range, Listed
      <4>4. sizes'[s[1]] >= sizes[s[1]] /\ sizes[s[1]] \in Nat /\ sizes'[s[1]] \in Nat
        BY <1>2, <2>1, <4>3 DEF IInv, OthersTyped
      <4>5. s[2] <= sizes'[s[1]]
        BY <4>2, <4>3, <4>4
      <4> QED
        BY <1>2, <3>2, <4>2, <4>5
    <3> QED
      BY <3>1, <3>2
  <2>11. SlotsOK'
    BY <1>2, <2>10 DEF SlotsOK, Allocated, Referenced
  <2> QED
    BY <2>3, <2>5, <2>7, <2>11 DEF IInv
<1> QED
  BY <1>1, <1>2 DEF AddParameterMonitoringDefinitions

(* The steps that take definitions off the list.                             *)
LEMMA DeleteInvariant ==
  ASSUME IInv,
         \/ DeleteAllParameterMonitoringDefinitions
         \/ ClearParameterMonitoringList
         \/ \E id \in PMONIds : DeleteParameterMonitoringDefinitions(id)
  PROVE  IInv'
<1>1. PICK ids : Erase(ids) /\ UNCHANGED << environmentVars, settingVars, undefined >>
  BY DEF DeleteAllParameterMonitoringDefinitions, ClearParameterMonitoringList,
         DeleteParameterMonitoringDefinitions
<1>2. OthersTyped'
  BY <1>1 DEF Erase, environmentVars, settingVars, IInv, OthersTyped
<1> QED
  BY <1>1, <1>2, EraseInvariant

(* The steps of the flight software and the settings.                        *)
LEMMA SettingInvariant ==
  ASSUME IInv,
         \/ Tick
         \/ \E parameterId \in ParameterIds, value \in Values : SetParameter(parameterId, value)
         \/ \E status \in BOOLEAN : SetParameterMonitoringFunctionStatus(status)
         \/ \E delay \in Delays : ChangeMaximumTransitionReportingDelay(delay)
  PROVE  IInv'
<1>1. UNCHANGED listVars
  BY DEF Tick, SetParameter, SetParameterMonitoringFunctionStatus, ChangeMaximumTransitionReportingDelay
<1>2. OthersTyped'
  <2>1. CASE Tick
    BY <2>1, ConstantsAssumption DEF Tick, listVars, settingVars, IInv, OthersTyped
  <2>2. CASE \E parameterId \in ParameterIds, value \in Values : SetParameter(parameterId, value)
    BY <2>2 DEF SetParameter, listVars, settingVars, IInv, OthersTyped
  <2>3. CASE \E status \in BOOLEAN : SetParameterMonitoringFunctionStatus(status)
    BY <2>3 DEF SetParameterMonitoringFunctionStatus, environmentVars, listVars, IInv, OthersTyped
  <2>4. CASE \E delay \in Delays : ChangeMaximumTransitionReportingDelay(delay)
    BY <2>4 DEF ChangeMaximumTransitionReportingDelay, environmentVars, listVars, IInv, OthersTyped
  <2> QED
    BY <2>1, <2>2, <2>3, <2>4
<1> QED
  BY <1>1, <1>2, ListVarsUnchanged

-----------------------------------------------------------------------------
(* The outcome of a check is a status of its type.                           *)
LEMMA OutcomeType ==
  ASSUME NEW pmon, pmon.body.type \in CheckTypes, NEW value
  PROVE  Outcome(pmon, value) \in StatusesOf(pmon.body.type)
<1>1. CASE pmon.body.type = "Delta"
  <2>1. Outcome(pmon, value) \in { "Invalid", "BelowLowThreshold", "WithinThreshold", "AboveHighThreshold" }
    BY <1>1 DEF Outcome, DeltaOutcome, Compared
  <2> QED
    BY <1>1, <2>1 DEF StatusesOf
<1>2. CASE pmon.body.type = "Limit"
  <2>1. Outcome(pmon, value) \in { "BelowLowLimit", "WithinLimits", "AboveHighLimit" }
    BY <1>2 DEF Outcome, ValueOutcome, Compared
  <2> QED
    BY <1>2, <2>1 DEF StatusesOf
<1>3. CASE pmon.body.type = "ExpectedValue"
  <2>1. Outcome(pmon, value) \in { "ExpectedValue", "UnexpectedValue" }
    BY <1>3 DEF Outcome, ValueOutcome
  <2> QED
    BY <1>3, <2>1 DEF StatusesOf
<1> QED
  BY <1>1, <1>2, <1>3 DEF CheckTypes

(* A check of an enabled definition leaves a slot whose status is what its    *)
(* limits say of the value it was checked with.                               *)
LEMMA PerformCheckOK ==
  ASSUME OthersTyped, NEW slot \in Slots, NEW pmon, NEW seen,
         SlotOK(slot, pmon, seen), pmon.monitoringEnabled
  PROVE  SlotOK(slot, PerformCheck(pmon), { values[pmon.monitoredParameterId] })
<1> DEFINE value == values[pmon.monitoredParameterId]
           status == Outcome(pmon, value)
           counter == IF status = pmon.checkingStatus THEN (pmon.repetitionCounter + 1) % CounterModulus
                      ELSE 1 % CounterModulus
           previous == IF pmon.body.type = "Delta" THEN [known |-> TRUE, value |-> value, time |-> now]
                       ELSE pmon.previous
           result == PerformCheck(pmon)
<1>1. pmon \in PMON /\ pmon.body.type = slot[1] /\ slot[1] \in CheckTypes
  BY SlotType DEF SlotOK
<1>2. result = [pmon EXCEPT !.checkingStatus = status, !.repetitionCounter = counter, !.previous = previous]
  BY <1>1 DEF PerformCheck, PMON
<1>3. status \in StatusesOf(slot[1])
  BY <1>1, OutcomeType
<1>4. status \in CheckingStatuses
  BY <1>1, <1>3 DEF CheckingStatuses
<1>5. value \in Values
  BY <1>1 DEF OthersTyped, PMON
<1>6. counter \in 0 .. CounterModulus - 1
  <2>1. CounterModulus \in Nat /\ CounterModulus > 0 /\ pmon.repetitionCounter \in Int
    BY <1>1, ConstantsAssumption DEF PMON
  <2> QED
    BY <2>1
<1>7. previous \in Previous
  BY <1>1, <1>5 DEF Previous, OthersTyped, PMON
<1>8. result \in PMON
  <2> HIDE DEF status, counter, previous, value, result
  <2> QED
    BY <1>1, <1>2, <1>4, <1>6, <1>7 DEF PMON
<1>9. /\ result.body = pmon.body /\ result.checkingStatus = status
      /\ result.monitoringEnabled = pmon.monitoringEnabled
  <2> HIDE DEF status, counter, previous, value, result
  <2> QED
    BY <1>1, <1>2 DEF PMON
<1>10. Fits(result, { value })
  BY <1>9 DEF Fits, Outcome
<1> QED
  BY <1>1, <1>3, <1>5, <1>8, <1>9, <1>10 DEF SlotOK

(* The periodic monitoring.                                                  *)
LEMMA CheckAllInvariant ==
  ASSUME IInv, CheckAll
  PROVE  IInv'
<1> DEFINE slots == { parameterMonitoringList[id] : id \in ToCheck }
<1>1. /\ checks' = [s \in DOMAIN checks |-> IF s \in slots THEN PerformCheck(checks[s]) ELSE checks[s]]
      /\ checked' = [s \in DOMAIN checked |->
                       IF s \in slots THEN { values[checks[s].monitoredParameterId] } ELSE checked[s]]
      /\ UNCHANGED << environmentVars, parameterMonitoringList, sizes, settingVars, undefined >>
  BY DEF CheckAll
<1>2. OthersTyped'
  BY <1>1 DEF environmentVars, settingVars, IInv, OthersTyped
<1>3. ListTyped' /\ SlotsDistinct'
  BY <1>1 DEF IInv, ListTyped, SlotsDistinct, Listed
<1>4. /\ DOMAIN checks = Referenced(parameterMonitoringList)
      /\ DOMAIN checked = Referenced(parameterMonitoringList)
  BY DEF IInv, SlotsOK
<1>5. ASSUME NEW s \in Referenced(parameterMonitoringList)
      PROVE  SlotOK(s, checks'[s], checked'[s]) /\ Allocated(s)
  <2>1. SlotOK(s, checks[s], checked[s]) /\ Allocated(s)
    BY DEF IInv, SlotsOK
  <2>2. s \in Slots
    BY DEF IInv, ListTyped, Referenced, Range, Listed
  <2>3. CASE s \in slots
    <3>1. checks[s].monitoringEnabled
      BY <2>3 DEF ToCheck, Definition
    <3>2. SlotOK(s, PerformCheck(checks[s]), { values[checks[s].monitoredParameterId] })
      BY <2>1, <2>2, <3>1, PerformCheckOK DEF IInv
    <3> QED
      BY <1>1, <1>4, <2>1, <2>3, <3>2
  <2>4. CASE s \notin slots
    BY <1>1, <1>4, <2>1, <2>4
  <2> QED
    BY <2>3, <2>4
<1>6. SlotsOK'
  <2>1. Referenced(parameterMonitoringList)' = Referenced(parameterMonitoringList)
    BY <1>1
  <2>2. /\ checks' = [s \in Referenced(parameterMonitoringList) |-> checks'[s]]
        /\ checked' = [s \in Referenced(parameterMonitoringList) |-> checked'[s]]
    BY <1>1, <1>4
  <2> QED
    BY <1>1, <1>5, <2>1, <2>2 DEF SlotsOK, Allocated
<1> QED
  BY <1>2, <1>3, <1>6 DEF IInv

-----------------------------------------------------------------------------
(* Every step keeps the invariant.                                           *)
LEMMA NextInvariant == IInv /\ [Next]_vars => IInv'
<1> SUFFICES ASSUME IInv, [Next]_vars PROVE IInv'
  OBVIOUS
<1>1. ASSUME NEW id \in PMONIds,
             \/ EnableParameterMonitoringDefinitions(id)
             \/ DisableParameterMonitoringDefinitions(id)
             \/ \E parameterId \in ParameterIds, number \in RepetitionNumbers, body \in Bodies :
                  \/ AddParameterMonitoringDefinitions(id, parameterId, number, body)
                  \/ ModifyParameterMonitoringDefinitions(id, parameterId, number, body)
      PROVE  IInv'
  BY <1>1, EnableInvariant, DisableInvariant, AddInvariant, ModifyInvariant
<1>2. CASE CheckAll
  BY <1>2, CheckAllInvariant
<1>3. CASE UNCHANGED vars
  <2>1. OthersTyped'
    BY <1>3 DEF vars, environmentVars, listVars, settingVars, IInv, OthersTyped
  <2> QED
    BY <1>3, <2>1, ListVarsUnchanged DEF vars
<1> QED
  BY <1>1, <1>2, <1>3, DeleteInvariant, SettingInvariant
     DEF Next, MonitoringTelecommand, FlightSoftware

(* The inductive invariant holds in every reachable state.                   *)
THEOREM Invariance == Spec => []IInv
  BY InitInvariant, NextInvariant, PTL DEF Spec

(* Types: the list never exceeds ECSSMaxMonitoringDefinitions, refers to slots *)
(* within the vectors only, and each slot holds a definition of its vector's   *)
(* type with a status of that type.                                            *)
THEOREM TypesHold == Spec => []TypeOK
<1>1. IInv => TypeOK
  <2> SUFFICES ASSUME IInv PROVE TypeOK
    OBVIOUS
  <2>1. DOMAIN checks = Referenced(parameterMonitoringList)
    BY DEF IInv, SlotsOK
  <2>2. checks \in [Referenced(parameterMonitoringList) -> PMON]
    BY DEF IInv, SlotsOK, SlotOK
  <2>3. checked \in [DOMAIN checks -> SUBSET Values]
    BY <2>1 DEF IInv, SlotsOK, SlotOK
  <2>4. \A slot \in DOMAIN checks :
          /\ checks[slot].body.type = slot[1]
          /\ checks[slot].checkingStatus \in StatusesOf(slot[1]) \cup { "Unchecked" }
    BY <2>1 DEF IInv, SlotsOK, SlotOK
  <2> QED
    BY <2>2, <2>3, <2>4 DEF IInv, OthersTyped, ListTyped, TypeOK
<1> QED
  BY <1>1, Invariance, PTL

(* Two definitions never share a slot of the vectors, however definitions are  *)
(* added and deleted: addLimitCheck and its like append, and nothing is removed *)
(* from the vectors while the list refers to them.                             *)
THEOREM SlotsStayDistinct == Spec => []SlotsDistinct
<1>1. IInv => SlotsDistinct
  BY DEF IInv
<1> QED
  BY <1>1, Invariance, PTL

(* A definition that is disabled reports no outcome of a check made before.    *)
THEOREM DisabledStaysUnchecked == Spec => []DisabledIsUnchecked
<1>1. IInv => DisabledIsUnchecked
  BY SlotOfList DEF IInv, SlotsOK, SlotOK, DisabledIsUnchecked, Definition
<1> QED
  BY <1>1, Invariance, PTL

(* The status of a limit or expected value check is what its present limits    *)
(* say of the value it was last checked with: modifyParameterMonitoring-       *)
(* Definitions takes the status back before it changes the limits.             *)
THEOREM StatusAlwaysFitsLimits == Spec => []StatusFitsLimits
<1>1. IInv => StatusFitsLimits
  BY SlotOfList DEF IInv, SlotsOK, SlotOK, Fits, StatusFitsLimits, Definition
<1> QED
  BY <1>1, Invariance, PTL
=============================================================================
