------------------------- MODULE Housekeeping_proofs -------------------------
(***************************************************************************)
(* Proofs about Housekeeping, for every value of its constants.            *)
(***************************************************************************)
EXTENDS Housekeeping, FiniteSetTheorems, WellFoundedInduction, TLAPS

(***************************************************************************)
(* The inductive invariant. The delay the caller was told leads no further *)
(* than the next collection of any structure that was enabled then,        *)
(* counted from the time of that call, and the caller is no later than it  *)
(* may be.                                                                 *)
(***************************************************************************)
DelayFits ==
  \A id \in steady :
    Interval(id) # 0 => expectedDelay <= Interval(id) - ((now - slept) % Interval(id))

ClockFits ==
  /\ slept <= expectedDelay + MaxLateness
  /\ now = 0 => slept = 0

IInv == TypeOK /\ ClockFits /\ DelayFits

-----------------------------------------------------------------------------
(* Clocks and intervals.                                                   *)

\* A multiple added leaves the remainder as it is.
LEMMA MultipleAdded ==
  ASSUME NEW a \in Int, NEW b \in Nat \ {0}, NEW k \in Int
  PROVE  (a + k * b) % b = a % b
<1> DEFINE q == a \div b
           r == a % b
<1>1. q \in Int /\ r \in 0 .. b - 1 /\ a = q * b + r
  OBVIOUS
<1> HIDE DEF q, r
<1>2. a + k * b = (q + k) * b + r /\ a + k * b \in Int /\ q + k \in Int
  BY <1>1
<1> DEFINE c == a + k * b
           j == q + k
<1>3. c \in Int /\ j \in Int /\ c = j * b + r
  BY <1>2
<1> HIDE DEF c, j
<1>4. c % b = r
  BY <1>1, <1>3
<1>5. QED BY <1>4 DEF c, r

LEMMA MultipleTakenOff ==
  ASSUME NEW a \in Int, NEW b \in Nat \ {0}, NEW c \in Int, c % b = 0
  PROVE  (a - c) % b = a % b
<1> DEFINE k == c \div b
<1>1. k \in Int /\ c = k * b
  OBVIOUS
<1> HIDE DEF k
<1>2. a - c = a + (-k) * b /\ -k \in Int
  BY <1>1
<1>3. (a + (-k) * b) % b = a % b
  BY <1>2, MultipleAdded
<1>4. QED BY <1>2, <1>3

\* Where the first multiple after a number is.
LEMMA NextMultiple ==
  ASSUME NEW a \in Int, NEW b \in Nat \ {0}, NEW m \in Int, m > a, m % b = 0
  PROVE  m >= a + (b - (a % b))
<1> DEFINE k == a \div b
           r == a % b
           j == m \div b
<1>1. k \in Int /\ r \in 0 .. b - 1 /\ a = k * b + r
  OBVIOUS
<1>2. j \in Int /\ m = j * b
  OBVIOUS
<1> HIDE DEF k, r, j
<1>3. CASE j <= k
  <2>1. (k - j) * b >= 0
    BY <1>1, <1>2, <1>3
  <2>2. QED BY <2>1, <1>1, <1>2
<1>4. CASE j > k
  <2>1. (j - k - 1) * b >= 0
    BY <1>1, <1>2, <1>4
  <2>2. m >= k * b + b
    BY <2>1, <1>1, <1>2
  <2>3. QED BY <2>2, <1>1 DEF r
<1>5. QED BY <1>1, <1>2, <1>3, <1>4

-----------------------------------------------------------------------------
(* Minima.                                                                 *)

\* The least of a set of numbers.
LEMMA Least ==
  ASSUME NEW S \in SUBSET Nat, S # {}
  PROVE  Min(S) \in S /\ \A n \in S : Min(S) <= n
<1>1. \E n \in S : \A m \in S : ~ (<< m, n >> \in OpToRel(<, Nat))
  BY NatLessThanWellFounded, WFMin
<1>2. PICK n \in S : \A m \in S : ~ (<< m, n >> \in OpToRel(<, Nat))
  BY <1>1
<1>3. ASSUME NEW m \in S, ~ (n <= m)
      PROVE  FALSE
  <2>1. << m, n >> \in Nat \X Nat
    OBVIOUS
  <2>2. << m, n >>[1] < << m, n >>[2]
    BY <1>3
  <2>3. << m, n >> \in { pair \in Nat \X Nat : pair[1] < pair[2] }
    BY <2>1, <2>2
  <2>4. QED BY <1>2, <2>3 DEF OpToRel
<1>4. \E l \in S : \A m \in S : l <= m
  BY <1>3
<1>5. QED BY <1>4 DEF Min

-----------------------------------------------------------------------------
(* Telecommands.                                                           *)

LEMMA Structures ==
  ASSUME TypeOK, NEW id \in Existing
  PROVE  /\ housekeepingStructures[id] \in HousekeepingStructure
         /\ Interval(id) \in Nat
         /\ Enabled(id) \in BOOLEAN
         /\ Interval(id) # 0 => Horizon % Interval(id) = 0
<1>1. housekeepingStructures[id] \in HousekeepingStructure
  BY DEF TypeOK
<1>2. Interval(id) \in Intervals /\ Enabled(id) \in BOOLEAN
  BY <1>1 DEF HousekeepingStructure, Interval, Enabled
<1>3. QED BY <1>1, <1>2, ConstantsAssumption

LEMMA InitInvariant == Init => IInv
<1> SUFFICES ASSUME Init
             PROVE  IInv
  OBVIOUS
<1>1. /\ now = 0 /\ slept = 0 /\ expectedDelay = 0 /\ undefined = FALSE
      /\ housekeepingStructures = InitialStructures /\ collected = {} /\ steady = {}
  BY DEF Init
<1>2. TypeOK
  <2>1. now \in 0 .. Horizon /\ slept \in 0 .. MaxDelay + MaxLateness /\ expectedDelay \in 0 .. MaxDelay
    BY <1>1, ConstantsAssumption
  <2>2. /\ Existing \subseteq StructureIds
        /\ Cardinality(Existing) <= ECSSMaxHousekeepingStructures
        /\ housekeepingStructures \in [Existing -> HousekeepingStructure]
    BY <1>1, ConstantsAssumption DEF Existing
  <2>3. undefined \in BOOLEAN
    BY <1>1
  <2>4. collected \subseteq StructureIds /\ steady \subseteq EnabledStructures
    BY <1>1
  <2>5. QED BY <2>1, <2>2, <2>3, <2>4 DEF TypeOK
<1>3. ClockFits /\ DelayFits
  BY <1>1, ConstantsAssumption DEF ClockFits, DelayFits
<1>4. QED BY <1>2, <1>3 DEF IInv

\* A step that leaves the clock alone, and the structures that stay steady.
LEMMA FitsKept ==
  ASSUME IInv, UNCHANGED clockVars, steady' \subseteq steady,
         \A id \in steady' : housekeepingStructures'[id] = housekeepingStructures[id]
  PROVE  /\ ClockFits' /\ DelayFits'
         /\ now' \in 0 .. Horizon
         /\ slept' \in 0 .. MaxDelay + MaxLateness
         /\ expectedDelay' \in 0 .. MaxDelay
<1>1. now' = now /\ slept' = slept /\ expectedDelay' = expectedDelay
  BY DEF clockVars
<1>2. ClockFits'
  BY <1>1 DEF IInv, ClockFits
<1>3. \A id \in steady' : id \in steady /\ Interval(id)' = Interval(id)
  BY DEF Interval
<1>4. DelayFits'
  BY <1>1, <1>3 DEF IInv, DelayFits
<1>5. QED BY <1>1, <1>2, <1>4 DEF IInv, TypeOK

LEMMA CreateInvariant ==
  ASSUME IInv, NEW id \in StructureIds, NEW interval \in Intervals,
         NEW parameterIds \in SUBSET ParameterIds,
         CreateHousekeepingReportStructure(id, interval, parameterIds)
  PROVE  IInv'
<1>1. /\ id \notin Existing /\ HasRoom
      /\ UNCHANGED << clockVars, collected, steady >>
  BY DEF CreateHousekeepingReportStructure
<1>2. steady \subseteq Existing
  BY DEF IInv, TypeOK, EnabledStructures
<1> DEFINE structure == [collectionInterval |-> interval,
                         periodicGenerationActionStatus |-> FALSE,
                         simplyCommutatedParameterIds |-> parameterIds]
<1>3. CASE /\ Cardinality(parameterIds) <= ECSSMaxSimplyCommutatedParameters
           /\ housekeepingStructures' = [i \in Existing \cup { id } |->
                                           IF i = id THEN structure ELSE housekeepingStructures[i]]
           /\ UNCHANGED undefined
  <2>1. structure \in HousekeepingStructure
    BY <1>3 DEF HousekeepingStructure
  <2> HIDE DEF structure
  <2>2. /\ Existing' = Existing \cup { id }
        /\ housekeepingStructures'[id] = structure
        /\ \A i \in Existing : housekeepingStructures'[i] = housekeepingStructures[i]
    BY <1>1, <1>3 DEF Existing
  <2>3. housekeepingStructures' \in [Existing' -> HousekeepingStructure]
    BY <1>3, <2>1, <2>2, Structures DEF IInv
  <2>4. Existing' \subseteq StructureIds
    BY <2>2 DEF IInv, TypeOK
  <2>5. Cardinality(Existing') <= ECSSMaxHousekeepingStructures
    <3>1. IsFiniteSet(Existing)
      BY ConstantsAssumption, FS_Subset DEF IInv, TypeOK
    <3>2. Cardinality(Existing) \in Nat /\ Cardinality(Existing \cup { id }) = Cardinality(Existing) + 1
      BY <1>1, <3>1, FS_CardinalityType, FS_AddElement
    <3>3. QED BY <1>1, <2>2, <3>2, ConstantsAssumption DEF HasRoom
  <2>6. steady' \subseteq EnabledStructures'
    BY <1>1, <1>2, <2>2 DEF IInv, TypeOK, EnabledStructures, Enabled
  <2>7. ClockFits' /\ DelayFits' /\ now' \in 0 .. Horizon
        /\ slept' \in 0 .. MaxDelay + MaxLateness /\ expectedDelay' \in 0 .. MaxDelay
    BY <1>1, <1>2, <2>2, FitsKept
  <2>8. undefined' \in BOOLEAN /\ collected' \subseteq StructureIds
    BY <1>1, <1>3 DEF IInv, TypeOK
  <2>9. QED BY <2>3, <2>4, <2>5, <2>6, <2>7, <2>8 DEF IInv, TypeOK
<1>4. CASE undefined' = TRUE /\ UNCHANGED housekeepingStructures
  <2>1. Existing' = Existing /\ EnabledStructures' = EnabledStructures
    BY <1>4 DEF Existing, EnabledStructures, Enabled
  <2>2. ClockFits' /\ DelayFits'
    BY <1>1, <1>4, FitsKept
  <2>3. TypeOK'
    <3>1. undefined' \in BOOLEAN
      BY <1>4
    <3>2. QED BY <1>1, <1>4, <2>1, <3>1 DEF IInv, TypeOK, clockVars
  <2>4. QED BY <2>2, <2>3 DEF IInv
<1>5. QED BY <1>3, <1>4 DEF CreateHousekeepingReportStructure

LEMMA DeleteInvariant ==
  ASSUME IInv, NEW id \in StructureIds, DeleteHousekeepingReportStructure(id)
  PROVE  IInv'
<1>1. /\ id \in Existing /\ ~Enabled(id)
      /\ UNCHANGED << clockVars, undefined, collected, steady >>
      /\ housekeepingStructures' = [i \in Existing \ { id } |-> housekeepingStructures[i]]
  BY DEF DeleteHousekeepingReportStructure, MayDelete, Restrict
<1>2. steady \subseteq Existing \ { id }
  BY <1>1 DEF IInv, TypeOK, EnabledStructures
<1>3. /\ Existing' = Existing \ { id }
      /\ \A i \in Existing \ { id } : housekeepingStructures'[i] = housekeepingStructures[i]
  BY <1>1 DEF Existing
<1>4. /\ housekeepingStructures' \in [Existing' -> HousekeepingStructure]
      /\ Existing' \subseteq StructureIds
  BY <1>1, <1>3, Structures DEF IInv, TypeOK
<1>5. Cardinality(Existing') <= ECSSMaxHousekeepingStructures
  <2>1. IsFiniteSet(Existing)
    BY ConstantsAssumption, FS_Subset DEF IInv, TypeOK
  <2>2. Cardinality(Existing) \in Nat /\ Cardinality(Existing \ { id }) = Cardinality(Existing) - 1
    BY <1>1, <2>1, FS_CardinalityType, FS_RemoveElement
  <2>3. QED BY <1>3, <2>2, ConstantsAssumption DEF IInv, TypeOK
<1>6. steady' \subseteq EnabledStructures'
  BY <1>1, <1>2, <1>3 DEF IInv, TypeOK, EnabledStructures, Enabled
<1>7. ClockFits' /\ DelayFits' /\ now' \in 0 .. Horizon
      /\ slept' \in 0 .. MaxDelay + MaxLateness /\ expectedDelay' \in 0 .. MaxDelay
  BY <1>1, <1>2, <1>3, FitsKept
<1>8. undefined' \in BOOLEAN /\ collected' \subseteq StructureIds
  BY <1>1 DEF IInv, TypeOK
<1>9. QED BY <1>4, <1>5, <1>6, <1>7, <1>8 DEF IInv, TypeOK

\* A structure that exists is written, and is not steady any more.
LEMMA WriteInvariant ==
  ASSUME IInv, NEW id \in Existing, NEW structure \in HousekeepingStructure,
         Write(id, structure), UNCHANGED << clockVars, undefined, collected >>
  PROVE  IInv'
<1>1. /\ Existing' = Existing
      /\ housekeepingStructures'[id] = structure
      /\ \A i \in Existing \ { id } : housekeepingStructures'[i] = housekeepingStructures[i]
      /\ steady' = steady \ { id }
  BY DEF Write, Existing
<1>2. housekeepingStructures' \in [Existing' -> HousekeepingStructure]
  BY <1>1 DEF Write, IInv, TypeOK
<1>3. steady' \subseteq Existing \ { id }
  BY <1>1 DEF IInv, TypeOK, EnabledStructures
<1>4. steady' \subseteq EnabledStructures'
  BY <1>1, <1>3 DEF IInv, TypeOK, EnabledStructures, Enabled
<1>5. ClockFits' /\ DelayFits' /\ now' \in 0 .. Horizon
      /\ slept' \in 0 .. MaxDelay + MaxLateness /\ expectedDelay' \in 0 .. MaxDelay
  BY <1>1, <1>3, FitsKept
<1>6. undefined' \in BOOLEAN /\ collected' \subseteq StructureIds
  BY DEF IInv, TypeOK
<1>7. QED BY <1>1, <1>2, <1>4, <1>5, <1>6 DEF IInv, TypeOK
-----------------------------------------------------------------------------
(* The clock and the periodic reports.                                     *)

LEMMA TickInvariant ==
  ASSUME IInv, Tick
  PROVE  IInv'
<1>1. /\ slept < expectedDelay + MaxLateness
      /\ now' = IF now = Horizon THEN 1 ELSE now + 1
      /\ slept' = slept + 1
      /\ collected' = {}
      /\ UNCHANGED << expectedDelay, housekeepingStructures, undefined, steady >>
  BY DEF Tick
<1>2. /\ now \in 0 .. Horizon /\ slept \in Nat /\ expectedDelay \in 0 .. MaxDelay
      /\ Horizon \in Nat \ {0} /\ MaxDelay \in Nat /\ MaxLateness \in Nat
  BY ConstantsAssumption DEF IInv, TypeOK
<1>3. /\ now' \in 1 .. Horizon
      /\ slept' \in 0 .. MaxDelay + MaxLateness /\ slept' <= expectedDelay' + MaxLateness
  BY <1>1, <1>2
<1>4. ClockFits'
  BY <1>3 DEF ClockFits
<1>5. /\ Existing' = Existing /\ EnabledStructures' = EnabledStructures
      /\ \A id \in steady : Interval(id)' = Interval(id)
  BY <1>1 DEF Existing, EnabledStructures, Enabled, Interval
<1>6. TypeOK'
  BY <1>1, <1>2, <1>3, <1>5 DEF IInv, TypeOK
<1>7. ASSUME NEW id \in steady, Interval(id) # 0
      PROVE  (now' - slept') % Interval(id) = (now - slept) % Interval(id)
  <2>1. Interval(id) \in Nat \ {0} /\ Horizon % Interval(id) = 0
    BY <1>7, Structures DEF IInv, TypeOK, EnabledStructures
  <2>2. CASE now = Horizon
    <3>1. now' - slept' = (now - slept) - Horizon
      BY <1>1, <1>2, <2>2
    <3>2. now - slept \in Int /\ Horizon \in Int
      BY <1>2
    <3>3. QED BY <2>1, <3>1, <3>2, MultipleTakenOff
  <2>3. CASE now # Horizon
    BY <1>1, <1>2, <2>3
  <2>4. QED BY <2>2, <2>3
<1>8. DelayFits'
  BY <1>1, <1>5, <1>7 DEF IInv, DelayFits
<1>9. QED BY <1>4, <1>6, <1>8 DEF IInv

\* The delay told is the least of the times to the next collections.
LEMMA NextCollectionFits ==
  ASSUME TypeOK
  PROVE  /\ NextCollection \in 0 .. MaxDelay
         /\ \A id \in EnabledStructures : NextCollection <= TimeToCollection(Interval(id))
<1> DEFINE S == { MaxDelay } \cup { TimeToCollection(Interval(id)) : id \in EnabledStructures }
<1>1. MaxDelay \in Nat /\ now \in Int
  BY ConstantsAssumption DEF TypeOK
<1>2. ASSUME NEW id \in EnabledStructures
      PROVE  TimeToCollection(Interval(id)) \in Nat
  <2>1. Interval(id) \in Nat
    BY Structures DEF EnabledStructures
  <2>2. CASE Interval(id) = 0
    BY <2>2 DEF TimeToCollection
  <2>3. CASE Interval(id) # 0
    <3>1. now % Interval(id) \in 0 .. Interval(id) - 1
      BY <1>1, <2>1, <2>3
    <3>2. QED BY <2>1, <2>3, <3>1 DEF TimeToCollection
  <2>4. QED BY <2>2, <2>3
<1>3. S \in SUBSET Nat /\ S # {}
  BY <1>1, <1>2
<1>4. NextCollection \in S /\ \A n \in S : NextCollection <= n
  <2>1. NextCollection = Min(S)
    BY DEF NextCollection
  <2> HIDE DEF S
  <2>2. QED BY <1>3, <2>1, Least
<1>5. NextCollection \in Nat /\ NextCollection <= MaxDelay
  <2>1. MaxDelay \in S
    OBVIOUS
  <2> HIDE DEF S
  <2>2. QED BY <1>3, <1>4, <2>1
<1>6. ASSUME NEW id \in EnabledStructures
      PROVE  NextCollection <= TimeToCollection(Interval(id))
  <2>1. TimeToCollection(Interval(id)) \in S
    OBVIOUS
  <2> HIDE DEF S
  <2>2. QED BY <1>4, <2>1
<1>7. NextCollection \in 0 .. MaxDelay
  BY <1>1, <1>5
<1>8. QED BY <1>6, <1>7

LEMMA ReportInvariant ==
  ASSUME IInv, ReportPendingStructures
  PROVE  IInv'
<1>1. /\ collected' = { id \in EnabledStructures : Due(Interval(id)) }
      /\ expectedDelay' = NextCollection
      /\ slept' = 0
      /\ steady' = EnabledStructures
      /\ UNCHANGED << now, housekeepingStructures, undefined >>
  BY DEF ReportPendingStructures
<1>2. /\ NextCollection \in 0 .. MaxDelay
      /\ \A id \in EnabledStructures : NextCollection <= TimeToCollection(Interval(id))
  BY NextCollectionFits DEF IInv
<1>3. MaxDelay \in Nat /\ MaxLateness \in Nat
  BY ConstantsAssumption
<1>4. ClockFits' /\ slept' \in 0 .. MaxDelay + MaxLateness
  BY <1>1, <1>2, <1>3 DEF ClockFits
<1>5. Existing' = Existing /\ EnabledStructures' = EnabledStructures
  BY <1>1 DEF Existing, EnabledStructures, Enabled
<1>6. TypeOK'
  BY <1>1, <1>2, <1>4, <1>5 DEF IInv, TypeOK, EnabledStructures
<1>7. DelayFits'
  <2> SUFFICES ASSUME NEW id \in EnabledStructures, Interval(id) # 0
               PROVE  expectedDelay' <= Interval(id) - ((now' - slept') % Interval(id))
    BY <1>1 DEF DelayFits, Interval
  <2>1. expectedDelay' <= Interval(id) - (now % Interval(id))
    BY <1>1, <1>2 DEF TimeToCollection
  <2>2. now' - slept' = now
    BY <1>1 DEF IInv, TypeOK
  <2>3. QED BY <2>1, <2>2
<1>8. QED BY <1>4, <1>6, <1>7 DEF IInv

-----------------------------------------------------------------------------
LEMMA NextInvariant == IInv /\ [Next]_vars => IInv'
<1> SUFFICES ASSUME IInv, [Next]_vars
             PROVE  IInv'
  OBVIOUS
<1>1. ASSUME NEW id \in StructureIds, NEW interval \in Intervals,
             NEW parameterIds \in SUBSET ParameterIds,
             CreateHousekeepingReportStructure(id, interval, parameterIds)
      PROVE  IInv'
  BY <1>1, CreateInvariant
<1>2. ASSUME NEW id \in StructureIds, DeleteHousekeepingReportStructure(id)
      PROVE  IInv'
  BY <1>2, DeleteInvariant
<1>3. ASSUME NEW id \in StructureIds, NEW status \in BOOLEAN,
             SetPeriodicGenerationActionStatus(id, status)
      PROVE  IInv'
  <2> DEFINE structure == [housekeepingStructures[id] EXCEPT !.periodicGenerationActionStatus = status]
  <2>1. /\ id \in Existing /\ Write(id, structure)
        /\ UNCHANGED << clockVars, undefined, collected >>
    BY <1>3 DEF SetPeriodicGenerationActionStatus
  <2>2. structure \in HousekeepingStructure
    BY <2>1, Structures DEF IInv, HousekeepingStructure
  <2> HIDE DEF structure
  <2>3. QED BY <2>1, <2>2, WriteInvariant
<1>4. ASSUME NEW id \in StructureIds, NEW parameterId \in ParameterIds,
             AppendParameterToHousekeepingStructure(id, parameterId)
      PROVE  IInv'
  <2> DEFINE ids == housekeepingStructures[id].simplyCommutatedParameterIds
             structure == [housekeepingStructures[id] EXCEPT
                             !.simplyCommutatedParameterIds = ids \cup { parameterId }]
  <2>1. /\ id \in Existing /\ Cardinality(ids) < ECSSMaxSimplyCommutatedParameters
        /\ parameterId \notin ids /\ Write(id, structure)
        /\ UNCHANGED << clockVars, undefined, collected >>
    BY <1>4 DEF AppendParameterToHousekeepingStructure
  <2>2. ids \in SUBSET ParameterIds /\ IsFiniteSet(ids)
    <3>1. ids \in SUBSET ParameterIds
      BY <2>1, Structures DEF IInv, HousekeepingStructure
    <3>2. QED BY <3>1, ConstantsAssumption, FS_Subset
  <2>3. Cardinality(ids \cup { parameterId }) <= ECSSMaxSimplyCommutatedParameters
    <3>1. Cardinality(ids) \in Nat /\ Cardinality(ids \cup { parameterId }) = Cardinality(ids) + 1
      BY <2>1, <2>2, FS_CardinalityType, FS_AddElement
    <3> HIDE DEF ids
    <3>2. QED BY <2>1, <3>1, ConstantsAssumption
  <2>4. structure \in HousekeepingStructure
    BY <2>1, <2>2, <2>3, Structures DEF IInv, HousekeepingStructure
  <2> HIDE DEF structure
  <2>5. QED BY <2>1, <2>4, WriteInvariant
<1>5. ASSUME NEW id \in StructureIds, NEW interval \in Intervals,
             ModifyCollectionInterval(id, interval)
      PROVE  IInv'
  <2> DEFINE structure == [housekeepingStructures[id] EXCEPT !.collectionInterval = interval]
  <2>1. /\ id \in Existing /\ Write(id, structure)
        /\ UNCHANGED << clockVars, undefined, collected >>
    BY <1>5 DEF ModifyCollectionInterval
  <2>2. structure \in HousekeepingStructure
    BY <2>1, Structures DEF IInv, HousekeepingStructure
  <2> HIDE DEF structure
  <2>3. QED BY <2>1, <2>2, WriteInvariant
<1>6. CASE ReportPendingStructures
  BY <1>6, ReportInvariant
<1>7. CASE Tick
  BY <1>7, TickInvariant
<1>8. CASE UNCHANGED vars
  <2>1. UNCHANGED << now, slept, expectedDelay, housekeepingStructures, undefined, collected, steady >>
    BY <1>8 DEF vars, clockVars
  <2>2. QED BY <2>1 DEF IInv, TypeOK, ClockFits, DelayFits, Existing, EnabledStructures, Enabled, Interval
<1>9. QED BY <1>1, <1>2, <1>3, <1>4, <1>5, <1>6, <1>7, <1>8 DEF Next, Telecommand

\* The clock, the structures and the delay fit together, however late the caller may be.
THEOREM Invariance == Spec => []IInv
BY InitInvariant, NextInvariant, PTL DEF Spec

-----------------------------------------------------------------------------
(* The properties.                                                         *)

\* TypeOK: the map never outgrows ECSSMaxHousekeepingStructures, nor the vector of a
\* structure ECSSMaxSimplyCommutatedParameters (createHousekeepingReportStructure,
\* appendParametersToHousekeepingStructure).
THEOREM TypeCorrect == Spec => []TypeOK
<1>1. IInv => TypeOK
  BY DEF IInv
<1>2. QED BY <1>1, Invariance, PTL

\* FrozenWhileEnabled: no step deletes an enabled structure or changes its parameters
\* (deleteHousekeepingReportStructure, appendParametersToHousekeepingStructure).
THEOREM EnabledIsFrozen == Spec => FrozenWhileEnabled
<1>1. IInv /\ [Next]_vars =>
        [\A id \in EnabledStructures :
           /\ id \in Existing'
           /\ housekeepingStructures'[id].simplyCommutatedParameterIds
                = housekeepingStructures[id].simplyCommutatedParameterIds]_vars
  <2> DEFINE Frozen(id) ==
        /\ id \in Existing'
        /\ housekeepingStructures'[id].simplyCommutatedParameterIds
             = housekeepingStructures[id].simplyCommutatedParameterIds
  <2> SUFFICES ASSUME IInv, Next, NEW id \in EnabledStructures
               PROVE  Frozen(id)
    OBVIOUS
  <2>1. id \in Existing /\ Enabled(id)
    BY DEF EnabledStructures
  <2>2. housekeepingStructures[id] \in HousekeepingStructure
    BY <2>1, Structures DEF IInv
  <2>3. CASE UNCHANGED housekeepingStructures
    BY <2>1, <2>3 DEF Existing
  <2>4. ASSUME NEW other \in StructureIds, NEW interval \in Intervals,
               NEW parameterIds \in SUBSET ParameterIds,
               CreateHousekeepingReportStructure(other, interval, parameterIds)
        PROVE  Frozen(id)
    BY <2>1, <2>3, <2>4 DEF CreateHousekeepingReportStructure, Existing
  <2>5. ASSUME NEW other \in StructureIds, DeleteHousekeepingReportStructure(other)
        PROVE  Frozen(id)
    BY <2>1, <2>5 DEF DeleteHousekeepingReportStructure, MayDelete, Restrict, Existing
  <2>6. ASSUME NEW other \in StructureIds, NEW status \in BOOLEAN,
               SetPeriodicGenerationActionStatus(other, status)
        PROVE  Frozen(id)
    BY <2>1, <2>2, <2>6 DEF SetPeriodicGenerationActionStatus, Write, Existing, HousekeepingStructure
  <2>7. ASSUME NEW other \in StructureIds, NEW parameterId \in ParameterIds,
               AppendParameterToHousekeepingStructure(other, parameterId)
        PROVE  Frozen(id)
    BY <2>1, <2>7 DEF AppendParameterToHousekeepingStructure, Write, Existing
  <2>8. ASSUME NEW other \in StructureIds, NEW interval \in Intervals,
               ModifyCollectionInterval(other, interval)
        PROVE  Frozen(id)
    BY <2>1, <2>2, <2>8 DEF ModifyCollectionInterval, Write, Existing, HousekeepingStructure
  <2>9. CASE ReportPendingStructures \/ Tick
    BY <2>3, <2>9 DEF ReportPendingStructures, Tick
  <2> HIDE DEF Frozen
  <2>10. QED BY <2>4, <2>5, <2>6, <2>7, <2>8, <2>9 DEF Next, Telecommand
<1>2. QED BY <1>1, Invariance, PTL DEF Spec, FrozenWhileEnabled

\* CollectionKept: a caller that is at most a second late misses no collection of a
\* structure that was enabled all along, and reports none whose time did not come, for any
\* intervals (reportPendingStructures).
THEOREM CollectionIsKept ==
  ASSUME MaxLateness <= 1
  PROVE  Spec => CollectionKept
<1>1. ASSUME IInv, ReportPendingStructures
      PROVE  /\ \A id \in steady : Interval(id) # 0 /\ Passed(Interval(id)) => id \in collected'
             /\ expectedDelay # 0 =>
                  \A id \in collected' : Interval(id) = 0 \/ Passed(Interval(id))
  <2>1. /\ slept >= expectedDelay
        /\ collected' = { id \in EnabledStructures : Due(Interval(id)) }
    BY <1>1 DEF ReportPendingStructures
  <2>2. /\ now \in Nat /\ slept \in Nat /\ expectedDelay \in Nat
        /\ slept <= expectedDelay + 1 /\ (now = 0 => slept = 0)
    BY <1>1, ConstantsAssumption DEF IInv, TypeOK, ClockFits
  <2>3. ASSUME NEW id \in steady, Interval(id) # 0, Passed(Interval(id))
        PROVE  id \in collected'
    <3> DEFINE start == now - slept
               interval == Interval(id)
    <3>1. id \in EnabledStructures /\ interval \in Nat \ {0}
      BY <1>1, <2>3, Structures DEF IInv, TypeOK, EnabledStructures
    <3>2. PICK time \in start + 1 .. now : time % interval = 0
      BY <2>3 DEF Passed
    <3>3. expectedDelay <= interval - (start % interval)
      BY <1>1, <2>3 DEF IInv, DelayFits
    <3>4. start \in Int /\ time \in Int /\ time > start
      BY <2>2, <3>2
    <3>5. start % interval \in 0 .. interval - 1
      BY <3>1, <3>4
    <3>6. time >= start + (interval - (start % interval))
      BY <3>1, <3>2, <3>4, NextMultiple
    <3>7. time = start + expectedDelay \/ time = now
      <4> HIDE DEF interval
      <4>1. time >= start + expectedDelay
        BY <2>2, <3>1, <3>3, <3>4, <3>5, <3>6
      <4>2. time <= now /\ now <= start + expectedDelay + 1
        BY <2>2, <3>2
      <4>3. QED BY <2>2, <3>4, <4>1, <4>2
    <3>8. now # 0
      BY <2>2, <3>2
    <3>9. Due(interval)
      BY <3>2, <3>7, <3>8 DEF Due
    <3>10. QED BY <2>1, <3>1, <3>9
  <2>4. ASSUME expectedDelay # 0, NEW id \in collected', Interval(id) # 0
        PROVE  Passed(Interval(id))
    <3>1. Due(Interval(id))
      BY <2>1
    <3>2. /\ now \in now - slept + 1 .. now
          /\ now - slept + expectedDelay \in now - slept + 1 .. now
      BY <2>1, <2>2, <2>4
    <3>3. QED BY <2>4, <3>1, <3>2 DEF Due, Passed
  <2>5. QED BY <2>3, <2>4
<1>2. QED BY <1>1, Invariance, PTL DEF Spec, CollectionKept
=============================================================================
