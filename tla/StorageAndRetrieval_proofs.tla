---------------------- MODULE StorageAndRetrieval_proofs ----------------------
(***************************************************************************)
(* Proofs about StorageAndRetrieval, for every value of its constants.      *)
(***************************************************************************)
EXTENDS StorageAndRetrieval, FiniteSetTheorems, SequenceTheorems,
        WellFoundedInduction, TLAPS

(* A set of naturals that is not empty has a least element, so LeastOf names it: *)
(* among the intervals 0 .. n, n in S, one is minimal for strict inclusion.      *)
LEMMA LeastOfProperty ==
  ASSUME NEW S \in SUBSET Nat, S # {}
  PROVE  LeastOf(S) \in S /\ \A m \in S : LeastOf(S) <= m
<1> DEFINE Intervals == { 0 .. n : n \in S }
<1>1. Intervals \subseteq FiniteSubsetsOf(Nat) /\ Intervals # {}
  <2>1. \A n \in S : IsFiniteSet(0 .. n) /\ 0 .. n \subseteq Nat
    BY FS_Interval, SMT
  <2> QED
    BY <2>1, Zenon DEF FiniteSubsetsOf
<1>2. PICK I \in Intervals : \A J \in Intervals : ~(<<J, I>> \in StrictSubsetOrdering(Nat))
  BY <1>1, FS_StrictSubsetOrderingWellFounded, WFMin
<1>3. PICK n \in S : I = 0 .. n
  OBVIOUS
<1>4. ASSUME NEW m \in S, m < n
      PROVE  FALSE
  <2>1. 0 .. m \in SUBSET Nat /\ 0 .. n \in SUBSET Nat /\ 0 .. m \subseteq 0 .. n
    BY <1>4
  <2>2. 0 .. m # 0 .. n
    BY <1>4
  <2>3. <<0 .. m, 0 .. n>> \in StrictSubsetOrdering(Nat)
    BY <2>1, <2>2 DEF StrictSubsetOrdering
  <2> QED
    BY <1>2, <1>3, <2>3
<1>5. \A m \in S : n <= m
  BY <1>4
<1> QED
  BY <1>5 DEF LeastOf

-----------------------------------------------------------------------------
(* What every turn of a handler does to one packet store, old before and new  *)
(* after it: a retrieval starts only from idle, and nothing it works from     *)
(* changes while it runs.                                                     *)
ByTimeRange(store) == store.byTimeRangeRetrievalStatus
Open(store) == store.openRetrievalStatus = "InProgress"

\* A queue that fits, and is in order while packets are handed over in order.
NoLater(packets) == \A i \in DOMAIN packets : packets[i] <= latest
WellKept(packets) ==
  /\ Len(packets) <= MaxPackets
  /\ chronological => IsOrdered(packets) /\ NoLater(packets)

StoreStep(old, new) ==
  /\ new \in PacketStore
  /\ \/ new.storedTelemetryPackets = old.storedTelemetryPackets
     \/ /\ Retrieved(old) => old.storedTelemetryPackets = << >>
        /\ WellKept(new.storedTelemetryPackets)
  /\ ByTimeRange(new) /\ ~ByTimeRange(old) => ~Open(old) /\ ~Open(new)
  /\ Open(new) /\ ~Open(old) => ~ByTimeRange(old) /\ ~ByTimeRange(new)
  /\ Retrieved(old) /\ Retrieved(new) => Configuration(old) = Configuration(new)
  /\ ByTimeRange(old) /\ ByTimeRange(new) => Window(old) = Window(new)
  /\ Open(old) /\ Open(new) => old.openRetrievalStartTimeTag = new.openRetrievalStartTimeTag

\* A turn that leaves a store alone is such a step.
LEMMA StoreStepStutters ==
  ASSUME NEW s \in PacketStore
  PROVE  StoreStep(s, s)
BY DEF StoreStep

\* Enabling and disabling the storage function are such steps.
LEMMA StorageSteps ==
  ASSUME NEW s \in PacketStore
  PROVE  StoreStep(s, StorageEnabled(s)) /\ StoreStep(s, StorageDisabled(s))
BY DEF StoreStep, PacketStore, StorageEnabled, StorageDisabled, Retrieved, Configuration,
       Window, ByTimeRange, Open

\* So is every retrieval handler on a store it does not refuse.
LEMMA RetrievalSteps ==
  ASSUME NEW s \in PacketStore, NEW start \in Nat, NEW end \in Nat
  PROVE  /\ StartByTimeRangeRetrievalError(s, start, end) = NoError =>
              StoreStep(s, [s EXCEPT !.byTimeRangeRetrievalStatus = TRUE,
                                     !.retrievalStartTime = start,
                                     !.retrievalEndTime = end])
         /\ StoreStep(s, ByTimeRangeAborted(s))
         /\ ChangeTimeTagError(s) = NoError =>
              StoreStep(s, [s EXCEPT !.openRetrievalStartTimeTag = start])
         /\ ResumeError(s) = NoError => StoreStep(s, Resumed(s))
         /\ StoreStep(s, Suspended(s))
<1> USE DEF StoreStep, PacketStore, Retrieved, Configuration, Window, ByTimeRange, Open, NoError
<1>1. StartByTimeRangeRetrievalError(s, start, end) = NoError =>
        StoreStep(s, [s EXCEPT !.byTimeRangeRetrievalStatus = TRUE,
                               !.retrievalStartTime = start,
                               !.retrievalEndTime = end])
  BY DEF StartByTimeRangeRetrievalError
<1>2. StoreStep(s, ByTimeRangeAborted(s))
  BY DEF ByTimeRangeAborted
<1>3. ChangeTimeTagError(s) = NoError =>
        StoreStep(s, [s EXCEPT !.openRetrievalStartTimeTag = start])
  BY DEF ChangeTimeTagError
<1>4. ResumeError(s) = NoError => StoreStep(s, Resumed(s))
  BY DEF ResumeError, Resumed
<1>5. StoreStep(s, Suspended(s))
  BY DEF Suspended
<1> QED
  BY <1>1, <1>2, <1>3, <1>4, <1>5

\* What is left of a queue when its first k packets are popped.
LEMMA SuffixType ==
  ASSUME NEW packets \in Seq(Nat), NEW k \in 0 .. Len(packets)
  PROVE  /\ SubSeq(packets, k + 1, Len(packets)) \in Seq(Nat)
         /\ Len(SubSeq(packets, k + 1, Len(packets))) = Len(packets) - k
         /\ \A i \in 1 .. Len(packets) - k :
              SubSeq(packets, k + 1, Len(packets))[i] = packets[k + i]
<1>1. \A i \in k + 1 .. Len(packets) : packets[i] \in Nat
  OBVIOUS
<1>2. k + 1 \in Int /\ Len(packets) \in Int
  OBVIOUS
<1> DEFINE rest == SubSeq(packets, k + 1, Len(packets))
<1>3. /\ rest \in Seq(Nat)
      /\ Len(rest) = IF k + 1 <= Len(packets) THEN Len(packets) - (k + 1) + 1 ELSE 0
      /\ \A i \in 1 .. Len(packets) - (k + 1) + 1 : rest[i] = packets[(k + 1) + i - 1]
  BY <1>1, <1>2, SubSeqProperties
<1> HIDE DEF rest
<1>4. Len(rest) = Len(packets) - k /\ \A i \in 1 .. Len(packets) - k : rest[i] = packets[k + i]
  BY <1>2, <1>3
<1> QED
  BY <1>3, <1>4 DEF rest

\* deleteContentUntil pops a number of packets from the front, and nothing else.
LEMMA DeletedIsSuffix ==
  ASSUME NEW s \in PacketStore, NEW limit \in Nat
  PROVE  \E k \in 0 .. Len(s.storedTelemetryPackets) :
           ContentUntilDeleted(s, limit) =
             [s EXCEPT !.storedTelemetryPackets =
                SubSeq(s.storedTelemetryPackets, k + 1, Len(s.storedTelemetryPackets))]
<1> DEFINE packets == s.storedTelemetryPackets
           stops == { n \in 0 .. Len(packets) : n < Len(packets) => packets[n + 1] > limit }
<1>1. packets \in Seq(Nat) /\ Len(packets) \in Nat
  BY DEF PacketStore
<1>2. stops \in SUBSET Nat /\ Len(packets) \in stops
  BY <1>1
<1>3. LeastOf(stops) \in 0 .. Len(packets)
  BY <1>2, LeastOfProperty
<1> QED
  BY <1>3 DEF ContentUntilDeleted

\* New packets in a store that has none, or is not retrieved, are such a step.
LEMMA PacketsStep ==
  ASSUME NEW s \in PacketStore, NEW packets \in Seq(Nat), WellKept(packets),
         Retrieved(s) => s.storedTelemetryPackets = << >>
  PROVE  StoreStep(s, [s EXCEPT !.storedTelemetryPackets = packets])
BY DEF StoreStep, PacketStore, Retrieved, Configuration, Window, ByTimeRange, Open

\* TC[15,11] is such a step: what it leaves is still in order of time.
LEMMA DeleteContentStep ==
  ASSUME NEW s \in PacketStore, NEW limit \in Nat, WellKept(s.storedTelemetryPackets),
         DeleteContentError(s) = NoError
  PROVE  StoreStep(s, ContentUntilDeleted(s, limit))
<1> DEFINE packets == s.storedTelemetryPackets
<1>1. packets \in Seq(Nat)
  BY DEF PacketStore
<1>2. ~Retrieved(s)
  BY DEF DeleteContentError, Retrieved, NoError
<1>3. PICK k \in 0 .. Len(packets) :
        ContentUntilDeleted(s, limit) =
          [s EXCEPT !.storedTelemetryPackets = SubSeq(packets, k + 1, Len(packets))]
  BY DeletedIsSuffix
<1> DEFINE rest == SubSeq(packets, k + 1, Len(packets))
<1>4. /\ rest \in Seq(Nat)
      /\ Len(rest) = Len(packets) - k
      /\ \A i \in 1 .. Len(packets) - k : rest[i] = packets[k + i]
  BY <1>1, SuffixType
<1> HIDE DEF rest, packets
<1>5. WellKept(rest)
  <2>1. WellKept(packets)
    BY DEF packets
  <2>2. \A i \in 1 .. Len(packets) - k : k + i \in 1 .. Len(packets)
    BY <1>1
  <2>3. DOMAIN rest = 1 .. Len(packets) - k /\ DOMAIN packets = 1 .. Len(packets)
    BY <1>1, <1>4
  <2>4. ASSUME chronological PROVE NoLater(rest)
    BY <1>4, <2>1, <2>2, <2>3, <2>4 DEF WellKept, NoLater
  <2>5. ASSUME chronological PROVE IsOrdered(rest)
    <3> SUFFICES ASSUME NEW i \in DOMAIN rest, NEW j \in DOMAIN rest, i < j
                 PROVE  rest[i] <= rest[j]
      BY DEF IsOrdered
    <3>1. k + i \in DOMAIN packets /\ k + j \in DOMAIN packets
      BY <2>2, <2>3
    <3>2. k + i < k + j
      BY <1>1, <2>3
    <3>3. packets[k + i] <= packets[k + j]
      BY <2>1, <2>5, <3>1, <3>2 DEF WellKept, IsOrdered
    <3>4. i \in 1 .. Len(packets) - k /\ j \in 1 .. Len(packets) - k
      BY <2>3
    <3>5. rest[i] = packets[k + i] /\ rest[j] = packets[k + j]
      BY <1>4, <3>4, Zenon
    <3> QED
      BY <3>3, <3>5, Zenon
  <2>6. Len(rest) <= MaxPackets
    <3>1. Len(packets) <= MaxPackets
      BY <2>1 DEF WellKept
    <3> QED
      BY <1>1, <1>4, <3>1, ConstantsAssumption
  <2> QED
    BY <2>4, <2>5, <2>6 DEF WellKept
<1> QED
  BY <1>2, <1>3, <1>4, <1>5, PacketsStep DEF rest, packets

(* The copies are packets of the source, in the order of the source.          *)
LEMMA CopiesOfProperties ==
  ASSUME NEW packets \in Seq(Nat), NEW chosen \in SUBSET DOMAIN packets,
         NEW copies \in CopiesOf(packets, chosen)
  PROVE  /\ copies \in Seq(Nat)
         /\ Len(copies) <= Len(packets)
         /\ \A k \in DOMAIN copies : \E i \in DOMAIN packets : copies[k] = packets[i]
         /\ IsOrdered(packets) => IsOrdered(copies)
<1>1. Len(packets) \in Nat /\ DOMAIN packets = 1 .. Len(packets)
  OBVIOUS
<1>2. IsFiniteSet(1 .. Len(packets))
  BY <1>1, FS_Interval
<1>3. Cardinality(chosen) \in Nat
  BY <1>1, <1>2, FS_Subset, FS_CardinalityType
<1> DEFINE places == 1 .. Cardinality(chosen)
<1>4. PICK f \in [places -> chosen] :
        /\ \A k, l \in places : k < l => f[k] < f[l]
        /\ copies = [k \in places |-> packets[f[k]]]
  BY Zenon DEF CopiesOf
<1>5. \A k \in places : f[k] \in DOMAIN packets
  OBVIOUS
<1>6. DOMAIN copies = places /\ \A k \in places : copies[k] = packets[f[k]]
  BY <1>4
<1>7. copies \in Seq(Nat)
  <2>1. copies \in [1 .. Cardinality(chosen) -> Nat]
    BY <1>1, <1>4, <1>5
  <2> QED
    BY <1>3, <2>1
<1>8. IsOrdered(packets) => IsOrdered(copies)
  <2> SUFFICES ASSUME IsOrdered(packets), NEW k \in places, NEW l \in places, k < l
               PROVE  copies[k] <= copies[l]
    BY <1>6 DEF IsOrdered
  <2>1. f[k] < f[l] /\ f[k] \in DOMAIN packets /\ f[l] \in DOMAIN packets
    BY <1>4, <1>5
  <2> QED
    BY <1>6, <2>1 DEF IsOrdered
<1>9. Len(copies) <= Len(packets)
  <2>0. \A n \in Nat : Cardinality(1 .. n) = n
    BY FS_Interval
  <2>1. Cardinality(1 .. Len(packets)) = Len(packets)
    BY <1>1, <2>0
  <2>2. Cardinality(chosen) <= Len(packets)
    BY <1>1, <1>2, <2>1, FS_Subset
  <2>3. Len(copies) = Cardinality(chosen)
    BY <1>3, <1>6, <1>7, LenProperties
  <2> QED
    BY <2>2, <2>3
<1> QED
  BY <1>5, <1>6, <1>7, <1>8, <1>9

(* The copies are all of the chosen packets: an increasing choice of as many    *)
(* places as there are chosen ones misses none of them.                         *)
LEMMA CopiesAreSelection ==
  ASSUME NEW packets \in Seq(Nat), NEW chosen \in SUBSET DOMAIN packets,
         NEW copies \in CopiesOf(packets, chosen)
  PROVE  IsSelection(copies, packets, chosen)
<1> DEFINE places == 1 .. Cardinality(chosen)
<1>1. IsFiniteSet(chosen) /\ Cardinality(chosen) \in Nat
  <2>1. Len(packets) \in Nat /\ DOMAIN packets = 1 .. Len(packets)
    OBVIOUS
  <2>2. IsFiniteSet(1 .. Len(packets))
    BY <2>1, FS_Interval
  <2> QED
    BY <2>1, <2>2, FS_Subset, FS_CardinalityType
<1>2. PICK f \in [places -> chosen] :
        /\ \A k, l \in places : k < l => f[k] < f[l]
        /\ copies = [k \in places |-> packets[f[k]]]
  BY Zenon DEF CopiesOf
<1>3. copies \in Seq(Nat)
  BY CopiesOfProperties
<1>4. DOMAIN copies = places
  BY <1>2
<1>5. Len(copies) = Cardinality(chosen)
  BY <1>1, <1>3, <1>4, LenProperties
<1>6. f \in Injection(places, chosen)
  <2>1. \A k \in places : f[k] \in chosen /\ f[k] \in Int
    <3>1. chosen \subseteq 1 .. Len(packets) /\ Len(packets) \in Nat
      OBVIOUS
    <3> QED
      BY <3>1
  <2>2. \A k, l \in places : k < l \/ k = l \/ l < k
    BY <1>1
  <2>3. \A k, l \in places : k < l => f[k] # f[l]
    BY <1>2, <2>1
  <2>4. \A k, l \in places : f[k] = f[l] => k = l
    BY <2>2, <2>3, Zenon
  <2> QED
    BY <2>4, Zenon DEF Injection, IsInjective
<1>7. IsFiniteSet(places) /\ Cardinality(places) = Cardinality(chosen)
  BY <1>1, FS_Interval
<1>8. f \in Bijection(places, chosen)
  BY <1>1, <1>6, <1>7, FS_Injection DEF Bijection
<1> QED
  BY <1>2, <1>4, <1>5, <1>8 DEF IsSelection

\* Resizing, and changing the type or the virtual channel, are such steps.
LEMMA ConfigurationSteps ==
  ASSUME NEW s \in PacketStore, NEW size \in Nat, NEW channel \in Nat
  PROVE  /\ ResizeError(s, size) = NoError => StoreStep(s, [s EXCEPT !.sizeInBytes = size])
         /\ ChangeTypeError(s) = NoError => StoreStep(s, [s EXCEPT !.packetStoreType = "Circular"])
         /\ ChangeTypeError(s) = NoError => StoreStep(s, [s EXCEPT !.packetStoreType = "Bounded"])
         /\ ChangeVirtualChannelError(s, channel) = NoError =>
              StoreStep(s, [s EXCEPT !.virtualChannel = channel])
<1> USE DEF StoreStep, PacketStore, Retrieved, Configuration, Window, ByTimeRange, Open, NoError
<1>1. ResizeError(s, size) = NoError => StoreStep(s, [s EXCEPT !.sizeInBytes = size])
  BY DEF ResizeError
<1>2. ChangeTypeError(s) = NoError => StoreStep(s, [s EXCEPT !.packetStoreType = "Circular"])
  BY DEF ChangeTypeError
<1>3. ChangeTypeError(s) = NoError => StoreStep(s, [s EXCEPT !.packetStoreType = "Bounded"])
  BY DEF ChangeTypeError
<1>4. ChangeVirtualChannelError(s, channel) = NoError =>
        StoreStep(s, [s EXCEPT !.virtualChannel = channel])
  BY DEF ChangeVirtualChannelError
<1> QED
  BY <1>1, <1>2, <1>3, <1>4


-----------------------------------------------------------------------------
(* What each telecommand does to the stores that exist before and after it.   *)
StoresTyped ==
  /\ DOMAIN packetStores \subseteq Ids
  /\ packetStores = [id \in DOMAIN packetStores |-> packetStores[id]]
  /\ \A id \in DOMAIN packetStores :
       /\ packetStores[id] \in PacketStore
       /\ WellKept(packetStores[id].storedTelemetryPackets)

SameStores ==
  /\ HandsOverNothing
  /\ refused' \in BOOLEAN
  /\ DOMAIN packetStores' = DOMAIN packetStores
  /\ packetStores' = [id \in DOMAIN packetStores |-> packetStores'[id]]
  /\ \A id \in DOMAIN packetStores : StoreStep(packetStores[id], packetStores'[id])

(* A turn of a handler leaves every store alone, or takes one from s to new.   *)
OneStore(id, new) ==
  /\ HandsOverNothing
  /\ refused' \in BOOLEAN
  /\ \/ packetStores' = packetStores
     \/ /\ id \in DOMAIN packetStores
        /\ packetStores' = [packetStores EXCEPT ![id] = new]
        /\ StoreStep(packetStores[id], new)

\* A turn of a loop over named stores is a step of every store.
LEMMA OneStoreStep ==
  ASSUME StoresTyped, NEW id, NEW new, OneStore(id, new)
  PROVE  SameStores
BY StoreStepStutters DEF StoresTyped, SameStores, OneStore

\* TC[15,1] and TC[15,2], for some stores or for all.
LEMMA StorageTelecommandStep ==
  ASSUME StoresTyped, StorageTelecommand
  PROVE  SameStores
<1> USE StoreStepStutters, StorageSteps DEF StoresTyped, SameStores
<1>1. ASSUME NEW id \in Ids, EnableStorageFunction(id) PROVE SameStores
  BY <1>1 DEF EnableStorageFunction, Apply, Accept, Report, Exists
<1>2. ASSUME NEW id \in Ids, DisableStorageFunction(id) PROVE SameStores
  BY <1>2 DEF DisableStorageFunction, Apply, Accept, Report, Exists
<1>3. ASSUME EnableStorageFunctionOfAll PROVE SameStores
  BY <1>3 DEF EnableStorageFunctionOfAll, ApplyToAll, Accept, Report, Exists
<1>4. ASSUME DisableStorageFunctionOfAll PROVE SameStores
  BY <1>4 DEF DisableStorageFunctionOfAll, ApplyToAll, Accept, Report, Exists
<1> QED
  BY <1>1, <1>2, <1>3, <1>4 DEF StorageTelecommand

\* The telecommands that start, end and set up retrievals.
LEMMA RetrievalTelecommandStep ==
  ASSUME StoresTyped, RetrievalTelecommand
  PROVE  SameStores
<1> USE StoreStepStutters, RetrievalSteps, ConstantsAssumption DEF StoresTyped, SameStores
<1>1. ASSUME NEW id \in Ids, NEW start \in RetrievalTimes, NEW end \in RetrievalTimes,
             StartByTimeRangeRetrieval(id, start, end)
      PROVE  SameStores
  <2> DEFINE s == packetStores[id]
             new == [s EXCEPT !.byTimeRangeRetrievalStatus = TRUE,
                              !.retrievalStartTime = start,
                              !.retrievalEndTime = end]
  <2>1. /\ Exists(id) => s \in PacketStore
        /\ start \in Nat /\ end \in Nat
    BY DEF Exists
  <2>2. Exists(id) /\ StartByTimeRangeRetrievalError(s, start, end) = NoError => StoreStep(s, new)
    BY <2>1, RetrievalSteps
  <2>3. OneStore(id, new)
    BY <1>1, <2>2 DEF OneStore, StartByTimeRangeRetrieval, Apply, Report, Exists
  <2> QED
    BY <2>3, OneStoreStep
<1>2. ASSUME NEW id \in Ids, AbortByTimeRangeRetrieval(id) PROVE SameStores
  BY <1>2 DEF AbortByTimeRangeRetrieval, Apply, Accept, Report, Exists
<1>3. ASSUME NEW id \in Ids, ResumeOpenRetrieval(id) PROVE SameStores
  BY <1>3 DEF ResumeOpenRetrieval, Apply, Report, Exists
<1>4. ASSUME NEW id \in Ids, SuspendOpenRetrieval(id) PROVE SameStores
  BY <1>4 DEF SuspendOpenRetrieval, Apply, Accept, Report, Exists
<1>5. ASSUME AbortByTimeRangeRetrievalOfAll PROVE SameStores
  BY <1>5 DEF AbortByTimeRangeRetrievalOfAll, ApplyToAll, Accept, Report
<1>6. ASSUME ResumeOpenRetrievalOfAll PROVE SameStores
  BY <1>6 DEF ResumeOpenRetrievalOfAll, ApplyToAll, Report
<1>7. ASSUME SuspendOpenRetrievalOfAll PROVE SameStores
  BY <1>7 DEF SuspendOpenRetrievalOfAll, ApplyToAll, Accept, Report
<1>8. ASSUME NEW id \in Ids, NEW tag \in RetrievalTimes, ChangeOpenRetrievalStartTimeTag(id, tag)
      PROVE  SameStores
  <2> DEFINE s == packetStores[id]
             new == [s EXCEPT !.openRetrievalStartTimeTag = tag]
  <2>1. (Exists(id) => s \in PacketStore) /\ tag \in Nat
    BY DEF Exists
  <2>2. Exists(id) /\ ChangeTimeTagError(s) = NoError => StoreStep(s, new)
    BY <2>1, RetrievalSteps
  <2>3. OneStore(id, new)
    BY <1>8, <2>2 DEF OneStore, ChangeOpenRetrievalStartTimeTag, Apply, Report, Exists
  <2> QED
    BY <2>3, OneStoreStep
<1>9. ASSUME NEW tag \in RetrievalTimes, ChangeOpenRetrievalStartTimeTagOfAll(tag)
      PROVE  SameStores
  BY <1>9 DEF ChangeOpenRetrievalStartTimeTagOfAll, ApplyToAll, Report
<1> QED
  BY <1>1, <1>2, <1>3, <1>4, <1>5, <1>6, <1>7, <1>8, <1>9 DEF RetrievalTelecommand

\* TC[15,25] to TC[15,28].
LEMMA ConfigurationTelecommandStep ==
  ASSUME StoresTyped,
         \/ \E id \in Ids : ChangeTypeToCircular(id) \/ ChangeTypeToBounded(id)
         \/ \E id \in Ids, size \in Sizes : ResizePacketStores(id, size)
         \/ \E id \in Ids, channel \in VirtualChannels : ChangeVirtualChannel(id, channel)
  PROVE  SameStores
<1> USE ConstantsAssumption DEF StoresTyped
<1>0. \A id \in Ids : Exists(id) => packetStores[id] \in PacketStore
  BY DEF Exists
<1>1. ASSUME NEW id \in Ids, ChangeTypeToCircular(id) PROVE SameStores
  <2> DEFINE new == [packetStores[id] EXCEPT !.packetStoreType = "Circular"]
  <2>1. Exists(id) /\ ChangeTypeError(packetStores[id]) = NoError
        => StoreStep(packetStores[id], new)
    BY <1>0, ConfigurationSteps
  <2>2. OneStore(id, new)
    BY <1>1, <2>1 DEF OneStore, ChangeTypeToCircular, Apply, Report, Exists
  <2> QED
    BY <2>2, OneStoreStep
<1>2. ASSUME NEW id \in Ids, ChangeTypeToBounded(id) PROVE SameStores
  <2> DEFINE new == [packetStores[id] EXCEPT !.packetStoreType = "Bounded"]
  <2>1. Exists(id) /\ ChangeTypeError(packetStores[id]) = NoError
        => StoreStep(packetStores[id], new)
    BY <1>0, ConfigurationSteps
  <2>2. OneStore(id, new)
    BY <1>2, <2>1 DEF OneStore, ChangeTypeToBounded, Apply, Report, Exists
  <2> QED
    BY <2>2, OneStoreStep
<1>3. ASSUME NEW id \in Ids, NEW size \in Sizes, ResizePacketStores(id, size) PROVE SameStores
  <2> DEFINE new == [packetStores[id] EXCEPT !.sizeInBytes = size]
  <2>1. Exists(id) /\ ResizeError(packetStores[id], size) = NoError
        => StoreStep(packetStores[id], new)
    BY <1>0, ConfigurationSteps
  <2>2. OneStore(id, new)
    BY <1>3, <2>1 DEF OneStore, ResizePacketStores, Apply, Report, Exists
  <2> QED
    BY <2>2, OneStoreStep
<1>4. ASSUME NEW id \in Ids, NEW channel \in VirtualChannels, ChangeVirtualChannel(id, channel)
      PROVE  SameStores
  <2> DEFINE new == [packetStores[id] EXCEPT !.virtualChannel = channel]
  <2>1. Exists(id) /\ ChangeVirtualChannelError(packetStores[id], channel) = NoError
        => StoreStep(packetStores[id], new)
    BY <1>0, ConfigurationSteps
  <2>2. OneStore(id, new)
    BY <1>4, <2>1 DEF OneStore, ChangeVirtualChannel, Apply, Report, Exists
  <2> QED
    BY <2>2, OneStoreStep
<1> QED
  BY <1>1, <1>2, <1>3, <1>4

(* A copy leaves every store alone, or puts copies of chosen packets in an      *)
(* empty destination.                                                         *)
CopyOutcome(from, to, chosen) ==
  /\ HandsOverNothing
  /\ refused' \in BOOLEAN
  /\ \/ packetStores' = packetStores
     \/ /\ Exists(from) /\ Exists(to)
        /\ packetStores[to].storedTelemetryPackets = << >>
        /\ \E copies \in CopiesOf(packetStores[from].storedTelemetryPackets, chosen) :
             packetStores' = [packetStores EXCEPT ![to].storedTelemetryPackets = @ \o copies]

\* TC[15,24], whatever the selection of packets.
LEMMA CopyOutcomeStep ==
  ASSUME StoresTyped, NEW from, NEW to,
         NEW chosen \in SUBSET DOMAIN packetStores[from].storedTelemetryPackets,
         CopyOutcome(from, to, chosen)
  PROVE  SameStores
<1> DEFINE packets == packetStores[from].storedTelemetryPackets
<1>1. CASE packetStores' = packetStores
  BY <1>1, StoreStepStutters DEF CopyOutcome, SameStores, StoresTyped
<1>2. CASE packetStores' # packetStores
  <2>1. Exists(from) /\ Exists(to) /\ packetStores[to].storedTelemetryPackets = << >>
    BY <1>2 DEF CopyOutcome
  <2>2. PICK copies \in CopiesOf(packets, chosen) :
          packetStores' = [packetStores EXCEPT ![to].storedTelemetryPackets = @ \o copies]
    BY <1>2 DEF CopyOutcome
  <2>3. packetStores[to] \in PacketStore /\ packets \in Seq(Nat) /\ WellKept(packets)
    BY <2>1 DEF StoresTyped, Exists, PacketStore
  <2>4. /\ copies \in Seq(Nat) /\ Len(copies) <= Len(packets)
        /\ \A k \in DOMAIN copies : \E i \in DOMAIN packets : copies[k] = packets[i]
        /\ IsOrdered(packets) => IsOrdered(copies)
    BY <2>3, CopiesOfProperties
  <2>5. WellKept(copies)
    <3>1. chronological => NoLater(copies)
      BY <2>3, <2>4, Zenon DEF WellKept, NoLater
    <3>2. Len(copies) <= MaxPackets
      <4>1. Len(packets) <= MaxPackets
        BY <2>3 DEF WellKept
      <4>2. Len(packets) \in Nat /\ Len(copies) \in Nat
        BY <2>3, <2>4
      <4> QED
        BY <2>4, <4>1, <4>2, ConstantsAssumption
    <3> QED
      BY <2>3, <2>4, <3>1, <3>2 DEF WellKept
  <2> DEFINE new == [packetStores[to] EXCEPT !.storedTelemetryPackets = copies]
  <2>6. StoreStep(packetStores[to], new)
    BY <2>1, <2>3, <2>4, <2>5, PacketsStep
  <2>7. packetStores' = [packetStores EXCEPT ![to] = new]
    <3>1. packetStores[to].storedTelemetryPackets \o copies = copies
      BY <2>1, <2>4, ConcatEmptySeq
    <3> QED
      BY <2>2, <3>1
  <2>8. OneStore(to, new)
    BY <2>1, <2>6, <2>7 DEF OneStore, CopyOutcome, Exists
  <2> QED
    BY <2>8, OneStoreStep
<1> QED
  BY <1>1, <1>2

\* TC[15,11] and TC[15,24].
LEMMA ContentTelecommandStep ==
  ASSUME StoresTyped, ContentTelecommand
  PROVE  SameStores
<1> USE ConstantsAssumption
<1>1. ASSUME NEW limit \in ContentTimes, NEW id \in Ids, DeletePacketStoreContent(id, limit)
      PROVE  SameStores
  <2> DEFINE new == ContentUntilDeleted(packetStores[id], limit)
  <2>1. Exists(id) /\ DeleteContentError(packetStores[id]) = NoError
        => StoreStep(packetStores[id], new)
    BY DeleteContentStep DEF StoresTyped, Exists
  <2>2. OneStore(id, new)
    BY <1>1, <2>1 DEF OneStore, DeletePacketStoreContent, Apply, Report, Exists
  <2> QED
    BY <2>2, OneStoreStep
<1>2. ASSUME NEW limit \in ContentTimes, DeletePacketStoreContentOfAll(limit)
      PROVE  SameStores
  <2>1. \A id \in DOMAIN packetStores : DeleteContentError(packetStores[id]) = NoError
          => StoreStep(packetStores[id], ContentUntilDeleted(packetStores[id], limit))
    BY DeleteContentStep DEF StoresTyped
  <2> QED
    BY <1>2, <2>1, StoreStepStutters
    DEF DeletePacketStoreContentOfAll, ApplyToAll, Report, StoresTyped, SameStores
<1>3. ASSUME NEW from \in Ids, NEW to \in Ids, NEW start \in ContentTimes, NEW end \in ContentTimes,
             CopyFromTagToTag(from, to, start, end)
      PROVE  SameStores
  <2> DEFINE packets == packetStores[from].storedTelemetryPackets
             chosen == NotBefore(packets, start) \cap NoneAfter(packets, end)
  <2>1. chosen \in SUBSET DOMAIN packets
    BY DEF NotBefore
  <2>2. CopyOutcome(from, to, chosen)
    BY <1>3 DEF CopyOutcome, CopyFromTagToTag, CopyPackets, CopyError, NoError, Report
  <2> QED
    BY <2>1, <2>2, CopyOutcomeStep
<1>4. ASSUME NEW from \in Ids, NEW to \in Ids, NEW tag \in ContentTimes,
             CopyAfterTimeTag(from, to, tag)
      PROVE  SameStores
  <2> DEFINE packets == packetStores[from].storedTelemetryPackets
  <2>1. NotBefore(packets, tag) \in SUBSET DOMAIN packets
    BY DEF NotBefore
  <2>2. CopyOutcome(from, to, NotBefore(packets, tag))
    BY <1>4 DEF CopyOutcome, CopyAfterTimeTag, CopyPackets, CopyError, NoError, Report
  <2> QED
    BY <2>1, <2>2, CopyOutcomeStep
<1>5. ASSUME NEW from \in Ids, NEW to \in Ids, NEW tag \in ContentTimes,
             CopyBeforeTimeTag(from, to, tag)
      PROVE  SameStores
  <2> DEFINE packets == packetStores[from].storedTelemetryPackets
  <2>1. NoneAfter(packets, tag) \in SUBSET DOMAIN packets
    BY DEF NoneAfter
  <2>2. CopyOutcome(from, to, NoneAfter(packets, tag))
    BY <1>5 DEF CopyOutcome, CopyBeforeTimeTag, CopyPackets, CopyError, NoError, Report
  <2> QED
    BY <2>1, <2>2, CopyOutcomeStep
<1> QED
  BY <1>1, <1>2, <1>3, <1>4, <1>5 DEF ContentTelecommand

-----------------------------------------------------------------------------
(* The inductive invariant. ContentOrdered needs to know besides that no packet *)
(* is later than the one handed over last: while the flight software keeps the  *)
(* order of time the next one is put behind it, in whichever queue. It may add   *)
(* stores in any state: those in both retrievals have to be excluded.           *)
StoresWellKept ==
  \A id \in DOMAIN packetStores : WellKept(packetStores[id].storedTelemetryPackets)

IInv == TypeOK /\ StoresWellKept /\ (GivenExclusive => RetrievalExclusive)

\* The invariant gives the hypothesis of the lemmas on steps.
LEMMA IInvTyped == IInv => StoresTyped
BY DEF IInv, TypeOK, StoresTyped, StoresWellKept

\* The invariant holds when there is no store yet.
LEMMA InitIInv == Init => IInv
<1> SUFFICES ASSUME Init PROVE IInv
  OBVIOUS
<1>1. DOMAIN packetStores = {}
  BY DEF Init
<1>2. TypeOK
  <2>1. Cardinality(DOMAIN packetStores) = 0
    BY <1>1, FS_EmptySet
  <2>2. packetStores \in [DOMAIN packetStores -> PacketStore]
    BY <1>1 DEF Init
  <2>3. Cardinality(DOMAIN packetStores) <= MaxPacketStores
    BY <2>1, ConstantsAssumption
  <2>4. /\ refused \in BOOLEAN /\ undefined \in BOOLEAN /\ DOMAIN packetStores \subseteq Ids
        /\ latest \in Nat /\ chronological \in BOOLEAN
    BY <1>1 DEF Init
  <2> QED
    BY <1>1, <2>2, <2>3, <2>4 DEF TypeOK
<1> QED
  BY <1>1, <1>2 DEF IInv, RetrievalExclusive, StoresWellKept

\* A step of every store keeps the invariant.
LEMMA SameStoresIInv ==
  ASSUME IInv, SameStores
  PROVE  IInv'
<1>1. \A id \in DOMAIN packetStores' : WellKept(packetStores'[id].storedTelemetryPackets)
  <2> SUFFICES ASSUME NEW id \in DOMAIN packetStores
               PROVE  WellKept(packetStores'[id].storedTelemetryPackets)
    BY DEF SameStores
  <2>1. WellKept(packetStores[id].storedTelemetryPackets)
    BY DEF IInv, StoresWellKept
  <2> QED
    BY <2>1 DEF SameStores, StoreStep
<1>2. UNCHANGED << latest, chronological, undefined >>
  BY DEF SameStores, HandsOverNothing
<1>3. StoresWellKept'
  BY <1>1, <1>2 DEF StoresWellKept, WellKept, NoLater
<1>4. TypeOK'
  <2>1. \A id \in DOMAIN packetStores' : packetStores'[id] \in PacketStore
    BY DEF SameStores, StoreStep
  <2> QED
    BY <1>1, <1>2, <2>1 DEF IInv, TypeOK, SameStores, WellKept
<1>5. RetrievalExclusive => RetrievalExclusive'
  BY DEF RetrievalExclusive, SameStores, StoreStep, ByTimeRange, Open
<1> QED
  BY <1>3, <1>4, <1>5 DEF IInv, GivenExclusive

\* What the flight software hands over in order of time is not earlier than
\* anything before, in order itself, and not later than its last packet.
LEMMA HandedOver ==
  ASSUME IInv, NEW packets \in Seq(Nat), HandOver(packets)
  PROVE  /\ latest' \in Nat /\ chronological' \in BOOLEAN /\ undefined' \in BOOLEAN
         /\ chronological' => /\ chronological /\ latest <= latest'
                              /\ IsOrdered(packets)
                              /\ \A i \in DOMAIN packets :
                                   latest <= packets[i] /\ packets[i] <= latest'
<1> DEFINE all == << latest >> \o packets
           n == Len(packets)
<1>1. latest \in Nat /\ chronological \in BOOLEAN /\ undefined \in BOOLEAN /\ n \in Nat
  BY DEF IInv, TypeOK
<1>2. /\ all \in Seq(Nat) /\ Len(all) = n + 1 /\ all[1] = latest
      /\ \A i \in 1 .. n : all[i + 1] = packets[i]
  BY <1>1
<1>3. latest' = all[n + 1] /\ chronological' = (chronological /\ IsOrdered(all))
      /\ undefined' = undefined
  BY <1>2 DEF HandOver, Last
<1> HIDE DEF all
<1>4. DOMAIN all = 1 .. n + 1 /\ \A i \in 1 .. n + 1 : all[i] \in Nat
  BY <1>1, <1>2
<1>5. ASSUME IsOrdered(all)
      PROVE  \A i, j \in 1 .. n + 1 : i <= j => all[i] <= all[j]
  <2> SUFFICES ASSUME NEW i \in 1 .. n + 1, NEW j \in 1 .. n + 1, i <= j
               PROVE  all[i] <= all[j]
    OBVIOUS
  <2>1. CASE i = j
    BY <1>4, <2>1
  <2>2. CASE i < j
    BY <1>4, <1>5, <2>2 DEF IsOrdered
  <2> QED
    BY <1>1, <2>1, <2>2
<1>6. ASSUME IsOrdered(all)
      PROVE  /\ latest <= all[n + 1]
             /\ \A i \in 1 .. n : latest <= packets[i] /\ packets[i] <= all[n + 1]
             /\ \A i, j \in 1 .. n : i < j => packets[i] <= packets[j]
  <2>1. /\ 1 \in 1 .. n + 1 /\ n + 1 \in 1 .. n + 1
        /\ \A i \in 1 .. n : i + 1 \in 1 .. n + 1 /\ 1 <= i + 1 /\ i + 1 <= n + 1
        /\ \A i, j \in 1 .. n : i < j => i + 1 <= j + 1
    BY <1>1
  <2>2. all[1] <= all[n + 1] /\ \A i \in 1 .. n : all[1] <= all[i + 1] /\ all[i + 1] <= all[n + 1]
    BY <1>5, <1>6, <2>1
  <2>3. \A i, j \in 1 .. n : i < j => all[i + 1] <= all[j + 1]
    BY <1>5, <1>6, <2>1
  <2> QED
    BY <1>2, <2>2, <2>3
<1>7. DOMAIN packets = 1 .. n
  OBVIOUS
<1>8. latest' \in Nat /\ chronological' \in BOOLEAN /\ undefined' \in BOOLEAN
  <2>1. n + 1 \in 1 .. n + 1
    BY <1>1
  <2>2. chronological' \in BOOLEAN
    BY <1>3, Zenon
  <2> QED
    BY <1>1, <1>3, <1>4, <2>1, <2>2
<1>9. ASSUME chronological'
      PROVE  chronological /\ IsOrdered(all)
  BY <1>3, <1>9, Zenon
<1>10. ASSUME chronological'
       PROVE  /\ chronological /\ latest <= latest'
              /\ IsOrdered(packets)
              /\ \A i \in DOMAIN packets : latest <= packets[i] /\ packets[i] <= latest'
  <2> HIDE DEF n
  <2> QED
    BY <1>3, <1>6, <1>7, <1>9, <1>10 DEF IsOrdered
<1> QED
  BY <1>8, <1>10

(* A store is made or filled only where there is room, and by a caller who, if   *)
(* it keeps the order of time, hands over nothing earlier than what is there.   *)
LEMMA InsertIInv ==
  ASSUME IInv, NEW id \in Ids, NEW store \in PacketStore,
         Exists(id) \/ ~MapIsFull,
         GivenExclusive => ~(ByTimeRange(store) /\ Open(store)),
         Len(store.storedTelemetryPackets) <= MaxPackets,
         packetStores' = Insert(id, store), refused' \in BOOLEAN,
         latest' \in Nat, chronological' \in BOOLEAN, undefined' \in BOOLEAN,
         chronological' =>
           /\ chronological /\ latest <= latest'
           /\ IsOrdered(store.storedTelemetryPackets)
           /\ \A i \in DOMAIN store.storedTelemetryPackets :
                store.storedTelemetryPackets[i] <= latest'
  PROVE  IInv'
<1>1. /\ DOMAIN packetStores' = DOMAIN packetStores \cup { id }
      /\ packetStores' = [i \in DOMAIN packetStores' |->
                            IF i = id THEN store ELSE packetStores[i]]
  BY DEF Insert
<1>2. Cardinality(DOMAIN packetStores') <= MaxPacketStores
  <2>1. IsFiniteSet(DOMAIN packetStores)
    BY FS_Subset, ConstantsAssumption DEF IInv, TypeOK
  <2>2. Cardinality(DOMAIN packetStores) \in Nat
    BY <2>1, FS_CardinalityType
  <2>3. Cardinality(DOMAIN packetStores \cup { id }) =
          IF id \in DOMAIN packetStores THEN Cardinality(DOMAIN packetStores)
          ELSE Cardinality(DOMAIN packetStores) + 1
    BY <2>1, FS_AddElement
  <2>4. Cardinality(DOMAIN packetStores) <= MaxPacketStores
    BY DEF IInv, TypeOK
  <2> QED
    BY <1>1, <2>2, <2>3, <2>4, ConstantsAssumption DEF Exists, MapIsFull
<1>3. \A i \in DOMAIN packetStores' :
        \/ packetStores'[i] = store
        \/ i \in DOMAIN packetStores /\ packetStores'[i] = packetStores[i]
  BY <1>1
<1>4. TypeOK'
  <2>1. \A i \in DOMAIN packetStores' :
          /\ packetStores'[i] \in PacketStore
          /\ Len(packetStores'[i].storedTelemetryPackets) <= MaxPackets
    BY <1>3 DEF IInv, TypeOK
  <2>2. DOMAIN packetStores' \subseteq Ids
    BY <1>1 DEF IInv, TypeOK
  <2> QED
    BY <1>1, <1>2, <2>1, <2>2 DEF TypeOK
<1>5. GivenExclusive => RetrievalExclusive'
  BY <1>3 DEF IInv, RetrievalExclusive, ByTimeRange, Open
<1>6. StoresWellKept'
  <2> SUFFICES ASSUME NEW i \in DOMAIN packetStores', chronological'
               PROVE  /\ IsOrdered(packetStores'[i].storedTelemetryPackets)
                      /\ \A k \in DOMAIN packetStores'[i].storedTelemetryPackets :
                           packetStores'[i].storedTelemetryPackets[k] <= latest'
    BY <1>4 DEF StoresWellKept, WellKept, NoLater, IsOrdered, TypeOK
  <2>1. CASE packetStores'[i] = store
    BY <2>1
  <2>2. CASE i \in DOMAIN packetStores /\ packetStores'[i] = packetStores[i]
    <3> DEFINE packets == packetStores[i].storedTelemetryPackets
    <3>1. IsOrdered(packets) /\ \A k \in DOMAIN packets : packets[k] <= latest
      BY <2>2 DEF IInv, StoresWellKept, WellKept, NoLater
    <3>2. packets \in Seq(Nat) /\ latest \in Nat
      BY <2>2 DEF IInv, TypeOK, PacketStore
    <3>3. \A k \in DOMAIN packets : packets[k] \in Nat
      BY <3>2
    <3> HIDE DEF packets
    <3>4. \A k \in DOMAIN packets : packets[k] <= latest'
      BY <3>1, <3>2, <3>3
    <3> QED
      BY <2>2, <3>1, <3>4 DEF packets
  <2> QED
    BY <1>3, <2>1, <2>2
<1> QED
  BY <1>4, <1>5, <1>6 DEF IInv, GivenExclusive

\* A fresh packet store is idle and empty.
LEMMA NewPacketStoreType ==
  ASSUME NEW size \in Nat, NEW type \in { "Circular", "Bounded" }, NEW channel \in Nat
  PROVE  /\ NewPacketStore(size, type, channel) \in PacketStore
         /\ ~ByTimeRange(NewPacketStore(size, type, channel))
         /\ ~Open(NewPacketStore(size, type, channel))
         /\ NewPacketStore(size, type, channel).storedTelemetryPackets = << >>
         /\ IsOrdered(<< >>) /\ Len(<< >>) <= MaxPackets
<1>1. Len(<< >>) = 0 /\ 0 <= MaxPackets
  BY ConstantsAssumption
<1> QED
  BY <1>1 DEF NewPacketStore, PacketStore, ByTimeRange, Open, IsOrdered

\* Where nothing is handed over and the stores stay, so does the invariant.
LEMMA UnchangedIInv ==
  ASSUME IInv, packetStores' = packetStores, refused' \in BOOLEAN, undefined' \in BOOLEAN,
         UNCHANGED << latest, chronological >>
  PROVE  IInv'
<1>1. TypeOK'
  BY DEF IInv, TypeOK
<1> QED
  BY <1>1 DEF IInv, RetrievalExclusive, StoresWellKept, WellKept, NoLater, GivenExclusive

\* TC[15,20] keeps the invariant.
LEMMA CreatePacketStoresIInv ==
  ASSUME IInv, NEW id \in Ids, NEW size \in Sizes, NEW type \in Types, NEW channel \in VirtualChannels,
         CreatePacketStores(id, size, type, channel)
  PROVE  IInv'
<1> DEFINE store == NewPacketStore(size, type, channel)
<1>1. /\ UNCHANGED << latest, chronological, undefined >> /\ refused' \in BOOLEAN
      /\ latest \in Nat /\ chronological \in BOOLEAN /\ undefined \in BOOLEAN
  BY DEF CreatePacketStores, Report, HandsOverNothing, IInv, TypeOK
<1>2. CASE packetStores' = packetStores
  BY <1>1, <1>2, UnchangedIInv
<1>3. CASE packetStores' # packetStores
  <2>1. packetStores' = Insert(id, store) /\ ~AtMaxPacketStores
    BY <1>3 DEF CreatePacketStores, CreatePacketStoreError, NoError
  <2>2. ~MapIsFull
    BY <2>1, ConstantsAssumption DEF AtMaxPacketStores, MapIsFull
  <2>3. /\ store \in PacketStore /\ ~ByTimeRange(store)
        /\ store.storedTelemetryPackets = << >>
        /\ IsOrdered(<< >>) /\ Len(<< >>) <= MaxPackets
    BY NewPacketStoreType, ConstantsAssumption
  <2> HIDE DEF store
  <2> QED
    BY <1>1, <2>1, <2>2, <2>3, InsertIInv
<1> QED
  BY <1>2, <1>3

\* Removing stores keeps the invariant: TC[15,21] and resetPacketStores.
LEMMA RemovalIInv ==
  ASSUME IInv, NEW kept \in SUBSET DOMAIN packetStores,
         packetStores' = [id \in kept |-> packetStores[id]], HandsOverNothing, refused' \in BOOLEAN
  PROVE  IInv'
<1>1. Cardinality(kept) <= MaxPacketStores
  <2>1. IsFiniteSet(DOMAIN packetStores)
    BY FS_Subset, ConstantsAssumption DEF IInv, TypeOK
  <2>2. Cardinality(DOMAIN packetStores) \in Nat /\ Cardinality(kept) \in Nat
    BY <2>1, FS_Subset, FS_CardinalityType
  <2>3. Cardinality(kept) <= Cardinality(DOMAIN packetStores)
    BY <2>1, FS_Subset
  <2> QED
    BY <2>2, <2>3, ConstantsAssumption DEF IInv, TypeOK
<1>2. TypeOK'
  BY <1>1 DEF IInv, TypeOK, HandsOverNothing
<1> QED
  BY <1>2 DEF IInv, RetrievalExclusive, StoresWellKept, WellKept, NoLater, HandsOverNothing,
              GivenExclusive

\* A container without room keeps the invariant, as far as it is defined.
LEMMA OverflowIInv ==
  ASSUME IInv, Overflow
  PROVE  IInv'
BY UnchangedIInv DEF Overflow, Report

\* addTelemetryToPacketStore keeps the invariant, also when its caller does not
\* keep the order of time.
LEMMA AddTelemetryIInv ==
  ASSUME IInv, NEW id \in Ids, NEW timestamp \in Timestamps,
         AddTelemetryToPacketStore(id, timestamp)
  PROVE  IInv'
<1> DEFINE store == IF Exists(id) THEN packetStores[id] ELSE NewPacketStore(0, "Circular", 0)
           packets == store.storedTelemetryPackets
           new == [store EXCEPT !.storedTelemetryPackets = Append(@, timestamp)]
           longer == Append(packets, timestamp)
<1>1. CASE Overflow
  BY <1>1, OverflowIInv
<1>2. CASE ~Overflow
  <2>1. /\ Exists(id) \/ ~MapIsFull
        /\ Len(packets) < MaxPackets
        /\ packetStores' = Insert(id, new)
        /\ refused' \in BOOLEAN
        /\ HandOver(<< timestamp >>)
    BY <1>2 DEF AddTelemetryToPacketStore, Report
  <2>2. /\ store \in PacketStore /\ packets \in Seq(Nat)
        /\ GivenExclusive => ~(ByTimeRange(store) /\ Open(store))
        /\ chronological => IsOrdered(packets) /\ NoLater(packets)
    <3>1. CASE Exists(id)
      <4>1. packetStores[id] \in PacketStore
        BY <3>1 DEF IInv, TypeOK, Exists
      <4>2. packetStores[id].storedTelemetryPackets \in Seq(Nat)
        BY <4>1 DEF PacketStore
      <4> QED
        BY <3>1, <4>1, <4>2 DEF IInv, RetrievalExclusive, StoresWellKept, WellKept, Exists,
                                ByTimeRange, Open
    <3>2. CASE ~Exists(id)
      <4>1. store = NewPacketStore(0, "Circular", 0)
        BY <3>2
      <4>2. << >> \in Seq(Nat) /\ NoLater(<< >>)
        BY DEF NoLater
      <4> QED
        BY <4>1, <4>2, NewPacketStoreType
    <3> QED
      BY <3>1, <3>2
  <2>3. timestamp \in Nat /\ << timestamp >> \in Seq(Nat)
    BY ConstantsAssumption
  <2>4. /\ latest' \in Nat /\ chronological' \in BOOLEAN /\ undefined' \in BOOLEAN
        /\ chronological' => /\ chronological /\ latest <= latest'
                             /\ latest <= timestamp /\ timestamp <= latest'
    <3>1. 1 \in DOMAIN << timestamp >> /\ << timestamp >>[1] = timestamp
      OBVIOUS
    <3> QED
      BY <2>1, <2>3, <3>1, HandedOver
  <2>5. /\ new \in PacketStore
        /\ GivenExclusive => ~(ByTimeRange(new) /\ Open(new))
        /\ new.storedTelemetryPackets = longer
        /\ longer \in Seq(Nat) /\ Len(longer) = Len(packets) + 1
    <3>1. longer \in Seq(Nat) /\ Len(longer) = Len(packets) + 1
      BY <2>2, <2>3
    <3> HIDE DEF store
    <3>2. /\ new = [store EXCEPT !.storedTelemetryPackets = longer]
          /\ store \in PacketStore
      BY <2>2
    <3> HIDE DEF longer, packets, new
    <3> QED
      BY <2>2, <3>1, <3>2 DEF PacketStore, ByTimeRange, Open
  <2> HIDE DEF packets, store, new
  <2>6. ASSUME chronological'
        PROVE  IsOrdered(longer) /\ \A i \in DOMAIN longer : longer[i] <= latest'
    <3>1. /\ DOMAIN longer = 1 .. Len(packets) + 1
          /\ DOMAIN packets = 1 .. Len(packets)
          /\ \A i \in 1 .. Len(packets) : longer[i] = packets[i] /\ packets[i] \in Nat
          /\ longer[Len(packets) + 1] = timestamp
          /\ Len(packets) \in Nat /\ latest \in Nat
      BY <2>2, <2>3 DEF IInv, TypeOK
    <3>2. /\ \A i \in 1 .. Len(packets) : packets[i] <= latest
          /\ \A i, j \in 1 .. Len(packets) : i < j => packets[i] <= packets[j]
      BY <2>2, <2>4, <2>6, <3>1 DEF IsOrdered, NoLater
    <3>3. /\ \A i \in 1 .. Len(packets) : packets[i] <= timestamp /\ packets[i] <= latest'
          /\ timestamp <= latest'
      BY <2>3, <2>4, <2>6, <3>1, <3>2
    <3> HIDE DEF longer
    <3>4. \A i \in DOMAIN longer : i \in 1 .. Len(packets) \/ i = Len(packets) + 1
      BY <3>1
    <3>5. \A i \in DOMAIN longer : longer[i] <= latest'
      BY <3>1, <3>3, <3>4
    <3>6. \A i, j \in DOMAIN longer : i < j => i \in 1 .. Len(packets)
      BY <3>1
    <3>7. IsOrdered(longer)
      BY <3>1, <3>2, <3>3, <3>4, <3>6 DEF IsOrdered
    <3> QED
      BY <3>5, <3>7
  <2>7. Len(longer) <= MaxPackets
    BY <2>1, <2>2, <2>5, ConstantsAssumption
  <2> HIDE DEF longer
  <2> QED
    BY <2>1, <2>4, <2>5, <2>6, <2>7, InsertIInv
<1> QED
  BY <1>1, <1>2

\* addPacketStore keeps the invariant, whatever the store it is given.
LEMMA AddPacketStoreIInv ==
  ASSUME IInv, NEW id \in Ids, NEW store \in GivenStores, AddPacketStore(id, store)
  PROVE  IInv'
<1>1. CASE Overflow
  BY <1>1, OverflowIInv
<1>2. CASE packetStores' = packetStores /\ refused' \in BOOLEAN /\ HandsOverNothing
  BY <1>2, UnchangedIInv DEF HandsOverNothing, IInv, TypeOK
<1>3. CASE /\ ~MapIsFull /\ packetStores' = Insert(id, store)
           /\ refused' \in BOOLEAN /\ HandOver(store.storedTelemetryPackets)
  <2> DEFINE packets == store.storedTelemetryPackets
  <2>1. /\ store \in PacketStore /\ packets \in Seq(Nat) /\ Len(packets) <= MaxPackets
        /\ GivenExclusive => ~(ByTimeRange(store) /\ Open(store))
    BY GivenStoresAssumption DEF PacketStore, GivenExclusive, ByTimeRange, Open
  <2> QED
    BY <1>3, <2>1, HandedOver, InsertIInv
<1> QED
  BY <1>1, <1>2, <1>3 DEF AddPacketStore, Report

\* Every step keeps the invariant.
LEMMA NextIInv ==
  ASSUME IInv, [Next]_vars
  PROVE  IInv'
<1> USE IInvTyped
<1>1. CASE StorageTelecommand
  BY <1>1, StorageTelecommandStep, SameStoresIInv
<1>2. CASE RetrievalTelecommand
  BY <1>2, RetrievalTelecommandStep, SameStoresIInv
<1>3. CASE ContentTelecommand
  BY <1>3, ContentTelecommandStep, SameStoresIInv
<1>4. CASE ConfigurationTelecommand
  <2>1. ASSUME NEW id \in Ids, DeletePacketStore(id) PROVE IInv'
    BY <2>1, RemovalIInv DEF DeletePacketStore, DeletePacketStores, Report
  <2>2. ASSUME DeleteAllPacketStores PROVE IInv'
    BY <2>2, RemovalIInv DEF DeleteAllPacketStores, DeletePacketStores, Report
  <2> QED
    BY <1>4, <2>1, <2>2, CreatePacketStoresIInv, ConfigurationTelecommandStep, SameStoresIInv
    DEF ConfigurationTelecommand
<1>5. CASE FlightSoftware
  <2>1. ASSUME ResetPacketStores PROVE IInv'
    <3>1. /\ packetStores' = [id \in {} |-> packetStores[id]]
          /\ HandsOverNothing /\ refused' \in BOOLEAN
      BY <2>1 DEF ResetPacketStores, Report
    <3> QED
      BY <3>1, RemovalIInv
  <2> QED
    BY <1>5, <2>1, AddTelemetryIInv, AddPacketStoreIInv DEF FlightSoftware
<1>6. CASE UNCHANGED vars
  BY <1>6, UnchangedIInv DEF vars, IInv, TypeOK
<1> QED
  BY <1>1, <1>2, <1>3, <1>4, <1>5, <1>6 DEF Next

\* The inductive invariant holds whatever telecommands and calls come in.
THEOREM Invariance == Spec => []IInv
BY InitIInv, NextIInv, PTL DEF Spec

-----------------------------------------------------------------------------
(* Whatever telecommands and calls come in, in whatever order: the variables   *)
(* keep their types, there are never more stores than ECSSMaxPacketStores nor  *)
(* more packets in one than ECSSMaxPacketStoreSize, as long as no call of the   *)
(* flight software asked a full container for more.                            *)
THEOREM TypeCorrect == Spec => []TypeOK
<1>1. IInv => TypeOK
  BY DEF IInv
<1> QED
  BY <1>1, Invariance, PTL

(* If the flight software adds no store that is in both retrievals, none is    *)
(* ever retrieved by time range and openly at once: the checks of TC[15,9] and  *)
(* TC[15,15], with the resets of TC[15,16], TC[15,17] and of creation, keep the  *)
(* two retrievals apart.                                                       *)
THEOREM RetrievalIsExclusive ==
  ASSUME GivenExclusive
  PROVE  Spec => []RetrievalExclusive
<1>1. IInv => RetrievalExclusive
  BY DEF IInv
<1> QED
  BY <1>1, Invariance, PTL

(* While the flight software hands over packets in the order of their time,    *)
(* every packet store holds its packets oldest first, also those that came from *)
(* another store: what deleteContentUntil, the copies and the summary rely on.  *)
THEOREM ContentIsOrdered == Spec => []ContentOrdered
<1>1. IInv => ContentOrdered
  BY DEF IInv, StoresWellKept, WellKept, ContentOrdered
<1> QED
  BY <1>1, Invariance, PTL

-----------------------------------------------------------------------------
(* What a step leaves of a store that exists before it and after it.           *)
Kept(old, new) ==
  /\ Retrieved(old) /\ Retrieved(new) => Configuration(old) = Configuration(new)
  /\ old.byTimeRangeRetrievalStatus /\ new.byTimeRangeRetrievalStatus
     => Window(old) = Window(new)
  /\ old.openRetrievalStatus = "InProgress" /\ new.openRetrievalStatus = "InProgress"
     => old.openRetrievalStartTimeTag = new.openRetrievalStartTimeTag
  /\ Retrieved(old) => IsPrefix(old.storedTelemetryPackets, new.storedTelemetryPackets)

\* A queue is a prefix of itself, and the empty one of every queue.
LEMMA PrefixOfItself ==
  ASSUME NEW s \in Seq(Nat)
  PROVE  IsPrefix(s, s) /\ IsPrefix(<< >>, s)
<1>1. SubSeq(s, 1, 0) = << >> /\ SubSeq(<< >>, 1, 0) = << >>
  BY SubSeqEmpty
<1> QED
  BY <1>1 DEF IsPrefix

\* A queue is a prefix of what it is with one packet more at its end.
LEMMA PrefixOfAppend ==
  ASSUME NEW s \in Seq(Nat), NEW x \in Nat
  PROVE  IsPrefix(s, Append(s, x))
<1> DEFINE t == Append(s, x)
<1>1. /\ t \in Seq(Nat) /\ Len(t) = Len(s) + 1
      /\ \A i \in 1 .. Len(s) : t[i] = s[i]
  OBVIOUS
<1>2. SubSeq(t, 1, Len(s)) \in Seq(Nat) /\ SubSeq(s, 1, Len(s)) \in Seq(Nat)
  BY <1>1
<1>3. /\ Len(SubSeq(t, 1, Len(s))) = Len(s)
      /\ \A i \in 1 .. Len(s) : SubSeq(t, 1, Len(s))[i] = s[i]
  BY <1>1
<1>4. SubSeq(s, 1, Len(s)) = s
  BY SubSeqFull
<1>5. SubSeq(t, 1, Len(s)) = s
  BY <1>2, <1>3, SeqEqual
<1> HIDE DEF t
<1> QED
  BY <1>1, <1>4, <1>5 DEF IsPrefix, t

\* A turn of a handler keeps what a running retrieval works from.
LEMMA StoreStepKeeps ==
  ASSUME NEW old \in PacketStore, NEW new, StoreStep(old, new)
  PROVE  Kept(old, new)
<1>1. old.storedTelemetryPackets \in Seq(Nat) /\ new.storedTelemetryPackets \in Seq(Nat)
  BY DEF StoreStep, PacketStore
<1>2. Retrieved(old) => IsPrefix(old.storedTelemetryPackets, new.storedTelemetryPackets)
  BY <1>1, PrefixOfItself DEF StoreStep
<1> QED
  BY <1>2 DEF StoreStep, Kept, ByTimeRange, Open

\* So does every step, for every store that is there before and after.
LEMMA NextKeeps ==
  ASSUME IInv, [Next]_vars
  PROVE  \A id \in DOMAIN packetStores \cap DOMAIN packetStores' :
           Kept(packetStores[id], packetStores'[id])
<1> SUFFICES ASSUME NEW id \in DOMAIN packetStores, id \in DOMAIN packetStores'
             PROVE  Kept(packetStores[id], packetStores'[id])
  OBVIOUS
<1>1. /\ packetStores[id] \in PacketStore
      /\ packetStores[id].storedTelemetryPackets \in Seq(Nat)
  BY DEF IInv, TypeOK, PacketStore
<1>2. SameStores => Kept(packetStores[id], packetStores'[id])
  BY <1>1, StoreStepKeeps DEF SameStores
<1>3. packetStores'[id] = packetStores[id] => Kept(packetStores[id], packetStores'[id])
  BY <1>1, PrefixOfItself DEF Kept
<1>4. CASE StorageTelecommand \/ RetrievalTelecommand \/ ContentTelecommand
  BY <1>2, <1>4, IInvTyped, StorageTelecommandStep, RetrievalTelecommandStep, ContentTelecommandStep
<1>5. ASSUME NEW i \in Ids, NEW size \in Sizes, NEW type \in Types, NEW channel \in VirtualChannels,
             CreatePacketStores(i, size, type, channel)
      PROVE  packetStores'[id] = packetStores[id]
  BY <1>5 DEF CreatePacketStores, CreatePacketStoreError, Insert, Exists, NoError
<1>6. ASSUME NEW ids, DeletePacketStores(ids)
      PROVE  packetStores'[id] = packetStores[id]
  BY <1>6 DEF DeletePacketStores
<1>7. CASE ConfigurationTelecommand
  BY <1>2, <1>3, <1>5, <1>6, <1>7, IInvTyped, ConfigurationTelecommandStep
  DEF ConfigurationTelecommand, DeletePacketStore, DeleteAllPacketStores
<1>8. ASSUME NEW i \in Ids, NEW timestamp \in Timestamps, AddTelemetryToPacketStore(i, timestamp)
      PROVE  Kept(packetStores[id], packetStores'[id])
  <2>1. CASE Overflow
    BY <1>3, <2>1 DEF Overflow
  <2>2. CASE i = id /\ ~Overflow
    <3>1. packetStores'[id] =
            [packetStores[id] EXCEPT !.storedTelemetryPackets = Append(@, timestamp)]
      BY <1>8, <2>2 DEF AddTelemetryToPacketStore, Insert, Exists
    <3>2. IsPrefix(packetStores[id].storedTelemetryPackets,
                   Append(packetStores[id].storedTelemetryPackets, timestamp))
      BY <1>1, PrefixOfAppend, ConstantsAssumption
    <3> QED
      BY <1>1, <3>1, <3>2 DEF Kept, Retrieved, Configuration, Window, PacketStore
  <2>3. CASE i # id /\ ~Overflow
    BY <1>3, <1>8, <2>3 DEF AddTelemetryToPacketStore, Insert
  <2> QED
    BY <2>1, <2>2, <2>3
<1>9. CASE FlightSoftware
  <2>1. ASSUME ResetPacketStores PROVE packetStores'[id] = packetStores[id]
    BY <2>1 DEF ResetPacketStores
  <2>2. ASSUME NEW i \in Ids, NEW store \in GivenStores, AddPacketStore(i, store)
        PROVE  packetStores'[id] = packetStores[id]
    BY <2>2 DEF AddPacketStore, Overflow, Insert, Exists
  <2> QED
    BY <1>3, <1>8, <1>9, <2>1, <2>2 DEF FlightSoftware
<1>10. CASE UNCHANGED vars
  BY <1>3, <1>10 DEF vars
<1> QED
  BY <1>4, <1>7, <1>9, <1>10 DEF Next

(* Nothing a retrieval works from is changed while it runs: not the             *)
(* configuration, not the window of a retrieval by time range, not the start    *)
(* tag of an open one.                                                         *)
THEOREM RetrievalIsFrozen == Spec => FrozenWhileRetrieved
<1>1. IInv /\ [Next]_vars => [ \A id \in DOMAIN packetStores \cap DOMAIN packetStores' :
       LET old == packetStores[id]
           new == packetStores'[id]
       IN /\ Retrieved(old) /\ Retrieved(new) => Configuration(old) = Configuration(new)
          /\ old.byTimeRangeRetrievalStatus /\ new.byTimeRangeRetrievalStatus
             => Window(old) = Window(new)
          /\ old.openRetrievalStatus = "InProgress" /\ new.openRetrievalStatus = "InProgress"
             => old.openRetrievalStartTimeTag = new.openRetrievalStartTimeTag]_vars
  BY NextKeeps DEF Kept
<1> QED
  BY <1>1, Invariance, PTL DEF Spec, FrozenWhileRetrieved

(* No telecommand takes a packet from a store under retrieval.                 *)
THEOREM RetrievedContentIsKept == Spec => RetrievedContentKept
<1>1. IInv /\ [Next]_vars => [ \A id \in DOMAIN packetStores \cap DOMAIN packetStores' :
       Retrieved(packetStores[id]) =>
         IsPrefix(packetStores[id].storedTelemetryPackets,
                  packetStores'[id].storedTelemetryPackets)]_vars
  BY NextKeeps DEF Kept
<1> QED
  BY <1>1, Invariance, PTL DEF Spec, RetrievedContentKept

-----------------------------------------------------------------------------
(* In a queue that is in order of time, the loop of TC[15,24] that stops at the *)
(* first packet after the window chooses every packet of the window.            *)
LEMMA WindowChosen ==
  ASSUME NEW packets \in Seq(Nat), IsOrdered(packets), NEW start \in Nat, NEW end \in Nat
  PROVE  NotBefore(packets, start) \cap NoneAfter(packets, end)
           = { i \in DOMAIN packets : packets[i] \in start .. end }
<1>1. Len(packets) \in Nat /\ DOMAIN packets = 1 .. Len(packets)
      /\ \A i \in DOMAIN packets : packets[i] \in Nat
  OBVIOUS
<1>2. \A i \in DOMAIN packets : packets[i] <= end <=> \A j \in 1 .. i : packets[j] <= end
  <2> SUFFICES ASSUME NEW i \in DOMAIN packets
               PROVE  packets[i] <= end <=> \A j \in 1 .. i : packets[j] <= end
    OBVIOUS
  <2>1. \A j \in 1 .. i : j \in DOMAIN packets /\ packets[j] <= packets[i]
    BY <1>1 DEF IsOrdered
  <2>2. i \in 1 .. i
    BY <1>1
  <2> QED
    BY <1>1, <2>1, <2>2
<1> QED
  BY <1>1, <1>2 DEF NotBefore, NoneAfter

\* A step of TC[15,24] by a window that reports no error copies the window.
LEMMA CopyFromTagToTagExact ==
  ASSUME IInv, NEW from, NEW to, NEW start \in Nat, NEW end \in Nat,
         CopyFromTagToTag(from, to, start, end), ~refused'
  PROVE  LET packets == packetStores[from].storedTelemetryPackets
             copies == packetStores'[to].storedTelemetryPackets
             window == { i \in DOMAIN packets : packets[i] \in start .. end }
         IN /\ \E places \in SUBSET window :
                 /\ IsSelection(copies, packets, places)
                 /\ IsOrdered(packets) => places = window
            /\ packetStores' = [packetStores EXCEPT ![to].storedTelemetryPackets = copies]
<1> DEFINE packets == packetStores[from].storedTelemetryPackets
           window == { i \in DOMAIN packets : packets[i] \in start .. end }
           chosen == NotBefore(packets, start) \cap NoneAfter(packets, end)
<1>1. /\ CopyError(from, to, start < end) = NoError
      /\ \E copies \in CopiesOf(packets, chosen) :
           packetStores' = [packetStores EXCEPT ![to].storedTelemetryPackets = @ \o copies]
  <2>1. ASSUME NEW reason, reason # NoError PROVE ~Report({ reason })
    <3>1. { reason } \ { NoError } # {}
      BY <2>1
    <3> QED
      BY <3>1, Zenon DEF Report
  <2>2. ~Report({ CopyError(from, to, start < end) }) \/ CopyError(from, to, start < end) = NoError
    BY <2>1
  <2>3. ~Report({ "CopyOfPacketsFailed" })
    BY <2>1 DEF NoError
  <2> HIDE DEF packets, chosen
  <2> QED
    BY <2>2, <2>3, Zenon DEF CopyFromTagToTag, CopyPackets, packets, chosen
<1>2. Exists(from) /\ Exists(to) /\ packetStores[to].storedTelemetryPackets = << >>
  BY <1>1 DEF CopyError, NoError
<1>3. packetStores[to] \in PacketStore /\ packets \in Seq(Nat)
  BY <1>2 DEF IInv, TypeOK, Exists, PacketStore
<1>4. chosen \in SUBSET window /\ (IsOrdered(packets) => chosen = window)
  <2>1. IsOrdered(packets) => chosen = window
    BY <1>3, WindowChosen
  <2>2. chosen \in SUBSET window
    <3> HIDE DEF packets
    <3> SUFFICES ASSUME NEW i \in chosen PROVE i \in window
      OBVIOUS
    <3>1. /\ i \in DOMAIN packets /\ packets[i] >= start
          /\ \A j \in 1 .. i : packets[j] <= end
      BY DEF NotBefore, NoneAfter
    <3>2. packets[i] \in Nat /\ i \in 1 .. i
      BY <1>3, <3>1
    <3> QED
      BY <3>1, <3>2
  <2> QED
    BY <2>1, <2>2
<1>5. PICK copies \in CopiesOf(packets, chosen) :
        packetStores' = [packetStores EXCEPT ![to].storedTelemetryPackets = @ \o copies]
  BY <1>1
<1>6. IsSelection(copies, packets, chosen) /\ copies \in Seq(Nat)
  <2>1. chosen \in SUBSET DOMAIN packets
    BY DEF NotBefore
  <2> HIDE DEF packets, chosen
  <2> QED
    BY <1>3, <2>1, CopiesAreSelection, CopiesOfProperties
<1> HIDE DEF packets, chosen, window
<1>7. packetStores' = [packetStores EXCEPT ![to].storedTelemetryPackets = copies]
  BY <1>2, <1>5, <1>6, ConcatEmptySeq
<1>8. packetStores'[to].storedTelemetryPackets = copies
  BY <1>2, <1>3, <1>7 DEF Exists, PacketStore
<1> QED
  BY <1>4, <1>6, <1>7, <1>8 DEF packets, window

(* TC[15,24] by a window, when it reports no error, copies packets of the window *)
(* only, each once and in the order of the source, to a store that was empty,    *)
(* and touches no other; and it copies them all if the source is in order of     *)
(* time, which the break of its loop at the first later packet rests on.         *)
THEOREM CopyIsExact == Spec => CopyExact
<1>1. ASSUME IInv, [Next]_vars
      PROVE  \A from, to \in Ids, start, end \in ContentTimes :
               ~refused' /\ CopyFromTagToTag(from, to, start, end) =>
                 LET packets == packetStores[from].storedTelemetryPackets
                     copies == packetStores'[to].storedTelemetryPackets
                     window == { i \in DOMAIN packets : packets[i] \in start .. end }
                 IN /\ \E places \in SUBSET window :
                         /\ IsSelection(copies, packets, places)
                         /\ IsOrdered(packets) => places = window
                    /\ packetStores' = [packetStores EXCEPT ![to].storedTelemetryPackets = copies]
  BY <1>1, CopyFromTagToTagExact, ConstantsAssumption
<1> QED
  BY <1>1, Invariance, PTL DEF Spec, CopyExact

-----------------------------------------------------------------------------
(* The service implements PacketStoreLifecycle.                               *)

\* When some stores leave one mode for another, the abstract service moves them.
LEMMA MoveModes ==
  ASSUME NEW S \in SUBSET Ids, NEW from, NEW to,
         \A id \in S : Mode(id) = from,
         \A id \in Ids : Mode(id)' = IF id \in S THEN to ELSE Mode(id)
  PROVE  Lifecycle!Move(S, from, to)
BY DEF Lifecycle!Move, modeMapped

(* A step that changes other fields of the stores only is a stutter.           *)
SameFlags(old, new) ==
  /\ new.storageStatus = old.storageStatus
  /\ ByTimeRange(new) = ByTimeRange(old)
  /\ new.openRetrievalStatus = old.openRetrievalStatus

FlagsKept ==
  /\ DOMAIN packetStores' = DOMAIN packetStores
  /\ \A id \in DOMAIN packetStores : SameFlags(packetStores[id], packetStores'[id])

\* The handlers that do not touch the statuses keep them.
LEMMA SameFlagsFields ==
  ASSUME NEW s \in PacketStore, NEW x
  PROVE  /\ SameFlags(s, s)
         /\ SameFlags(s, [s EXCEPT !.openRetrievalStartTimeTag = x])
         /\ SameFlags(s, [s EXCEPT !.sizeInBytes = x])
         /\ SameFlags(s, [s EXCEPT !.packetStoreType = x])
         /\ SameFlags(s, [s EXCEPT !.virtualChannel = x])
         /\ SameFlags(s, [s EXCEPT !.storedTelemetryPackets = x])
BY DEF SameFlags, ByTimeRange, PacketStore

\* A turn that keeps the statuses of its store keeps those of all.
LEMMA OneStoreFlagsKept ==
  ASSUME NEW id, NEW new,
         \/ packetStores' = packetStores
         \/ /\ id \in DOMAIN packetStores
            /\ packetStores' = [packetStores EXCEPT ![id] = new]
            /\ SameFlags(packetStores[id], new)
  PROVE  FlagsKept
BY DEF FlagsKept, SameFlags

\* Where statuses are kept the abstract service stutters.
LEMMA FlagsKeptStutters ==
  ASSUME FlagsKept
  PROVE  UNCHANGED << modeMapped, recordingMapped >>
<1>1. \A id \in Ids : Mode(id)' = Mode(id)
  BY DEF FlagsKept, SameFlags, Mode, Exists, ByTimeRange
<1>2. recordingMapped' = recordingMapped
  BY DEF FlagsKept, SameFlags, recordingMapped
<1> QED
  BY <1>1, <1>2 DEF modeMapped

\* TC[15,1] and TC[15,2] are the abstract Enable and Disable.
LEMMA StorageRefines ==
  ASSUME IInv, StorageTelecommand
  PROVE  \E S \in SUBSET Ids : Lifecycle!Enable(S) \/ Lifecycle!Disable(S)
<1> USE DEF IInv, TypeOK, PacketStore
<1> DEFINE Stores(ids) == { id \in DOMAIN packetStores : id \in ids }
<1>1. ASSUME NEW ids, DOMAIN packetStores' = DOMAIN packetStores,
             \A id \in DOMAIN packetStores :
               packetStores'[id] = IF id \in ids THEN StorageEnabled(packetStores[id])
                                   ELSE packetStores[id]
      PROVE  \E S \in SUBSET Ids : Lifecycle!Enable(S)
  <2>1. \A id \in Ids : Mode(id)' = Mode(id)
    <3>1. ASSUME NEW id \in DOMAIN packetStores
          PROVE  /\ packetStores'[id].byTimeRangeRetrievalStatus
                      = packetStores[id].byTimeRangeRetrievalStatus
                 /\ packetStores'[id].openRetrievalStatus = packetStores[id].openRetrievalStatus
      BY <1>1, <3>1 DEF StorageEnabled
    <3> QED
      BY <1>1, <3>1, Zenon DEF Mode, Exists
  <2>2. recordingMapped' = recordingMapped \cup Stores(ids)
    BY <1>1 DEF recordingMapped, StorageEnabled
  <2>3. Stores(ids) \in SUBSET Ids /\ \A id \in Stores(ids) : Mode(id) # "Absent"
    BY DEF Mode, Exists
  <2>4. UNCHANGED modeMapped /\ \A id \in Stores(ids) : modeMapped[id] # "Absent"
    BY <2>1, <2>3 DEF modeMapped
  <2>5. Lifecycle!Enable(Stores(ids))
    BY <2>2, <2>4 DEF Lifecycle!Enable
  <2> QED
    BY <2>3, <2>5
<1>2. ASSUME NEW ids, DOMAIN packetStores' = DOMAIN packetStores,
             \A id \in DOMAIN packetStores :
               packetStores'[id] = IF id \in ids THEN StorageDisabled(packetStores[id])
                                   ELSE packetStores[id]
      PROVE  \E S \in SUBSET Ids : Lifecycle!Disable(S)
  <2>1. \A id \in Ids : Mode(id)' = Mode(id)
    <3>1. ASSUME NEW id \in DOMAIN packetStores
          PROVE  /\ packetStores'[id].byTimeRangeRetrievalStatus
                      = packetStores[id].byTimeRangeRetrievalStatus
                 /\ packetStores'[id].openRetrievalStatus = packetStores[id].openRetrievalStatus
      BY <1>2, <3>1 DEF StorageDisabled
    <3> QED
      BY <1>2, <3>1, Zenon DEF Mode, Exists
  <2>2. recordingMapped' = recordingMapped \ Stores(ids)
    BY <1>2 DEF recordingMapped, StorageDisabled
  <2>3. UNCHANGED modeMapped
    BY <2>1 DEF modeMapped
  <2>4. Lifecycle!Disable(Stores(ids)) /\ Stores(ids) \in SUBSET Ids
    BY <2>2, <2>3 DEF Lifecycle!Disable
  <2> QED
    BY <2>4
<1>3. ASSUME NEW id \in Ids, EnableStorageFunction(id)
      PROVE  \E S \in SUBSET Ids : Lifecycle!Enable(S)
  <2>1. \E ids \in { {}, {id} } :
          /\ DOMAIN packetStores' = DOMAIN packetStores
          /\ \A i \in DOMAIN packetStores :
               packetStores'[i] = IF i \in ids THEN StorageEnabled(packetStores[i])
                                  ELSE packetStores[i]
    BY <1>3 DEF EnableStorageFunction, Apply, Accept, Exists
  <2> QED
    BY <2>1, <1>1
<1>4. ASSUME NEW id \in Ids, DisableStorageFunction(id)
      PROVE  \E S \in SUBSET Ids : Lifecycle!Disable(S)
  <2>1. \E ids \in { {}, {id} } :
          /\ DOMAIN packetStores' = DOMAIN packetStores
          /\ \A i \in DOMAIN packetStores :
               packetStores'[i] = IF i \in ids THEN StorageDisabled(packetStores[i])
                                  ELSE packetStores[i]
    BY <1>4 DEF DisableStorageFunction, Apply, Accept, Exists
  <2> QED
    BY <2>1, <1>2
<1>5. ASSUME EnableStorageFunctionOfAll
      PROVE  \E S \in SUBSET Ids : Lifecycle!Enable(S)
  BY <1>5, <1>1 DEF EnableStorageFunctionOfAll, ApplyToAll, Accept
<1>6. ASSUME DisableStorageFunctionOfAll
      PROVE  \E S \in SUBSET Ids : Lifecycle!Disable(S)
  BY <1>6, <1>2 DEF DisableStorageFunctionOfAll, ApplyToAll, Accept
<1> QED
  BY <1>3, <1>4, <1>5, <1>6 DEF StorageTelecommand

(* Abort and suspension end a retrieval of the stores that have it, resumption  *)
(* starts one of those that are idle, and the others keep their mode.           *)
LEMMA ModesOf ==
  ASSUME IInv, GivenExclusive, NEW id \in DOMAIN packetStores
  PROVE  /\ Mode(id) = "ByTimeRange" <=> ByTimeRange(packetStores[id])
         /\ Mode(id) = "Open" <=> Open(packetStores[id])
         /\ Mode(id) = "Idle" <=> ~ByTimeRange(packetStores[id]) /\ ~Open(packetStores[id])
BY DEF IInv, RetrievalExclusive, Mode, Exists, ByTimeRange, Open

TurnedOn(ids, Do(_)) == 
  /\ DOMAIN packetStores' = DOMAIN packetStores
  /\ \A id \in DOMAIN packetStores :
       packetStores'[id] = IF id \in ids THEN Do(packetStores[id]) ELSE packetStores[id]

\* TC[15,17] is the abstract Abort of the stores retrieved by time range.
LEMMA AbortRefines ==
  ASSUME IInv, GivenExclusive, NEW ids, TurnedOn(ids, ByTimeRangeAborted)
  PROVE  \E S \in SUBSET Ids : Lifecycle!Abort(S)
<1> DEFINE S == { id \in DOMAIN packetStores : id \in ids /\ Mode(id) = "ByTimeRange" }
<1>1. S \in SUBSET Ids /\ \A id \in S : Mode(id) = "ByTimeRange"
  BY DEF IInv, TypeOK
<1>2. \A id \in Ids : Mode(id)' = IF id \in S THEN "Idle" ELSE Mode(id)
  BY DEF IInv, TypeOK, RetrievalExclusive, PacketStore, TurnedOn, ByTimeRangeAborted, Mode, Exists
<1>3. UNCHANGED recordingMapped
  BY DEF IInv, TypeOK, PacketStore, TurnedOn, ByTimeRangeAborted, recordingMapped
<1>4. Lifecycle!Abort(S)
  BY <1>1, <1>2, <1>3, MoveModes DEF Lifecycle!Abort
<1> QED
  BY <1>1, <1>4

\* TC[15,16] is the abstract Suspend of the stores retrieved openly.
LEMMA SuspendRefines ==
  ASSUME IInv, GivenExclusive, NEW ids, TurnedOn(ids, Suspended)
  PROVE  \E S \in SUBSET Ids : Lifecycle!Suspend(S)
<1> DEFINE S == { id \in DOMAIN packetStores : id \in ids /\ Mode(id) = "Open" }
<1>1. S \in SUBSET Ids /\ \A id \in S : Mode(id) = "Open"
  BY DEF IInv, TypeOK
<1>2. \A id \in Ids : Mode(id)' = IF id \in S THEN "Idle" ELSE Mode(id)
  <2>1. ASSUME NEW id \in DOMAIN packetStores
        PROVE  /\ packetStores'[id].byTimeRangeRetrievalStatus
                    = packetStores[id].byTimeRangeRetrievalStatus
               /\ packetStores'[id].openRetrievalStatus
                    = IF id \in ids THEN "Suspended" ELSE packetStores[id].openRetrievalStatus
               /\ packetStores[id].openRetrievalStatus \in { "Suspended", "InProgress" }
    BY DEF IInv, TypeOK, PacketStore, TurnedOn, Suspended
  <2>2. DOMAIN packetStores' = DOMAIN packetStores
    BY DEF TurnedOn
  <2> QED
    BY <2>1, <2>2 DEF IInv, RetrievalExclusive, Mode, Exists
<1>3. UNCHANGED recordingMapped
  BY DEF IInv, TypeOK, PacketStore, TurnedOn, Suspended, recordingMapped
<1>4. Lifecycle!Suspend(S)
  BY <1>1, <1>2, <1>3, MoveModes DEF Lifecycle!Suspend
<1> QED
  BY <1>1, <1>4

\* TC[15,15] is the abstract Resume of the idle stores it names.
LEMMA ResumeRefines ==
  ASSUME IInv, GivenExclusive, NEW ids, TurnedOn(ids, Resumed), 
         \A id \in ids \cap DOMAIN packetStores : ~ByTimeRange(packetStores[id])
  PROVE  \E S \in SUBSET Ids : Lifecycle!Resume(S)
<1> DEFINE S == { id \in DOMAIN packetStores : id \in ids /\ Mode(id) = "Idle" }
<1>1. S \in SUBSET Ids /\ \A id \in S : Mode(id) = "Idle"
  BY DEF IInv, TypeOK
<1>2. \A id \in Ids : Mode(id)' = IF id \in S THEN "Open" ELSE Mode(id)
  <2>1. \A id \in DOMAIN packetStores :
          /\ ByTimeRange(Resumed(packetStores[id])) = ByTimeRange(packetStores[id])
          /\ Open(Resumed(packetStores[id]))
    BY DEF IInv, TypeOK, PacketStore, Resumed, ByTimeRange, Open
  <2>2. SUFFICES ASSUME NEW id \in DOMAIN packetStores
                 PROVE  Mode(id)' = IF id \in S THEN "Open" ELSE Mode(id)
    BY DEF Mode, Exists, TurnedOn
  <2>3. CASE id \in ids
    <3>1. packetStores'[id] = Resumed(packetStores[id]) /\ ~ByTimeRange(packetStores[id])
      BY <2>3 DEF TurnedOn
    <3>2. Mode(id)' = "Open"
      BY <2>1, <3>1 DEF Mode, Exists, TurnedOn, ByTimeRange, Open
    <3>3. Mode(id) \in {"Idle", "Open"}
      BY <3>1 DEF Mode, Exists, ByTimeRange
    <3> QED
      BY <2>3, <3>2, <3>3
  <2>4. CASE id \notin ids
    BY <2>4 DEF TurnedOn, Mode, Exists
  <2> QED
    BY <2>3, <2>4
<1>3. UNCHANGED recordingMapped
  BY DEF IInv, TypeOK, PacketStore, TurnedOn, Resumed, recordingMapped
<1>4. Lifecycle!Resume(S)
  BY <1>1, <1>2, <1>3, MoveModes DEF Lifecycle!Resume
<1> QED
  BY <1>1, <1>4

\* TC[15,9] is the abstract Start, or refused.
LEMMA StartRefines ==
  ASSUME IInv, GivenExclusive, NEW id \in Ids, NEW start, NEW end, StartByTimeRangeRetrieval(id, start, end)
  PROVE  FlagsKept \/ Lifecycle!Start(id)
<1>1. CASE packetStores' = packetStores
  BY <1>1 DEF FlagsKept, SameFlags
<1>2. CASE packetStores' # packetStores
  <2> DEFINE new == [packetStores[id] EXCEPT !.byTimeRangeRetrievalStatus = TRUE,
                                             !.retrievalStartTime = start,
                                             !.retrievalEndTime = end]
  <2>1. /\ id \in DOMAIN packetStores
        /\ ~ByTimeRange(packetStores[id]) /\ ~Open(packetStores[id])
        /\ packetStores' = [packetStores EXCEPT ![id] = new]
    BY <1>2 DEF StartByTimeRangeRetrieval, Apply, StartByTimeRangeRetrievalError, Exists,
                NoError, ByTimeRange, Open
  <2>2. packetStores[id] \in PacketStore
    BY <2>1 DEF IInv, TypeOK
  <2>3. /\ new.byTimeRangeRetrievalStatus = TRUE
        /\ new.openRetrievalStatus = packetStores[id].openRetrievalStatus
        /\ new.storageStatus = packetStores[id].storageStatus
    BY <2>2 DEF PacketStore
  <2> HIDE DEF new
  <2>4. Mode(id) = "Idle"
    BY <2>1, ModesOf
  <2>5. \A i \in Ids : Mode(i)' = IF i \in {id} THEN "ByTimeRange" ELSE Mode(i)
    BY <2>1, <2>3 DEF Mode, Exists, Open
  <2>6. UNCHANGED recordingMapped
    BY <2>1, <2>3 DEF recordingMapped
  <2>7. Lifecycle!Move({id}, "Idle", "ByTimeRange")
    BY <2>4, <2>5, MoveModes
  <2> QED
    BY <2>6, <2>7 DEF Lifecycle!Start
<1> QED
  BY <1>1, <1>2

\* Every retrieval telecommand is one abstract step, or a stutter.
LEMMA RetrievalRefines ==
  ASSUME IInv, GivenExclusive, RetrievalTelecommand
  PROVE  \/ FlagsKept
         \/ \E S \in SUBSET Ids : \/ Lifecycle!Abort(S) \/ Lifecycle!Suspend(S)
                                  \/ Lifecycle!Resume(S)
         \/ \E id \in Ids : Lifecycle!Start(id)
<1>1. ASSUME NEW id \in Ids, AbortByTimeRangeRetrieval(id)
      PROVE  TurnedOn({id}, ByTimeRangeAborted)
  BY <1>1 DEF AbortByTimeRangeRetrieval, Apply, Accept, Exists, TurnedOn
<1>2. ASSUME AbortByTimeRangeRetrievalOfAll
      PROVE  TurnedOn(DOMAIN packetStores, ByTimeRangeAborted)
  BY <1>2 DEF AbortByTimeRangeRetrievalOfAll, ApplyToAll, Accept, TurnedOn
<1>3. ASSUME NEW id \in Ids, SuspendOpenRetrieval(id)
      PROVE  TurnedOn({id}, Suspended)
  BY <1>3 DEF SuspendOpenRetrieval, Apply, Accept, Exists, TurnedOn
<1>4. ASSUME SuspendOpenRetrievalOfAll
      PROVE  TurnedOn(DOMAIN packetStores, Suspended)
  BY <1>4 DEF SuspendOpenRetrievalOfAll, ApplyToAll, Accept, TurnedOn
<1> DEFINE mayResume == { id \in DOMAIN packetStores : ResumeError(packetStores[id]) = NoError }
<1>5. \A id \in mayResume : ~ByTimeRange(packetStores[id])
  BY DEF ResumeError, NoError, ByTimeRange
<1>6. ASSUME NEW id \in Ids, ResumeOpenRetrieval(id)
      PROVE  TurnedOn({id} \cap mayResume, Resumed)
  BY <1>6 DEF ResumeOpenRetrieval, Apply, Exists, TurnedOn
<1>7. ASSUME ResumeOpenRetrievalOfAll
      PROVE  TurnedOn(mayResume, Resumed)
  BY <1>7 DEF ResumeOpenRetrievalOfAll, ApplyToAll, TurnedOn
<1>8. ASSUME NEW id \in Ids, NEW tag, ChangeOpenRetrievalStartTimeTag(id, tag)
      PROVE  FlagsKept
  <2> DEFINE new == [packetStores[id] EXCEPT !.openRetrievalStartTimeTag = tag]
  <2>1. Exists(id) => SameFlags(packetStores[id], new)
    BY SameFlagsFields DEF IInv, TypeOK, Exists
  <2>2. \/ packetStores' = packetStores
        \/ Exists(id) /\ packetStores' = [packetStores EXCEPT ![id] = new]
    BY <1>8 DEF ChangeOpenRetrievalStartTimeTag, Apply
  <2> QED
    BY <2>1, <2>2, OneStoreFlagsKept DEF Exists
<1>9. ASSUME NEW tag, ChangeOpenRetrievalStartTimeTagOfAll(tag)
      PROVE  FlagsKept
  BY <1>9, SameFlagsFields DEF ChangeOpenRetrievalStartTimeTagOfAll, ApplyToAll, FlagsKept,
                               IInv, TypeOK
<1> QED
  BY <1>1, <1>2, <1>3, <1>4, <1>5, <1>6, <1>7, <1>8, <1>9,
     AbortRefines, SuspendRefines, ResumeRefines, StartRefines DEF RetrievalTelecommand

\* Telecommands on the content are stutters of the abstract service.
LEMMA ContentRefines ==
  ASSUME IInv, ContentTelecommand
  PROVE  FlagsKept
<1>1. \A id \in DOMAIN packetStores : packetStores[id] \in PacketStore
  BY DEF IInv, TypeOK
<1>2. \A limit : \A id \in DOMAIN packetStores :
        SameFlags(packetStores[id], ContentUntilDeleted(packetStores[id], limit))
  BY <1>1, SameFlagsFields DEF ContentUntilDeleted
<1>3. ASSUME NEW limit, NEW id \in Ids, DeletePacketStoreContent(id, limit)
      PROVE  FlagsKept
  <2> DEFINE new == ContentUntilDeleted(packetStores[id], limit)
  <2>1. \/ packetStores' = packetStores
        \/ Exists(id) /\ packetStores' = [packetStores EXCEPT ![id] = new]
    BY <1>3 DEF DeletePacketStoreContent, Apply
  <2> QED
    BY <1>2, <2>1, OneStoreFlagsKept DEF Exists
<1>4. ASSUME NEW limit, DeletePacketStoreContentOfAll(limit)
      PROVE  FlagsKept
  BY <1>1, <1>2, <1>4, SameFlagsFields DEF DeletePacketStoreContentOfAll, ApplyToAll, FlagsKept
<1>5. ASSUME NEW to, NEW copies, Exists(to),
             packetStores' = [packetStores EXCEPT ![to].storedTelemetryPackets = @ \o copies]
      PROVE  FlagsKept
  <2> DEFINE packets == packetStores[to].storedTelemetryPackets \o copies
             new == [packetStores[to] EXCEPT !.storedTelemetryPackets = packets]
  <2>1. packetStores' = [packetStores EXCEPT ![to] = new]
    BY <1>5
  <2>2. SameFlags(packetStores[to], new)
    BY <1>1, <1>5, SameFlagsFields DEF Exists
  <2> QED
    BY <1>5, <2>1, <2>2, OneStoreFlagsKept DEF Exists
<1>6. packetStores' = packetStores => FlagsKept
  BY <1>1, SameFlagsFields DEF FlagsKept
<1>7. ASSUME NEW from \in Ids, NEW to \in Ids,
             \/ \E start, end \in ContentTimes : CopyFromTagToTag(from, to, start, end)
             \/ \E tag \in ContentTimes :
                  CopyAfterTimeTag(from, to, tag) \/ CopyBeforeTimeTag(from, to, tag)
      PROVE  FlagsKept
  <2>1. \/ packetStores' = packetStores
        \/ Exists(to) /\ \E copies :
             packetStores' = [packetStores EXCEPT ![to].storedTelemetryPackets = @ \o copies]
    BY <1>7 DEF CopyFromTagToTag, CopyAfterTimeTag, CopyBeforeTimeTag, CopyPackets, CopyError, NoError
  <2> QED
    BY <1>5, <1>6, <2>1
<1> QED
  BY <1>3, <1>4, <1>7 DEF ContentTelecommand

\* A new idle store is the abstract Create.
LEMMA InsertRefines ==
  ASSUME IInv, NEW id \in Ids, NEW store \in PacketStore, ~Exists(id),
         ~ByTimeRange(store), ~Open(store), store.storageStatus = FALSE,
         packetStores' = Insert(id, store)
  PROVE  Lifecycle!Create(id)
<1>1. /\ DOMAIN packetStores' = DOMAIN packetStores \cup {id}
      /\ packetStores'[id] = store
      /\ \A i \in DOMAIN packetStores : packetStores'[i] = packetStores[i]
  BY DEF Insert, Exists
<1>2. \A i \in Ids : Mode(i)' = IF i \in {id} THEN "Idle" ELSE Mode(i)
  BY <1>1 DEF Mode, Exists, ByTimeRange, Open
<1>3. UNCHANGED recordingMapped
  BY <1>1 DEF recordingMapped, Exists
<1>4. Lifecycle!Move({id}, "Absent", "Idle")
  BY <1>2, MoveModes DEF Mode
<1> QED
  BY <1>3, <1>4 DEF Lifecycle!Create

\* TC[15,20] is the abstract Create, or a stutter.
LEMMA CreateRefines ==
  ASSUME IInv, NEW id \in Ids, NEW size \in Sizes, NEW type \in Types, NEW channel \in VirtualChannels,
         CreatePacketStores(id, size, type, channel)
  PROVE  FlagsKept \/ Lifecycle!Create(id)
<1> DEFINE store == NewPacketStore(size, type, channel)
<1>1. packetStores' = packetStores => FlagsKept
  BY SameFlagsFields DEF FlagsKept, SameFlags
<1>2. packetStores' = packetStores \/ (~Exists(id) /\ packetStores' = Insert(id, store))
  BY DEF CreatePacketStores, CreatePacketStoreError, NoError
<1>3. /\ store \in PacketStore /\ ~ByTimeRange(store) /\ ~Open(store)
      /\ store.storageStatus = FALSE
  BY NewPacketStoreType, ConstantsAssumption DEF NewPacketStore
<1> QED
  BY <1>1, <1>2, <1>3, InsertRefines

\* addPacketStore is the abstract Give, or a stutter.
LEMMA AddPacketStoreRefines ==
  ASSUME IInv, GivenExclusive, NEW id \in Ids, NEW store \in GivenStores, AddPacketStore(id, store)
  PROVE  FlagsKept \/ \E to \in Lifecycle!Modes, records \in BOOLEAN : Lifecycle!Give(id, to, records)
<1>1. packetStores' = packetStores => FlagsKept
  BY DEF FlagsKept, SameFlags
<1>2. packetStores' = packetStores \/ (~Exists(id) /\ packetStores' = Insert(id, store))
  BY DEF AddPacketStore, Overflow
<1>3. CASE ~Exists(id) /\ packetStores' = Insert(id, store)
  <2> DEFINE to == IF ByTimeRange(store) THEN "ByTimeRange" ELSE IF Open(store) THEN "Open" ELSE "Idle"
  <2>1. store \in PacketStore /\ ~(ByTimeRange(store) /\ Open(store))
    BY GivenStoresAssumption DEF GivenExclusive, ByTimeRange, Open
  <2>2. /\ DOMAIN packetStores' = DOMAIN packetStores \cup {id}
        /\ packetStores'[id] = store
        /\ \A i \in DOMAIN packetStores : packetStores'[i] = packetStores[i]
    BY <1>3 DEF Insert, Exists
  <2>3. \A i \in Ids : Mode(i)' = IF i \in {id} THEN to ELSE Mode(i)
    <3>1. Mode(id)' = to
      BY <2>1, <2>2 DEF Mode, Exists, ByTimeRange, Open
    <3>2. \A i \in Ids \ {id} : Mode(i)' = Mode(i)
      BY <2>2 DEF Mode, Exists
    <3> QED
      BY <3>1, <3>2
  <2>4. recordingMapped' = IF store.storageStatus THEN recordingMapped \cup { id }
                           ELSE recordingMapped
    BY <1>3, <2>2 DEF recordingMapped, Exists
  <2>5. to \in Lifecycle!Modes /\ store.storageStatus \in BOOLEAN
    BY <2>1 DEF Lifecycle!Modes, PacketStore
  <2> HIDE DEF to
  <2>6. Lifecycle!Move({id}, "Absent", to)
    BY <1>3, <2>3, MoveModes DEF Mode
  <2>7. Lifecycle!Give(id, to, store.storageStatus)
    BY <2>4, <2>6 DEF Lifecycle!Give
  <2> QED
    BY <2>5, <2>7
<1> QED
  BY <1>1, <1>2, <1>3

\* TC[15,21] is the abstract Delete of the stores that do not refuse.
LEMMA DeleteRefines ==
  ASSUME IInv, GivenExclusive, NEW ids, DeletePacketStores(ids)
  PROVE  \E S \in SUBSET Ids : Lifecycle!Delete(S)
<1> DEFINE S == { id \in DOMAIN packetStores :
                    id \in ids /\ DeletionError(packetStores[id]) = NoError }
<1>1. \A id \in S : /\ ~packetStores[id].storageStatus
                    /\ ~ByTimeRange(packetStores[id]) /\ ~Open(packetStores[id])
  BY DEF DeletionError, NoError, ByTimeRange, Open
<1>2. packetStores' = [id \in DOMAIN packetStores \ S |-> packetStores[id]]
  BY DEF DeletePacketStores
<1>3. S \in SUBSET Ids /\ S \subseteq DOMAIN packetStores
  BY DEF IInv, TypeOK
<1> HIDE DEF S
<1>4. \A id \in S : Mode(id) = "Idle"
  BY <1>1, <1>3, ModesOf
<1>5. \A id \in Ids : Mode(id)' = IF id \in S THEN "Absent" ELSE Mode(id)
  BY <1>2, <1>3 DEF Mode, Exists
<1>6. UNCHANGED recordingMapped
  BY <1>1, <1>2, <1>3 DEF recordingMapped
<1>7. S \cap recordingMapped = {}
  BY <1>1 DEF recordingMapped
<1> QED
  BY <1>3, <1>4, <1>5, <1>6, <1>7, MoveModes DEF Lifecycle!Delete

\* addTelemetryToPacketStore may be a Create.
LEMMA AddTelemetryRefines ==
  ASSUME IInv, NEW id \in Ids, NEW timestamp \in Timestamps, AddTelemetryToPacketStore(id, timestamp)
  PROVE  FlagsKept \/ Lifecycle!Create(id)
<1>0. CASE Overflow
  BY <1>0 DEF Overflow, FlagsKept, SameFlags
<1>1. CASE Exists(id) /\ ~Overflow
  <2> DEFINE packets == Append(packetStores[id].storedTelemetryPackets, timestamp)
             new == [packetStores[id] EXCEPT !.storedTelemetryPackets = packets]
  <2>1. SameFlags(packetStores[id], new)
    BY <1>1, SameFlagsFields DEF IInv, TypeOK, Exists
  <2>2. packetStores' = Insert(id, new)
    BY <1>1 DEF AddTelemetryToPacketStore
  <2>3. \A i \in DOMAIN packetStores : SameFlags(packetStores[i], packetStores[i])
    BY DEF SameFlags
  <2> QED
    BY <1>1, <2>1, <2>2, <2>3 DEF FlagsKept, Insert, Exists
<1>2. CASE ~Exists(id) /\ ~Overflow
  <2> DEFINE fresh == NewPacketStore(0, "Circular", 0)
             packets == Append(fresh.storedTelemetryPackets, timestamp)
             new == [fresh EXCEPT !.storedTelemetryPackets = packets]
  <2>1. fresh \in PacketStore /\ fresh.storageStatus = FALSE /\ ~ByTimeRange(fresh) /\ ~Open(fresh)
    BY NewPacketStoreType DEF NewPacketStore
  <2>2. packets \in Seq(Nat)
    BY <2>1, ConstantsAssumption DEF PacketStore
  <2>3. packetStores' = Insert(id, new)
    BY <1>2 DEF AddTelemetryToPacketStore
  <2> HIDE DEF fresh, packets
  <2>4. new \in PacketStore /\ new.storageStatus = FALSE /\ ~ByTimeRange(new) /\ ~Open(new)
    BY <2>1, <2>2 DEF PacketStore, ByTimeRange, Open
  <2> HIDE DEF new
  <2> QED
    BY <1>2, <2>3, <2>4, InsertRefines
<1> QED
  BY <1>0, <1>1, <1>2

\* Every step is an abstract step or a stutter.
LEMMA NextRefines ==
  ASSUME IInv, GivenExclusive, [Next]_vars
  PROVE  [Lifecycle!Next]_(Lifecycle!vars)
<1>1. UNCHANGED << modeMapped, recordingMapped >> => UNCHANGED Lifecycle!vars
  BY DEF Lifecycle!vars
<1>2. FlagsKept => UNCHANGED Lifecycle!vars
  BY <1>1, FlagsKeptStutters
<1>3. packetStores' = packetStores => FlagsKept
  BY DEF FlagsKept, SameFlags
<1>4. CASE StorageTelecommand
  BY <1>4, StorageRefines DEF Lifecycle!Next
<1>5. CASE RetrievalTelecommand
  BY <1>2, <1>5, RetrievalRefines DEF Lifecycle!Next
<1>6. CASE ContentTelecommand
  BY <1>2, <1>6, ContentRefines
<1>7. CASE ConfigurationTelecommand
  <2>1. ASSUME NEW id \in Ids, ChangeTypeToCircular(id) \/ ChangeTypeToBounded(id)
        PROVE  FlagsKept
    BY <1>3, <2>1, SameFlagsFields, OneStoreFlagsKept
    DEF ChangeTypeToCircular, ChangeTypeToBounded, Apply, Exists, IInv, TypeOK
  <2>2. ASSUME NEW id \in Ids, NEW size, ResizePacketStores(id, size)
        PROVE  FlagsKept
    BY <1>3, <2>2, SameFlagsFields, OneStoreFlagsKept DEF ResizePacketStores, Apply, Exists, IInv, TypeOK
  <2>3. ASSUME NEW id \in Ids, NEW channel, ChangeVirtualChannel(id, channel)
        PROVE  FlagsKept
    BY <1>3, <2>3, SameFlagsFields, OneStoreFlagsKept DEF ChangeVirtualChannel, Apply, Exists, IInv, TypeOK
  <2> QED
    BY <1>2, <1>7, <2>1, <2>2, <2>3, CreateRefines, DeleteRefines
    DEF ConfigurationTelecommand, DeletePacketStore, DeleteAllPacketStores, Lifecycle!Next
<1>8. CASE FlightSoftware
  <2>1. ASSUME ResetPacketStores PROVE Lifecycle!Reset
    BY <2>1 DEF ResetPacketStores, Lifecycle!Reset, modeMapped, recordingMapped, Mode, Exists
  <2> QED
    BY <1>2, <1>8, <2>1, AddPacketStoreRefines, AddTelemetryRefines DEF FlightSoftware, Lifecycle!Next
<1>9. CASE UNCHANGED vars
  BY <1>2, <1>3, <1>9 DEF vars
<1> QED
  BY <1>4, <1>5, <1>6, <1>7, <1>8, <1>9 DEF Next

(* If the flight software adds no store that is in both retrievals, the service *)
(* implements PacketStoreLifecycle: seen from ground, every store is absent,     *)
(* idle, openly retrieved or retrieved by time range, moves between these only   *)
(* as PacketStoreLifecycle allows, and a telecommand removes only a store that   *)
(* is idle and does not record.                                                 *)
THEOREM ImplementsLifecycle ==
  ASSUME GivenExclusive
  PROVE  Spec => RefinesLifecycle
<1>1. Init => Lifecycle!Init
  BY DEF Init, Lifecycle!Init, modeMapped, recordingMapped, Mode, Exists
<1>2. IInv /\ [Next]_vars => [Lifecycle!Next]_(Lifecycle!vars)
  BY NextRefines
<1> QED
  BY <1>1, <1>2, Invariance, PTL DEF Spec, RefinesLifecycle, Lifecycle!Spec
=============================================================================
