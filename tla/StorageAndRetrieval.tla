-------------------------- MODULE StorageAndRetrieval --------------------------
(***************************************************************************)
(* ST[15], the storage and retrieval service (StorageAndRetrievalService),  *)
(* and its packet stores (PacketStore).                                     *)
(*                                                                         *)
(* Most telecommands carry a list of packet stores, or none to mean all.    *)
(* The turns of their loops are independent of each other, so a             *)
(* telecommand that names several stores is a run of steps, one per store;  *)
(* a telecommand that names none is a single step, ...OfAll.                *)
(***************************************************************************)
EXTENDS Integers, SequencesExt

CONSTANTS
  Ids,                  \* identifiers a packet store may have
  MaxPacketStores,      \* ECSSMaxPacketStores
  MaxPackets,           \* ECSSMaxPacketStoreSize, packets a store has room for
  MaxSizeInBytes,       \* ECSSMaxPacketStoreSizeInBytes
  MinVirtualChannel,    \* VirtualChannelLimits.min
  MaxVirtualChannel,    \* VirtualChannelLimits.max
  Timestamps,           \* times the flight software may stamp a packet with
  GivenStores,          \* packet stores the flight software may add
  RetrievalTimes,       \* times the retrieval telecommands may name
  ContentTimes,         \* times TC[15,11] and TC[15,24] may name
  Sizes,                \* sizes a telecommand may name
  Types,                \* packet store types a telecommand may name
  VirtualChannels       \* virtual channels a telecommand may name

ASSUME ConstantsAssumption ==
  /\ IsFiniteSet(Ids)
  /\ MaxPacketStores \in Nat /\ MaxPackets \in Nat /\ MaxSizeInBytes \in Nat
  /\ MinVirtualChannel \in Nat \ {0} /\ MaxVirtualChannel \in Nat
  /\ Timestamps \subseteq Nat
  /\ RetrievalTimes \subseteq Nat /\ ContentTimes \subseteq Nat
  /\ Sizes \subseteq Nat
  /\ Types \subseteq { "Circular", "Bounded" }
  /\ VirtualChannels \subseteq Nat

\* storedTelemetryPackets is abstracted to the packets' time stamps, oldest first.
PacketStore == [storageStatus : BOOLEAN,
                byTimeRangeRetrievalStatus : BOOLEAN,
                openRetrievalStatus : { "Suspended", "InProgress" },
                openRetrievalStartTimeTag : Nat,
                retrievalStartTime : Nat,
                retrievalEndTime : Nat,
                sizeInBytes : Nat,
                packetStoreType : { "Circular", "Bounded" },
                virtualChannel : Nat,
                storedTelemetryPackets : Seq(Nat)]

\* A PacketStore holds no more than fits its queue, whoever made it.
ASSUME GivenStoresAssumption ==
  /\ GivenStores \subseteq PacketStore
  /\ \A store \in GivenStores : Len(store.storedTelemetryPackets) <= MaxPackets

VARIABLES
  packetStores,  \* the packet stores that exist, by identifier
  refused,       \* did the last step report an error to ground?
  undefined,     \* something was put in a full container
  \* What the flight software did, for the properties only:
  latest,        \* time of the packet it handed over last
  chronological  \* has it handed over packets only in the order of their time?

vars == << packetStores, refused, undefined, latest, chronological >>

\* ErrorHandler::reportError sends one TM[1,x] per error; of these the model
\* keeps whether there was any.
NoError == "NoError"
Report(errors) == refused' = (errors \ { NoError } # {})

Exists(id) == id \in DOMAIN packetStores

IsOrdered(packets) == \A i, j \in DOMAIN packets : i < j => packets[i] <= packets[j]

\* The flight software hands over packets, to whichever store.
HandOver(packets) ==
  /\ latest' = Last(<< latest >> \o packets)
  /\ chronological' = (chronological /\ IsOrdered(<< latest >> \o packets))
  /\ UNCHANGED undefined

HandsOverNothing == UNCHANGED << latest, chronological, undefined >>

-----------------------------------------------------------------------------
(* One turn of a handler's loop, and the whole of it when no store is named. *)
(* Err says why the handler refuses a store, Do what it does to it.          *)

Apply(id, Err(_), Do(_)) ==
  /\ \/ /\ ~Exists(id)
        /\ Report({ "NonExistingPacketStore" })
        /\ UNCHANGED packetStores
     \/ /\ Exists(id)
        /\ Err(packetStores[id]) # NoError
        /\ Report({ Err(packetStores[id]) })
        /\ UNCHANGED packetStores
     \/ /\ Exists(id)
        /\ Err(packetStores[id]) = NoError
        /\ Report({})
        /\ packetStores' = [packetStores EXCEPT ![id] = Do(packetStores[id])]
  /\ HandsOverNothing

ApplyToAll(Err(_), Do(_)) ==
  /\ Report({ Err(packetStores[id]) : id \in DOMAIN packetStores })
  /\ packetStores' = [id \in DOMAIN packetStores |->
                        IF Err(packetStores[id]) = NoError THEN Do(packetStores[id])
                        ELSE packetStores[id]]
  /\ HandsOverNothing

Accept(store) == NoError

-----------------------------------------------------------------------------
(* TC[15,1] and TC[15,2]: the storage function.                             *)

StorageEnabled(store) == [store EXCEPT !.storageStatus = TRUE]
StorageDisabled(store) == [store EXCEPT !.storageStatus = FALSE]

EnableStorageFunction(id) == Apply(id, Accept, StorageEnabled)
EnableStorageFunctionOfAll == ApplyToAll(Accept, StorageEnabled)
DisableStorageFunction(id) == Apply(id, Accept, StorageDisabled)
DisableStorageFunctionOfAll == ApplyToAll(Accept, StorageDisabled)

(* TC[15,9] and TC[15,17]: retrieval by time range.                         *)

StartByTimeRangeRetrievalError(store, start, end) ==
  IF store.openRetrievalStatus = "InProgress" THEN "GetPacketStoreWithOpenRetrievalInProgress"
  ELSE IF store.byTimeRangeRetrievalStatus THEN "ByTimeRangeRetrievalAlreadyEnabled"
  ELSE IF start >= end THEN "InvalidTimeWindow"
  ELSE NoError

StartByTimeRangeRetrieval(id, start, end) ==
  Apply(id, LAMBDA s : StartByTimeRangeRetrievalError(s, start, end),
        LAMBDA s : [s EXCEPT !.byTimeRangeRetrievalStatus = TRUE,
                             !.retrievalStartTime = start,
                             !.retrievalEndTime = end])

ByTimeRangeAborted(store) == [store EXCEPT !.byTimeRangeRetrievalStatus = FALSE]

AbortByTimeRangeRetrieval(id) == Apply(id, Accept, ByTimeRangeAborted)
AbortByTimeRangeRetrievalOfAll == ApplyToAll(Accept, ByTimeRangeAborted)

(* TC[15,14], TC[15,15] and TC[15,16]: open retrieval.                      *)

\* A slip for mutation: the tag of a running open retrieval may be changed.
ChangeTimeTagErrorNever(store) == NoError

ChangeTimeTagError(store) ==
  IF store.openRetrievalStatus = "InProgress" THEN "SetPacketStoreWithOpenRetrievalInProgress"
  ELSE NoError

ChangeOpenRetrievalStartTimeTag(id, tag) ==
  Apply(id, ChangeTimeTagError, LAMBDA s : [s EXCEPT !.openRetrievalStartTimeTag = tag])
ChangeOpenRetrievalStartTimeTagOfAll(tag) ==
  ApplyToAll(ChangeTimeTagError, LAMBDA s : [s EXCEPT !.openRetrievalStartTimeTag = tag])

\* A slip for mutation: TC[15,15] does not look at the other retrieval.
ResumeErrorNever(store) == NoError

ResumeError(store) ==
  IF store.byTimeRangeRetrievalStatus THEN "SetPacketStoreWithByTimeRangeRetrieval"
  ELSE NoError

Resumed(store) == [store EXCEPT !.openRetrievalStatus = "InProgress"]
Suspended(store) == [store EXCEPT !.openRetrievalStatus = "Suspended"]

ResumeOpenRetrieval(id) == Apply(id, ResumeError, Resumed)
ResumeOpenRetrievalOfAll == ApplyToAll(ResumeError, Resumed)
SuspendOpenRetrieval(id) == Apply(id, Accept, Suspended)
SuspendOpenRetrievalOfAll == ApplyToAll(Accept, Suspended)

-----------------------------------------------------------------------------
(* TC[15,11]: deleteContentUntil pops packets from the front of the queue   *)
(* until it is empty or its first packet is later than the time limit.      *)

LeastOf(S) == CHOOSE n \in S : \A m \in S : n <= m

ContentUntilDeleted(store, limit) ==
  LET packets == store.storedTelemetryPackets
      popped == LeastOf({ n \in 0 .. Len(packets) : n < Len(packets) => packets[n + 1] > limit })
  IN [store EXCEPT !.storedTelemetryPackets = SubSeq(packets, popped + 1, Len(packets))]

\* A slip for mutation: the open retrieval is forgotten.
DeleteContentErrorByTimeRangeOnly(store) ==
  IF store.byTimeRangeRetrievalStatus THEN "SetPacketStoreWithByTimeRangeRetrieval" ELSE NoError

DeleteContentError(store) ==
  IF store.byTimeRangeRetrievalStatus THEN "SetPacketStoreWithByTimeRangeRetrieval"
  ELSE IF store.openRetrievalStatus = "InProgress" THEN "SetPacketStoreWithOpenRetrievalInProgress"
  ELSE NoError

DeletePacketStoreContent(id, limit) ==
  Apply(id, DeleteContentError, LAMBDA s : ContentUntilDeleted(s, limit))
DeletePacketStoreContentOfAll(limit) ==
  ApplyToAll(DeleteContentError, LAMBDA s : ContentUntilDeleted(s, limit))

-----------------------------------------------------------------------------
(* TC[15,20] and TC[15,21]: packet stores come and go.                      *)

WithinVirtualChannelLimits(channel) == channel \in MinVirtualChannel .. MaxVirtualChannel

NewPacketStore(size, type, channel) ==
  [storageStatus |-> FALSE,
   byTimeRangeRetrievalStatus |-> FALSE,
   openRetrievalStatus |-> "Suspended",
   openRetrievalStartTimeTag |-> 0,
   retrievalStartTime |-> 0,
   retrievalEndTime |-> 0,
   sizeInBytes |-> size,
   packetStoreType |-> type,
   virtualChannel |-> channel,
   storedTelemetryPackets |-> << >>]

\* A slip for mutation: one packet store too many.
AtMaxPacketStoresOffByOne == Cardinality(DOMAIN packetStores) > MaxPacketStores

AtMaxPacketStores == Cardinality(DOMAIN packetStores) >= MaxPacketStores

Insert(id, store) ==
  [i \in DOMAIN packetStores \cup { id } |-> IF i = id THEN store ELSE packetStores[i]]

CreatePacketStoreError(id, channel) ==
  IF AtMaxPacketStores THEN "MaxNumberOfPacketStoresReached"
  ELSE IF Exists(id) THEN "AlreadyExistingPacketStore"
  ELSE IF ~WithinVirtualChannelLimits(channel) THEN "InvalidVirtualChannel"
  ELSE NoError

CreatePacketStores(id, size, type, channel) ==
  LET error == CreatePacketStoreError(id, channel)
  IN /\ Report({ error })
     /\ packetStores' = IF error = NoError
                        THEN Insert(id, NewPacketStore(size, type, channel))
                        ELSE packetStores
     /\ HandsOverNothing

\* A slip for mutation: the storage function is forgotten.
DeletionErrorRetrievalOnly(store) ==
  IF store.byTimeRangeRetrievalStatus THEN "DeletionOfPacketWithByTimeRangeRetrieval"
  ELSE IF store.openRetrievalStatus = "InProgress"
       THEN "DeletionOfPacketWithOpenRetrievalInProgress"
  ELSE NoError

DeletionError(store) ==
  IF store.storageStatus THEN "DeletionOfPacketStoreWithStorageStatusEnabled"
  ELSE IF store.byTimeRangeRetrievalStatus THEN "DeletionOfPacketWithByTimeRangeRetrieval"
  ELSE IF store.openRetrievalStatus = "InProgress"
       THEN "DeletionOfPacketWithOpenRetrievalInProgress"
  ELSE NoError

\* Named stores that do not exist are reported, those that refuse are kept.
DeletePacketStores(ids) ==
  LET kept == { id \in DOMAIN packetStores :
                  id \in ids => DeletionError(packetStores[id]) # NoError }
  IN /\ Report({ DeletionError(packetStores[id]) : id \in ids \cap DOMAIN packetStores }
               \cup { "NonExistingPacketStore" : id \in ids \ DOMAIN packetStores })
     /\ packetStores' = [id \in kept |-> packetStores[id]]
     /\ HandsOverNothing

DeletePacketStore(id) == DeletePacketStores({ id })
DeleteAllPacketStores == DeletePacketStores(DOMAIN packetStores)

-----------------------------------------------------------------------------
(* TC[15,24]: copying a time window of one store to another.                *)
(* front() and back() of an empty queue are whatever the memory holds, so   *)
(* the outcome of the window check on an empty source is open.              *)

\* A slip for mutation: the destination need not be empty.
CopyErrorWithoutDestination(from, to, windowIsValid) ==
  IF ~Exists(from) \/ ~Exists(to) THEN "NonExistingPacketStore"
  ELSE IF ~windowIsValid THEN "InvalidTimeWindow"
  ELSE NoError

CopyError(from, to, windowIsValid) ==
  IF ~Exists(from) \/ ~Exists(to) THEN "NonExistingPacketStore"
  ELSE IF ~windowIsValid THEN "InvalidTimeWindow"
  ELSE IF packetStores[to].storedTelemetryPackets # << >> THEN "DestinationPacketStoreNotEmtpy"
  ELSE NoError

\* A slip for mutation: a packet at the very start of the window is missed.
After(packets, start) == { i \in DOMAIN packets : packets[i] > start }

\* The copies the loop over the source makes: it passes over packets before
\* start and stops at the first one after end; chosen are the indexes it copies.
\* CopiesOf lists them in the order of the source (there is exactly one such list).
NotBefore(packets, start) == { i \in DOMAIN packets : packets[i] >= start }
NoneAfter(packets, end) == { i \in DOMAIN packets : \A j \in 1 .. i : packets[j] <= end }

CopiesOf(packets, chosen) ==
  LET places == 1 .. Cardinality(chosen)
  IN { [k \in places |-> packets[source[k]]] : source \in
         { f \in [places -> chosen] : \A k, l \in places : k < l => f[k] < f[l] } }

CopyPackets(from, to, windowIsValid, Missed(_), Chosen(_)) ==
  LET error == CopyError(from, to, windowIsValid)
      packets == packetStores[from].storedTelemetryPackets
      Refuse(reason) == Report({ reason }) /\ UNCHANGED packetStores
  IN /\ \/ error # NoError /\ Refuse(error)
        \/ /\ error = NoError
           /\ packets # << >> => Missed(packets)
           /\ Refuse("CopyOfPacketsFailed")
        \/ /\ error = NoError
           /\ packets # << >> => ~Missed(packets)
           /\ Report({})
           /\ \E copies \in CopiesOf(packets, Chosen(packets)) :
                packetStores' = [packetStores EXCEPT
                                   ![to].storedTelemetryPackets = @ \o copies]
     /\ HandsOverNothing

CopyFromTagToTag(from, to, start, end) ==
  CopyPackets(from, to, start < end,
              LAMBDA packets : end < Head(packets) \/ start > Last(packets),
              LAMBDA packets : NotBefore(packets, start) \cap NoneAfter(packets, end))

CopyAfterTimeTag(from, to, start) ==
  CopyPackets(from, to, TRUE,
              LAMBDA packets : start > Last(packets),
              LAMBDA packets : NotBefore(packets, start))

CopyBeforeTimeTag(from, to, end) ==
  CopyPackets(from, to, TRUE,
              LAMBDA packets : end < Head(packets),
              LAMBDA packets : NoneAfter(packets, end))

-----------------------------------------------------------------------------
(* TC[15,25] to TC[15,28]: the configuration of a packet store.             *)

ResizeError(store, size) ==
  IF size >= MaxSizeInBytes THEN "UnableToHandlePacketStoreSize"
  ELSE IF store.storageStatus THEN "GetPacketStoreWithStorageStatusEnabled"
  ELSE IF store.openRetrievalStatus = "InProgress" THEN "GetPacketStoreWithOpenRetrievalInProgress"
  ELSE IF store.byTimeRangeRetrievalStatus THEN "GetPacketStoreWithByTimeRangeRetrieval"
  ELSE NoError

ResizePacketStores(id, size) ==
  Apply(id, LAMBDA s : ResizeError(s, size), LAMBDA s : [s EXCEPT !.sizeInBytes = size])

ChangeTypeError(store) ==
  IF store.storageStatus THEN "GetPacketStoreWithStorageStatusEnabled"
  ELSE IF store.byTimeRangeRetrievalStatus THEN "GetPacketStoreWithByTimeRangeRetrieval"
  ELSE IF store.openRetrievalStatus = "InProgress" THEN "GetPacketStoreWithOpenRetrievalInProgress"
  ELSE NoError

ChangeTypeToCircular(id) ==
  Apply(id, ChangeTypeError, LAMBDA s : [s EXCEPT !.packetStoreType = "Circular"])
ChangeTypeToBounded(id) ==
  Apply(id, ChangeTypeError, LAMBDA s : [s EXCEPT !.packetStoreType = "Bounded"])

ChangeVirtualChannelError(store, channel) ==
  IF ~WithinVirtualChannelLimits(channel) THEN "InvalidVirtualChannel"
  ELSE IF store.byTimeRangeRetrievalStatus THEN "GetPacketStoreWithByTimeRangeRetrieval"
  ELSE IF store.openRetrievalStatus = "InProgress" THEN "GetPacketStoreWithOpenRetrievalInProgress"
  ELSE NoError

ChangeVirtualChannel(id, channel) ==
  Apply(id, LAMBDA s : ChangeVirtualChannelError(s, channel),
        LAMBDA s : [s EXCEPT !.virtualChannel = channel])

-----------------------------------------------------------------------------
(* What the flight software calls besides telecommands.                     *)

\* An etl container without room leaves its defined behaviour.
Overflow ==
  /\ undefined' = TRUE
  /\ Report({})
  /\ UNCHANGED << packetStores, latest, chronological >>

MapIsFull == Cardinality(DOMAIN packetStores) = MaxPacketStores

\* addTelemetryToPacketStore looks at nothing: operator[] makes a default store
\* where there is none, the packet has the time the caller says.
AddTelemetryToPacketStore(id, timestamp) ==
  LET store == IF Exists(id) THEN packetStores[id] ELSE NewPacketStore(0, "Circular", 0)
      hasRoom == (Exists(id) \/ ~MapIsFull) /\ Len(store.storedTelemetryPackets) < MaxPackets
  IN \/ ~hasRoom /\ Overflow
     \/ /\ hasRoom
        /\ packetStores' = Insert(id, [store EXCEPT !.storedTelemetryPackets = Append(@, timestamp)])
        /\ Report({})
        /\ HandOver(<< timestamp >>)

\* insert leaves a store that exists alone, but may ask for room before it looks.
AddPacketStore(id, store) ==
  \/ MapIsFull /\ Overflow
  \/ Exists(id) /\ Report({}) /\ UNCHANGED packetStores /\ HandsOverNothing
  \/ /\ ~Exists(id) /\ ~MapIsFull
     /\ packetStores' = Insert(id, store)
     /\ Report({})
     /\ HandOver(store.storedTelemetryPackets)

ResetPacketStores ==
  /\ packetStores' = << >>
  /\ Report({})
  /\ HandsOverNothing

-----------------------------------------------------------------------------
Init ==
  /\ packetStores = << >>
  /\ refused = FALSE /\ undefined = FALSE
  /\ latest = 0 /\ chronological = TRUE

StorageTelecommand ==
  \/ \E id \in Ids : EnableStorageFunction(id) \/ DisableStorageFunction(id)
  \/ EnableStorageFunctionOfAll \/ DisableStorageFunctionOfAll

RetrievalTelecommand ==
  \/ \E id \in Ids, start, end \in RetrievalTimes : StartByTimeRangeRetrieval(id, start, end)
  \/ \E id \in Ids : \/ AbortByTimeRangeRetrieval(id)
                     \/ ResumeOpenRetrieval(id) \/ SuspendOpenRetrieval(id)
  \/ AbortByTimeRangeRetrievalOfAll \/ ResumeOpenRetrievalOfAll \/ SuspendOpenRetrievalOfAll
  \/ \E tag \in RetrievalTimes :
       \/ \E id \in Ids : ChangeOpenRetrievalStartTimeTag(id, tag)
       \/ ChangeOpenRetrievalStartTimeTagOfAll(tag)

ContentTelecommand ==
  \/ \E from, to \in Ids :
       \/ \E start, end \in ContentTimes : CopyFromTagToTag(from, to, start, end)
       \/ \E tag \in ContentTimes : CopyAfterTimeTag(from, to, tag) \/ CopyBeforeTimeTag(from, to, tag)
  \/ \E limit \in ContentTimes :
       \/ \E id \in Ids : DeletePacketStoreContent(id, limit)
       \/ DeletePacketStoreContentOfAll(limit)

ConfigurationTelecommand ==
  \/ \E id \in Ids, size \in Sizes, type \in Types, channel \in VirtualChannels :
       CreatePacketStores(id, size, type, channel)
  \/ \E id \in Ids : DeletePacketStore(id) \/ ChangeTypeToCircular(id) \/ ChangeTypeToBounded(id)
  \/ DeleteAllPacketStores
  \/ \E id \in Ids, size \in Sizes : ResizePacketStores(id, size)
  \/ \E id \in Ids, channel \in VirtualChannels : ChangeVirtualChannel(id, channel)

FlightSoftware ==
  \/ \E id \in Ids, timestamp \in Timestamps : AddTelemetryToPacketStore(id, timestamp)
  \/ \E id \in Ids, store \in GivenStores : AddPacketStore(id, store)
  \/ ResetPacketStores

Next ==
  /\ ~undefined
  /\ \/ ContentTelecommand \/ StorageTelecommand \/ RetrievalTelecommand
     \/ ConfigurationTelecommand \/ FlightSoftware

Spec == Init /\ [][Next]_vars

-----------------------------------------------------------------------------
(* Properties.                                                              *)

\* The types of the variables, and that neither the map of stores outgrows
\* ECSSMaxPacketStores nor a queue ECSSMaxPacketStoreSize: TC[15,20] looks for
\* room before each store it makes, TC[15,24] copies only into an empty queue.
TypeOK ==
  /\ DOMAIN packetStores \subseteq Ids
  /\ packetStores \in [DOMAIN packetStores -> PacketStore]
  /\ Cardinality(DOMAIN packetStores) <= MaxPacketStores
  /\ \A id \in DOMAIN packetStores : Len(packetStores[id].storedTelemetryPackets) <= MaxPackets
  /\ refused \in BOOLEAN /\ undefined \in BOOLEAN
  /\ latest \in Nat /\ chronological \in BOOLEAN

Retrieved(store) == store.byTimeRangeRetrievalStatus \/ store.openRetrievalStatus = "InProgress"

\* A packet store is never retrieved by time range and openly at once: TC[15,9]
\* and TC[15,15] each look at the other's status, also when they name no store.
\* The statuses of a store the flight software adds are its own: it may not add
\* one that is in both retrievals, GivenExclusive.
RetrievalExclusive ==
  \A id \in DOMAIN packetStores :
    ~ ( /\ packetStores[id].byTimeRangeRetrievalStatus
        /\ packetStores[id].openRetrievalStatus = "InProgress" )

GivenExclusive ==
  \A store \in GivenStores :
    ~ (store.byTimeRangeRetrievalStatus /\ store.openRetrievalStatus = "InProgress")

\* The queue of a store runs from old packets to new ones, as the note in
\* PacketStore.hpp asks; deleteContentUntil, the copies and the content summary
\* read its two ends as the oldest and the newest packet. The service does not
\* look at the time of a packet it is handed, so it can promise this only while
\* packets are handed over, to all stores together, in the order of their time;
\* then no copy, deletion or creation in between breaks it.
ContentOrdered ==
  chronological =>
    \A id \in DOMAIN packetStores : IsOrdered(packetStores[id].storedTelemetryPackets)

Configuration(store) == << store.sizeInBytes, store.packetStoreType, store.virtualChannel >>
Window(store) == << store.retrievalStartTime, store.retrievalEndTime >>

\* What a running retrieval works from does not change under it: no step moves
\* the configuration of a store that stays under retrieval, the window of a
\* retrieval by time range or the start tag of an open one.
FrozenWhileRetrieved ==
  [][\A id \in DOMAIN packetStores \cap DOMAIN packetStores' :
       LET old == packetStores[id]
           new == packetStores'[id]
       IN /\ Retrieved(old) /\ Retrieved(new) => Configuration(old) = Configuration(new)
          /\ old.byTimeRangeRetrievalStatus /\ new.byTimeRangeRetrievalStatus
             => Window(old) = Window(new)
          /\ old.openRetrievalStatus = "InProgress" /\ new.openRetrievalStatus = "InProgress"
             => old.openRetrievalStartTimeTag = new.openRetrievalStartTimeTag]_vars

\* A store under retrieval loses none of its packets to a telecommand, neither
\* to a deletion of content nor to a copy into it: its queue only grows at the end.
RetrievedContentKept ==
  [][\A id \in DOMAIN packetStores \cap DOMAIN packetStores' :
       Retrieved(packetStores[id]) =>
         IsPrefix(packetStores[id].storedTelemetryPackets,
                  packetStores'[id].storedTelemetryPackets)]_vars

\* The packets at these places, in their order, and nothing else.
IsSelection(copies, packets, places) ==
  \E place \in Bijection(1 .. Len(copies), places) :
    /\ \A k, l \in DOMAIN copies : k < l => place[k] < place[l]
    /\ \A k \in DOMAIN copies : copies[k] = packets[place[k]]

\* A copy that reports no error leaves in the destination packets of the window
\* only, each once and in the order of the source, and touches no other store;
\* from a queue in order of time it misses none, in spite of the early break.
CopyExact ==
  [][\A from, to \in Ids, start, end \in ContentTimes :
       ~refused' /\ CopyFromTagToTag(from, to, start, end) =>
         LET packets == packetStores[from].storedTelemetryPackets
             copies == packetStores'[to].storedTelemetryPackets
             window == { i \in DOMAIN packets : packets[i] \in start .. end }
         IN /\ \E places \in SUBSET window :
                 /\ IsSelection(copies, packets, places)
                 /\ IsOrdered(packets) => places = window
            /\ packetStores' = [packetStores EXCEPT ![to].storedTelemetryPackets = copies]]_vars

-----------------------------------------------------------------------------
(* The life of a packet store, PacketStoreLifecycle, under a mapping.       *)

Mode(id) ==
  IF ~Exists(id) THEN "Absent"
  ELSE IF packetStores[id].byTimeRangeRetrievalStatus
       THEN IF packetStores[id].openRetrievalStatus = "InProgress" THEN "Both" ELSE "ByTimeRange"
       ELSE IF packetStores[id].openRetrievalStatus = "InProgress" THEN "Open" ELSE "Idle"

modeMapped == [id \in Ids |-> Mode(id)]
recordingMapped == { id \in DOMAIN packetStores : packetStores[id].storageStatus }

Lifecycle == INSTANCE PacketStoreLifecycle WITH mode <- modeMapped, recording <- recordingMapped

\* Every behaviour of the service is one of PacketStoreLifecycle: each step moves
\* the stores between modes the way the abstract service may.
RefinesLifecycle == Lifecycle!Spec

=============================================================================
