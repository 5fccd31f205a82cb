----------------------- MODULE MC_StorageAndRetrieval -----------------------
(***************************************************************************)
(* Instances of StorageAndRetrieval for TLC.                                *)
(***************************************************************************)
EXTENDS StorageAndRetrieval

\* Stores of the flight software: the default one, on virtual channel 0, which no
\* telecommand may name, and two already in one of the retrievals.
Default == NewPacketStore(0, "Circular", 0)
OpenlyRetrieved == [Default EXCEPT !.storageStatus = TRUE, !.openRetrievalStatus = "InProgress"]
RetrievedByTimeRange == [Default EXCEPT !.byTimeRangeRetrievalStatus = TRUE, !.virtualChannel = 1]

RetrievedStores == { Default, OpenlyRetrieved, RetrievedByTimeRange }

\* Stores with packets, in the order of their time and not.
WithPackets(packets) == [Default EXCEPT !.storedTelemetryPackets = packets]
FilledStores == { OpenlyRetrieved, WithPackets(<< 1, 2 >>), WithPackets(<< 2, 1 >>) }

\* Identifiers are only compared, so a permutation of them changes nothing.
Symmetry == Permutations(Ids)
=============================================================================
