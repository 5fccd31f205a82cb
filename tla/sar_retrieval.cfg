\* Room for two packet stores, three identifiers, every retrieval, few packets.
SPECIFICATION Spec
CONSTANTS
  Ids = { p1, p2, p3 }
  MaxPacketStores = 2
  MaxPackets = 1
  MaxSizeInBytes = 1
  MinVirtualChannel = 1
  MaxVirtualChannel = 1
  Timestamps = { 0 }
  GivenStores <- RetrievedStores
  RetrievalTimes = { 0, 1 }
  ContentTimes = { 1 }
  Sizes = { 0, 1 }
  Types = { "Bounded" }
  VirtualChannels = { 0, 1 }
SYMMETRY Symmetry
INVARIANT TypeOK
INVARIANT RetrievalExclusive
PROPERTY RefinesLifecycle
PROPERTY FrozenWhileRetrieved
CHECK_DEADLOCK FALSE
