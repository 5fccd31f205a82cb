\* Two packet stores of the flight software, queues of up to three packets in any order,
\* copies and deletions of content by every window around them; open retrieval only.
SPECIFICATION Spec
CONSTANTS
  Ids = { p1, p2 }
  MaxPacketStores = 2
  MaxPackets = 3
  MaxSizeInBytes = 1
  MinVirtualChannel = 1
  MaxVirtualChannel = 1
  Timestamps = { 1, 2 }
  GivenStores <- FilledStores
  RetrievalTimes = { }
  ContentTimes = { 0, 1, 2, 3 }
  Sizes = { }
  Types = { }
  VirtualChannels = { }
SYMMETRY Symmetry
INVARIANT ContentOrdered
PROPERTY CopyExact
PROPERTY RetrievedContentKept
CHECK_DEADLOCK FALSE
