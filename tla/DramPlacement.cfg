SPECIFICATION Spec
CONSTANTS
  Channels = 2
  Offset = 1
  ChannelSize = 8
  P2POffset = 4
  P2PSize = 2
  UInt32 = 64
  q1 = q1
  q2 = q2
  q3 = q3
  Queues <- TheQueues
  Graphs <- AllGraphs
  Options <- AllOptions
  Forever = 3
INVARIANTS
  BuffersPlacedRight
  HeapsHoldWhatQueuesOwn
CHECK_DEADLOCK FALSE
