SPECIFICATION Spec
CONSTANTS
  N = 2
  Pipelines <- Pipelines2
  Modes = {FALSE, TRUE}
  InputCount = 3
  PushDepth = 2
  Faults = {"compile", "command", "push"}
  Checkpointing = TRUE
INVARIANTS
  DescriptorsOfPeers
  PushesHitOpenDevice
  SyncMeansIdle
PROPERTY
  ProgramEnds
CHECK_DEADLOCK FALSE
