SPECIFICATION Spec
CONSTANTS
  N = 2
  TTDevices = {1}
  EpochCounts = {1, 2}
  StepCounts = {1, 2}
  AccumulationCounts = {1, 2}
  MicrobatchCounts = {1, 2}
  Intervals = {1, 3}
  MaxMicrobatches = 4
  Schedulers = {TRUE, FALSE}
  MayFail = TRUE
PROPERTIES
  NoTornCheckpoint
  BatchesKeptApart
  TrainingEnds
CHECK_DEADLOCK FALSE
