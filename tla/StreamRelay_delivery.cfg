SPECIFICATION TaskSpec
CONSTANTS
  Frames <- MCFrames
  MaxFrames = 4
  Capacity = 1
  Postprocess = TRUE
  Traced = TRUE
  Error = Error
INVARIANT TypeOK
INVARIANT BoundedReadahead
INVARIANT CompleteMeansRecorded
INVARIANT AccountsForDelivered
PROPERTY KeepsPromise
PROPERTY AbandonedStreamEnds
PROPERTY EndedStreamIsRecorded
CHECK_DEADLOCK FALSE
