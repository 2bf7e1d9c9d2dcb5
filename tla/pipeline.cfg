SPECIFICATION ViewSpec
CONSTANTS
  MaxClients = 1
  SeqModulus = 2
  RxCapacity = 3
  MetadataInterval = 2
  MaxBatch = 3
  MaxCSeq = 4
  MaxClock = 5
  AuthEnabled = FALSE
  EnabledStreams = {0}
  Fds = {3}
  SessionIds = {1, 2}
  Requests <- PipelineRequests
  Nals <- PipelineNals
  Lossy = FALSE
INVARIANTS
  BufferHasRoom
  MetadataPaced
PROPERTIES
  RepliesInOrder
CHECK_DEADLOCK FALSE
