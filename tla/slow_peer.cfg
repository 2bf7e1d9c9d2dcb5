SPECIFICATION ViewSpec
CONSTANTS
  MaxClients = 1
  SeqModulus = 4
  RxCapacity = 3
  MetadataInterval = 2
  MaxBatch = 1
  MaxCSeq = 4
  MaxClock = 0
  AuthEnabled = FALSE
  EnabledStreams = {0}
  Fds = {3}
  SessionIds = {1}
  Requests <- SessionRequests
  Nals <- BothStreams
  Lossy = TRUE
PROPERTIES
  SequenceContinues
CHECK_DEADLOCK FALSE
