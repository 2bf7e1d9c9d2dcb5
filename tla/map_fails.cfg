SPECIFICATION StreamSpec
CONSTANTS
  MaxClients = 1
  SeqModulus = 2
  RxCapacity = 3
  MetadataInterval = 2
  MaxBatch = 1
  MaxCSeq = 3
  MaxClock = 0
  AuthEnabled = FALSE
  EnabledStreams = {0, 1}
  Fds = {3}
  SessionIds = {1}
  Requests <- PlayerRequests
  Nals <- StreamNals
  Frames <- MainStream
  MaxReady = 1
  MaxNalus = 3
  MapFails = TRUE
INVARIANTS
  MarkerEndsFrame
CHECK_DEADLOCK FALSE
