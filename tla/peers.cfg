SPECIFICATION ViewSpec
CONSTANTS
  MaxClients = 2
  SeqModulus = 2
  RxCapacity = 2
  MetadataInterval = 2
  MaxBatch = 1
  MaxCSeq = 3
  MaxClock = 0
  AuthEnabled = TRUE
  EnabledStreams = {0}
  Fds = {3, 4, 5, 6, 7}
  SessionIds = {1, 2}
  Requests <- PeerRequests
  Nals <- PeerNals
  Lossy = FALSE
INVARIANTS
  FdsAccounted
PROPERTIES
  MediaOnlyWithCredentials
  SessionIdKept
CHECK_DEADLOCK FALSE
