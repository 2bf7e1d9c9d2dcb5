SPECIFICATION FairViewSpec
CONSTANTS
  MaxClients = 1
  SeqModulus = 2
  RxCapacity = 4
  MetadataInterval = 2
  MaxBatch = 2
  MaxCSeq = 3
  MaxClock = 0
  AuthEnabled = FALSE
  EnabledStreams = {0, 1}
  Fds = {3}
  SessionIds = {1}
  Requests <- LiveRequests
  Nals <- LiveNals
  Lossy = FALSE
PROPERTIES
  RequestsAnswered
  VideoArrives
CHECK_DEADLOCK FALSE
