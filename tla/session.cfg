SPECIFICATION ViewSpec
CONSTANTS
  MaxClients = 1
  SeqModulus = 4
  RxCapacity = 3
  MetadataInterval = 2
  MaxBatch = 1
  MaxCSeq = 5
  MaxClock = 0
  AuthEnabled = FALSE
  EnabledStreams = {0, 1}
  Fds = {3, 4, 5, 6, 7}
  SessionIds = {1}
  Requests <- SessionRequests
  Nals <- BothStreams
  Lossy = FALSE
INVARIANTS
  TypeOK
  SessionFlagsAgree
PROPERTIES
  SequenceContinues
  PlayStartsAtSps
  TeardownSaysGoodbye
  MediaAsNegotiated
CHECK_DEADLOCK FALSE
