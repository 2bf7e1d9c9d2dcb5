SPECIFICATION FairStreamSpec
CONSTANTS
  MaxClients = 1
  SeqModulus = 2
  RxCapacity = 3
  MetadataInterval = 2
  MaxBatch = 1
  MaxCSeq = 4
  MaxClock = 0
  AuthEnabled = FALSE
  EnabledStreams = {0, 1}
  Fds = {3}
  SessionIds = {1}
  Requests <- PlayerRequests
  Nals <- StreamNals
  Frames <- TwoStreams
  MaxReady = 2
  MaxNalus = 3
  MapFails = FALSE
INVARIANTS
  FramesWhole
  MarkerEndsFrame
  IdrServed
PROPERTIES
  ServerSpec
  WaitEnds
CHECK_DEADLOCK FALSE
