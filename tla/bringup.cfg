SPECIFICATION FairUpSpec
CONSTANTS
  WordModulus <- Word28
  Faults = TRUE
  Channel = 2
INVARIANTS
  BusHeldOnce
  ProbedIsConfigured
  DriverConfigures
  OfferedStreamsFlow
  
PROPERTIES
  SignalEnds
CHECK_DEADLOCK FALSE
