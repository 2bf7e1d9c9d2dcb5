SPECIFICATION SensorSpec
CONSTANTS
  WordModulus <- Word28
  Faults = FALSE
  FrameHs <- Heights
  Intts <- Times
  Gains <- SomeGains
  Modes <- OneMode
  AwbGains <- AwbSet
  NoAwbGain <- BootAwb
  Pokes <- StopStream
INVARIANTS
  SensorTypeOK
  OneDescriptor
  ProbeSound
  ProbeComplete
  FrameLengthAgrees
  StreamsWhileOpen
  
  
