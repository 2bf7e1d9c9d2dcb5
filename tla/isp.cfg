SPECIFICATION SetupSpec
CONSTANTS
  WordModulus = 268435456
  Resolutions <- SomeResolutions
  Bases <- SomeBases
INVARIANTS
  PoolSuffices
  BuffersApart
  DmaSound
  EnabledWhole
  WindowsSound
CHECK_DEADLOCK FALSE
