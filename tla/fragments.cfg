SPECIFICATION FuSpec
CONSTANTS
  MaxPayload = 1200
  Lengths <- NearBoundaries
INVARIANTS
  PayloadFits
PROPERTIES
  NalsArrive
