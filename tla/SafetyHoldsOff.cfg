CONSTANTS
  StateTimeout = 4
  HealthHold = 2
  ModelTimeout = 3
  PathHold = 2
SPECIFICATION HoldsSpec
PROPERTIES OffIsNeverHeld
