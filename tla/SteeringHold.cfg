SPECIFICATION SteeringSpec
CONSTANTS
  SteerMax = 3
  DeltaUp = 1
  DeltaDown = 1
  DriverAllowance = 1
  DriverMultiplier = 1
  DriverTorque = 3
  FadeTop = 4
  FadeBack = 2
  MaxFaultFrames = 4
  RampMargin = 1
  CutFrames = 2
  CounterValues = 16
INVARIANT RequestIsBroken
