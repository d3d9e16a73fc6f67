CONSTANTS
  Faults = {"seeds_missing", "door_open", "esp_stale", "lateral_plan_invalid"}
  EngageGrace = 3
  PathDebounce = 2
  ReleaseTime = 2
  MinimumStop = 2
  LeadArm = 2
  LeadConfirm = 1
  SignalStop = 6
  GreenConfirm = 1
  AlertDisplay = 6
  FadeSteps = 3
  ChangeTimeout = 5
  SettleFrames = 1
  MixSteps = 3
  SteerMax = 3
  DeltaUp = 1
  DeltaDown = 1
  DriverAllowance = 1
  DriverMultiplier = 1
  DriverTorque = 3
  FadeTop = 4
  FadeBack = 2
  MaxFaultFrames = 4
  RampMargin = 1
  CutFrames = 2
  CounterValues = 16
  Torques = {0, 640, 1408}
  CruiseTop = 2
  LeadHold = 1
  LeadRestore = 3
  CommandInterval = 1
  SlowInterval = 2
  PulseFrames = 2
  MismatchSteps = 0
  AccelRelease = 1
  CruiseTeardown = 1
  DriverSettle = 2
  MismatchHold = 2
  Backoff = 1
  RingLength = 2
  Delays = {2}
  Curve = 1
  FeedTop = 1
  OutTop = 2
  Kis = {1}
  Stiffnesses = {"soft", "stiff"}
SPECIFICATION ControlSpec
INVARIANTS  HardFaultEnds DriverKnows StopAlertedOnce
PROPERTIES EngagesOnlyOnSet RequestIsAnswered LaneChangesEnd CommandIsSteady CruiseIsPolite
CHECK_DEADLOCK FALSE
