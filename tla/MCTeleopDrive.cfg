SPECIFICATION TeleopDriveSpec
CONSTANTS
  NaN = NaN
  MaxSpeed = 2
  BrakeSpeed = 1
  Deadzone = 1
  MaxAdjust = 0
  PGain = 1
  CmdTimeout = 2
  FeedbackTimeout = 1
  Commands <- MCCommands
  Joy = joy
  Sources = {joy}
  Statuses <- JoyStatuses
  Angles <- NoAngles
  MaxAngle = 1
  DefaultTimeout = 2
  NoReport = NoReport
  Reports <- MCReports
  Mappings <- EitherMapping
  BootMapping <- Bound
  Hold = 1
  JoyTimeout = 1
  StatusTimeout = 2
  Depth = 1
INVARIANTS
  ReleaseLeavesZero
  OperatorStopsCar
  ClaimsAreLive
  ClaimEvictsAutonomy
