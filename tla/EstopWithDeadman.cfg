SPECIFICATION TeleopDriveSpec
CONSTANTS
  NaN = NaN
  MaxSpeed = 2
  BrakeSpeed = 1
  Deadzone = 1
  MaxAdjust = 0
  PGain = 1
  CmdTimeout = 3
  FeedbackTimeout = 1
  Commands <- MCCommands
  Joy = joy
  Sources = {joy}
  Statuses <- JoyStatuses
  Angles <- NoAngles
  MaxAngle = 1
  DefaultTimeout = 2
  NoReport = NoReport
  Reports <- MCReports
  Mappings <- OnlyBound
  BootMapping <- Bound
  Hold = 1
  JoyTimeout = 2
  StatusTimeout = 2
  Depth = 1
INVARIANT EstopHoldsZero
