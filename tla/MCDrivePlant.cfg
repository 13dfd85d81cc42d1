SPECIFICATION OdomAliveSpec
CONSTANTS
  NaN = NaN
  MaxSpeed = 4
  BrakeSpeed = 2
  Deadzone = 2
  MaxAdjust = 1
  PGain = 2
  CmdTimeout = 2
  FeedbackTimeout = 1
  Commands <- MCCommands
INVARIANTS
  CommandsExpire
  EscObeys
PROPERTIES ImplementsLease StopsReachEsc
