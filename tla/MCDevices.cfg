SPECIFICATION DevicesSpec
CONSTANTS
  Buffers = {b1, b2}
  NoBuffer = NoBuffer
  MaxSets = 2
  MaxUnasked = 1
  Requests = {r1, r2}
  SetRequests <- MCSetRequests
  PassOrder <- MCPassOrder
  MaxChanges = 2
  Channels = {"steering", "tilt"}
  Centers <- MCCenters
  Gains = {1, 3, 4}
  MaxCenter = 5
  LoadCenter = 8
  MinGain = 2
  MaxGain = 4
  UnitGain = 2
  Grain = 2
  Radix = 16
  HEAD = 15
  DEVICE = 14
  MaxData = 3
  Reports <- MCReports
  MaxFaults = 2
  Coordinates <- MCCoordinates
  QueryCoordinates <- MCQueryCoordinates
  MaxPoints = 2
  CellSize = 3
  Numbers <- MCNumbers
  Rectangles <- MCRectangles
  Word = 16
  Dynamic = 9
  Limits = {0, 1, 20}
  OldLimits = {0, 1}
  MaxSteering = 20
  MaxPan = 30
  Telling = 2
  Factor = 10
  Degrees = 12
  Units = 2
  Angles = {0, 1, 5, 12, 13, 23}
  MaxCount = 3
  Multiples = {1, 2}
  ServoChannels = {"throttle", "steering", "pan", "tilt"}
  Commands <- MCCommands
  ServoCenter = 10
  Degree = 2
  Duty = 20
  Reach <- MCReach
  Trims <- MCTrims
  SpeedGains = {1, 2, 9}
  Voltages = {0, 4, 8, 12}
  RefVoltage = 7
  LeastVoltage = 5
  PackVoltage = 9
  LowTwoCells = 6
  LowThreeCells = 10
  Slope <- MCSlope
  DeadBand <- MCDeadBand
  UnitSpeedGain = 2
  Weak = 4
  Strong = 5
INVARIANTS
  BufferIsOurs
  FramesComeBack
  MapsFollowQuietParameters
  ControlsAreSound
  ResyncsInTime
  GridFindsNearest
  OnlyMisfitsAreRejected
  ScanShowsTheRoom
PROPERTIES
  SettingsAreKept
  CommandsKeepOrder
SYMMETRY MCSymmetry
CHECK_DEADLOCK FALSE
