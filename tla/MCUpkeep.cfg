SPECIFICATION UpkeepSpec
CONSTANTS
  Topics = {"/odom/laser", "/odom"}
  Targets = {"laser_odom_node", "ekf_filter_node"}
  Target <- MCTarget
  Timeout <- MCTimeout
  Grace = 3
  Cooldown = 3
  JumpGuard = 1
  RespawnDelay = 1
  MaxSim = 2
  MaxRevision = 3
  MaxCrashes = 3
  Mixed = Mixed
  NoDir = NoDir
  Places <- MCPlaces
  Reach = 1
  MaxJourneys = 3
  Depth = 1
  NoScan = NoScan
INVARIANTS JumpSparesNobody LaunchIsSound OdometryIsTravel
PROPERTIES
  LiveTreeUntouched
  BootComesUp
  KillsAreTimely
  FusedComesBack
