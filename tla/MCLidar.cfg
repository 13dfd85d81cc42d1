SPECIFICATION LevelsSpec
CONSTANTS
  Kinds = {"normal", "hq", "capsule", "ultra", "dense", "ultradense"}
  Turn = 12
  Fine = 8
  Step = 4
  MaxDiff = 5
  CapsuleLen = 3
  MaxSamples = 10
  MaxNoise = 1
  MaxAlike = 1
  MaxStarts = 2
  Models <- MCModels
  ScanModes <- MCScanModes
  Modes = 1
  MaxLost = 1
  MaxLate = 1
INVARIANTS NothingFromBefore CleanScanIsOneTurn ScansKeepComing
INVARIANTS AnswersMatch NodeAndLidarAgree
PROPERTY OnlyNeighboursJoin
