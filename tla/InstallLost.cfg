SPECIFICATION UpdaterSpec
CONSTANTS
  MaxRevision = 3
  MaxCrashes = 3
  Mixed = Mixed
  NoDir = NoDir
PROPERTY LastInstallKept
