------------------------------ MODULE MCUpkeep ------------------------------
(* TopicWatchdog, Updater and Odometry for TLC.  They have no variable in    *)
(* common: in a behaviour one of them moves.                                 *)
(*                                                                           *)
(* The watchdog has the two entries of SIM_WATCH_TOPICS.  The times keep     *)
(* their order: respawn delay 2 s, time-outs 5 s and 15 s, grace and         *)
(* cool-down 30 s; the guard of 1 s is rounded up to a tick.  The updater    *)
(* finds a car one revision ahead of the tags, level with them, and behind   *)
(* the releases that follow, and enough crashes to interrupt the recovery    *)
(* from a crash.  The odometry's car has a line that is longer than a match  *)
(* can see.                                                                  *)
EXTENDS TopicWatchdog, Updater, Odometry, TLC

MCTarget == "/odom/laser" :> "laser_odom_node" @@ "/odom" :> "ekf_filter_node"
MCTimeout == "/odom/laser" :> 1 @@ "/odom" :> 2

MCPlaces == 0 .. 2

VARIABLE keeper

\* The one that does not move is where it begins; the updater, that has no revision
\* to fetch, is done.
UpkeepInit ==
  /\ WatchdogInit /\ OdometryInit
  /\ \/ keeper = "updater" /\ UpdaterInit
     \/ /\ keeper \in {"watchdog", "odometry"}
        /\ remote = 1 /\ known = 1 /\ head = 1 /\ tree = 1
        /\ lock = "none" /\ pending = NoTag
        /\ building = FALSE /\ install = Built /\ backup = NoDir
        /\ goal = NoTag /\ boot = "running" /\ watcher = "off"
        /\ crashes = 0 /\ fetched = NoTag /\ trouble = FALSE /\ cut = FALSE

UpkeepNext ==
  \/ keeper = "watchdog" /\ WatchdogNext /\ UNCHANGED <<keeper, updaterVars, odometryVars>>
  \/ keeper = "updater"  /\ UpdaterNext  /\ UNCHANGED <<keeper, watchdogVars, odometryVars>>
  \/ keeper = "odometry" /\ OdometryNext /\ UNCHANGED <<keeper, watchdogVars, updaterVars>>

Dog(A) == keeper = "watchdog" /\ A /\ UNCHANGED <<keeper, updaterVars, odometryVars>>
Boots == keeper = "updater" /\ BootStep /\ UNCHANGED <<keeper, watchdogVars, odometryVars>>
Laser(A) == keeper = "odometry" /\ A /\ UNCHANGED <<keeper, watchdogVars, updaterVars>>

upkeepVars == <<keeper, watchdogVars, updaterVars, odometryVars>>

\* The odometry's processes run, the services are served, and not every scan is a poor
\* one.
UpkeepSpec ==
  /\ UpkeepInit /\ [][UpkeepNext]_upkeepVars
  /\ SF_upkeepVars(Dog(WatchdogTick))
  /\ WF_upkeepVars(Dog(OnClock \/ OnClockJump)) /\ WF_upkeepVars(Dog(Check))
  /\ WF_upkeepVars(Dog(DogRespawns) \/ Boots)
  /\ \A g \in Targets : WF_upkeepVars(Dog(RespawnTarget(g)))
  /\ WF_upkeepVars(Laser(ScanIsTaken)) /\ WF_upkeepVars(Laser(ScanIsFiltered))
  /\ SF_upkeepVars(Laser(FirstScan \/ NextScan)) /\ WF_upkeepVars(Laser(EkfMeasures))
  /\ WF_upkeepVars(Laser(LaserResets \/ EkfIsSet \/ ResetGoesOn \/ ResetAnswers))
=============================================================================
