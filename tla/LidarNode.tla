----------------------------- MODULE LidarNode -----------------------------
(***************************************************************************)
(* The lidar node (rplidar_node.cpp) on top of its driver: the start-up    *)
(* sequence, the work loop that grabs and publishes, the standby that      *)
(* starts and stops the lidar with its subscribers, the two motor services *)
(* and the way out.  The node has one thread: a call of the driver runs to *)
(* its end before anything else of the node does, while the driver's two   *)
(* threads and the device go on.                                           *)
(***************************************************************************)
EXTENDS LidarLink

CONSTANTS Models,      \* the lidars there may be
          ScanModes    \* and the scan modes

ASSUME NodeAssumption ==
  Models \subseteq ModelSet /\ ScanModes \subseteq [plain : BOOLEAN, named : BOOLEAN]

VARIABLES
  model,      \* the lidar that is plugged in; never changes
  mode,       \* [plain, named]: its answers to the scan mode of the parameters are plain
              \* measurements; the parameters name one
  standby,    \* auto_standby
  listeners,  \* scan_pub->get_subscription_count() > 0
  needExit,   \* need_exit
  node        \* [at, next, scanning, tune]: where work_loop is, where it goes after the
              \* call it is in, is_scanning, scan_frequency_tunning_after_scan

VARIABLES
  seen,       \* history: the scan published last was one of the last scan command
  stale       \* history: scans published since is_scanning became false

nodeVars == <<model, mode, standby, listeners, needExit, node, seen, stale>>
lidarVars == <<linkVars, nodeVars>>

StaleCap == 2

LidarInit ==
  /\ LinkInit
  /\ model \in Models /\ mode \in ScanModes /\ standby \in BOOLEAN
  /\ listeners = FALSE /\ needExit = FALSE
  /\ node = [at |-> "connect", next |-> "info", scanning |-> FALSE, tune |-> FALSE]
  /\ seen = TRUE /\ stale = 0

\* The node calls the driver, and looks at the result when the call is over.
Calls(script) ==
  /\ app' = [at |-> "step", todo |-> script, ok |-> TRUE]
  /\ UNCHANGED <<port, rx, dec, rxq, codecMode, dataLock, codecLock, driver, scanReady, device,
                 air, lost, late, starts, raced>>
Goes(at, next) == node' = [node EXCEPT !.at = at, !.next = next]
Free   == app.at = "out"
Over   == app.at = "step" /\ app.todo = << >>
Returns == /\ app' = [app EXCEPT !.at = "out"]
           /\ UNCHANGED <<port, rx, dec, rxq, codecMode, dataLock, codecLock, driver, scanReady,
                          device, air, lost, late, starts, raced>>
Same == UNCHANGED <<model, mode, standby, listeners, needExit, seen, stale>>

\* set_scan_mode: the typical mode, or the named one if the lidar has it.
SetScanMode(plain, named) ==
  IF named THEN GetAllSupportedScanModes(model) \o StartScanExpress(model, driver.support, plain)
  ELSE StartScan(model, driver.support, plain)

StartScript ==
  Calls(Tolerated(SetMotorSpeed(driver.support, "default"))
          \o SetScanMode(mode.plain, mode.named))
StopScript == Calls(Tolerated(StopCall(driver.support))
                      \o Tolerated(SetMotorSpeed(driver.support, "off")))

-----------------------------------------------------------------------------
(* work_loop up to its loop.                                               *)

\* The driver is created and connected, asked who it is and how it is.
Connects ==
  /\ Free /\ node.at = "connect"
  /\ Calls(ConnectCall(model)) /\ Goes("called", "info") /\ Same

AsksInfo ==
  /\ Free /\ node.at = "info"
  /\ Calls(GetDeviceInfo) /\ Goes("called", "health") /\ Same

AsksHealth ==
  /\ Free /\ node.at = "health"
  /\ Calls(GetHealth) /\ Goes("called", "model") /\ Same

\* Once more for the model: the motors of all but the S series and later are started
\* here, and theirs are tuned after the first scan.
AsksModel ==
  /\ Free /\ node.at = "model"
  /\ Calls(GetDeviceInfo) /\ Goes("modelled", "motor") /\ Same

\* If it did not answer, the model is whatever the stack held.
SpinsUp ==
  /\ Over /\ node.at = "modelled"
  /\ \E spins \in BOOLEAN :
       /\ app.ok => spins = (model.motor # "rpm")
       /\ Calls(IF spins THEN Tolerated(SetMotorSpeed(driver.support, "slow")) ELSE << >>)
       /\ node' = [node EXCEPT !.at = "called", !.next = IF standby THEN "loop" ELSE "first",
                               !.tune = ~spins]
  /\ Same

FirstStart ==
  /\ Free /\ node.at = "first"
  /\ StartScript /\ Goes("starting", "loop") /\ Same

\* A call of the start-up is over.  If it failed, or if the lidar calls itself broken,
\* the driver is deleted, which disconnects it.
Checked ==
  /\ Over /\ node.at = "called"
  /\ Returns
  /\ \E healthy \in BOOLEAN :
       /\ node.next # "model" => healthy
       /\ node' = [node EXCEPT !.at = IF app.ok /\ healthy THEN node.next ELSE "delete"]
  /\ Same

-----------------------------------------------------------------------------
(* start() and stop().                                                     *)

Started ==
  /\ Over /\ node.at = "starting" /\ app.ok
  /\ Returns
  /\ node' = [node EXCEPT !.at = node.next, !.scanning = TRUE]
  /\ stale' = 0
  /\ UNCHANGED <<model, mode, standby, listeners, needExit, seen>>

\* A start that failed stops; the first one ends the node.
StartFailed ==
  /\ Over /\ node.at = "starting" /\ ~app.ok
  /\ StopScript
  /\ Goes("stopping", IF node.next = "loop" THEN "delete" ELSE node.next)
  /\ Same

Stopped ==
  /\ Over /\ node.at = "stopping"
  /\ Returns
  /\ node' = [node EXCEPT !.at = node.next, !.scanning = FALSE]
  /\ stale' = IF node.scanning THEN 0 ELSE stale
  /\ UNCHANGED <<model, mode, standby, listeners, needExit, seen>>

-----------------------------------------------------------------------------
(* The loop.                                                               *)

\* In standby the subscribers decide.
StandbyStarts ==
  /\ Free /\ node.at = "loop" /\ ~needExit
  /\ standby /\ listeners /\ ~node.scanning
  /\ StartScript /\ Goes("starting", "grab") /\ Same

StandbyStops ==
  /\ Free /\ node.at = "loop" /\ ~needExit
  /\ standby /\ ~listeners /\ node.scanning
  /\ StopScript /\ Goes("stopping", "grab") /\ Same

Loops ==
  /\ Free /\ node.at = "loop" /\ ~needExit
  /\ standby => listeners = node.scanning
  /\ node' = [node EXCEPT !.at = "grab"]
  /\ UNCHANGED <<linkVars, model, mode, standby, listeners, needExit, seen, stale>>

\* grabScanDataHq finds a scan: the first one only serves to set the speed, and the
\* services are not looked at in that round.
GrabsFirst ==
  /\ Free /\ node.at = "grab" /\ scanReady # 0 /\ node.tune
  /\ app' = [at |-> "step", todo |-> Tolerated(SetMotorSpeed(driver.support, "tuned")), ok |-> TRUE]
  /\ scanReady' = 0
  /\ node' = [node EXCEPT !.at = "called", !.next = "loop", !.tune = FALSE]
  /\ UNCHANGED <<port, rx, dec, rxq, codecMode, dataLock, codecLock, driver, device, air,
                 lost, late, starts, raced>>
  /\ Same

Publishes ==
  /\ Free /\ node.at = "grab" /\ scanReady # 0 /\ ~node.tune
  /\ scanReady' = 0
  /\ seen' = (scanReady = starts + 1)
  /\ stale' = IF ~node.scanning /\ stale < StaleCap THEN stale + 1 ELSE stale
  /\ node' = [node EXCEPT !.at = "spin"]
  /\ UNCHANGED <<port, rx, dec, rxq, codecMode, dataLock, codecLock, driver, app, device, air,
                 lost, late, starts, raced>>
  /\ UNCHANGED <<model, mode, standby, listeners, needExit>>

\* Two seconds without a scan.
GrabTimesOut ==
  /\ Free /\ node.at = "grab" /\ scanReady = 0
  /\ node' = [node EXCEPT !.at = "spin"]
  /\ UNCHANGED <<linkVars, model, mode, standby, listeners, needExit, seen, stale>>

\* spin_some: a request to a motor service, if any; in standby it is refused.
Spins ==
  /\ Free /\ node.at = "spin"
  /\ node' = [node EXCEPT !.at = "loop"]
  /\ UNCHANGED <<linkVars, model, mode, standby, listeners, needExit, seen, stale>>

StopMotor ==
  /\ Free /\ node.at = "spin" /\ ~standby
  /\ StopScript /\ Goes("stopping", "spin") /\ Same

StartMotor ==
  /\ Free /\ node.at = "spin" /\ ~standby
  /\ StartScript /\ Goes("starting", "spin") /\ Same

\* After SIGINT: the motor, the scan, the driver.
Leaves ==
  /\ Free /\ node.at = "loop" /\ needExit
  /\ Calls(Tolerated(SetMotorSpeed(driver.support, "off")) \o Tolerated(StopCall(driver.support)))
  /\ Goes("called", "delete") /\ Same

Deletes ==
  /\ Free /\ node.at = "delete"
  /\ Calls(DisconnectCall) /\ Goes("called", "gone") /\ Same

-----------------------------------------------------------------------------
\* need_exit and the subscribers are read at the head of the loop only.
Interrupted ==
  /\ Free /\ node.at = "loop" /\ ~needExit /\ needExit' = TRUE
  /\ UNCHANGED <<linkVars, model, mode, standby, listeners, node, seen, stale>>

ListenersChange ==
  /\ standby /\ Free /\ node.at = "loop"
  /\ listeners' = ~listeners
  /\ UNCHANGED <<linkVars, model, mode, standby, needExit, node, seen, stale>>

StartUp == Connects \/ AsksInfo \/ AsksHealth \/ AsksModel \/ SpinsUp \/ FirstStart \/ Checked
StartStop == Started \/ StartFailed \/ Stopped
WorkLoop == \/ StandbyStarts \/ StandbyStops \/ Loops \/ GrabsFirst \/ Publishes
            \/ GrabTimesOut \/ Spins \/ Leaves \/ Deletes
Services == StopMotor \/ StartMotor

\* The node has ended.
Gone == node.at = "gone" /\ UNCHANGED lidarVars

LidarNext ==
  \/ LinkNext /\ UNCHANGED nodeVars
  \/ StartUp \/ StartStop \/ WorkLoop \/ Services
  \/ Interrupted \/ ListenersChange \/ Gone

LidarSpec == LidarInit /\ [][LidarNext]_lidarVars

-----------------------------------------------------------------------------
\* What the node believes of the lidar is so whenever it looks for a scan: it spins
\* and sends exactly while is_scanning, whatever answers were lost or late.
LidarFollowsNode ==
  node.at \in {"grab", "spin"} /\ Free /\ port.bound /\ ~port.broken =>
    /\ node.scanning = device.scanning
    /\ node.scanning => device.speed # "off"

\* While the node takes the lidar for scanning, the way from the lidar to the holder is
\* open, as long as no frame was lost: the unpacker is enabled, and the codec reads
\* samples or the descriptor is still to come.
ScanIsHeard ==
  node.at \in {"grab", "spin"} /\ Free /\ node.scanning /\ lost = 0 =>
    /\ driver.enabled
    /\ codecMode = "loop" \/ \E i \in DOMAIN (air \o rxq) : (air \o rxq)[i] = "descriptor"

\* A scan is published only of the scan command that was sent last, and at most one
\* after the lidar was told to stop: the one that waited in the holder.
PublishedIsCurrent == seen
OneLeftover == stale < 2

\* The node and the lidar agree: on whether it scans, that its samples are heard, and
\* which of them are published.
NodeAndLidarAgree ==
  LidarFollowsNode /\ ScanIsHeard /\ PublishedIsCurrent /\ OneLeftover
=============================================================================
