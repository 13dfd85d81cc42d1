----------------------------- MODULE DrivePlant -----------------------------
(***************************************************************************)
(* The speed loop closed through the car: the ESC duty moves the vehicle,  *)
(* laser odometry and the EKF report its speed back.  A reading may be as  *)
(* wrong as in DriveLoop, so every behaviour of DriveLoop is one of this   *)
(* module; that true ones keep coming is a fairness assumption, under      *)
(* which the loop's liveness can be asked: does a stop command stop the    *)
(* car?                                                                    *)
(***************************************************************************)
EXTENDS DriveLoop

VARIABLE vel    \* the speed of the vehicle
plantVars == <<driveVars, vel>>

PlantInit == DriveInit /\ vel = 0

\* One tick brings the vehicle one speed unit closer to what the duty asks.
Accelerated ==
  IF esc > vel /\ vel < MaxSpeed THEN vel + 1
  ELSE IF esc < vel /\ vel > -MaxSpeed THEN vel - 1
  ELSE vel

PlantTick == Tick /\ vel' = Accelerated
PlantOdom(v) == (\E p \in Speeds : Odom(v, p)) /\ UNCHANGED vel
TrueOdom == PlantOdom(vel)
PlantWatchdog == CmdWatchdog /\ UNCHANGED vel
PlantRespawn == Respawn /\ UNCHANGED vel

PlantNext ==
  \/ (\E v \in Commands : Command(v)) /\ UNCHANGED vel
  \/ \E v \in Speeds : PlantOdom(v)
  \/ PlantWatchdog
  \/ PlantTick
  \/ (\E graceful \in BOOLEAN : Die(graceful)) /\ UNCHANGED vel
  \/ PlantRespawn

\* Time passes, the executor runs the timer, the launch file respawns a dead
\* node.  The odometry chain is other processes: it may stop for good.
PlantFairness ==
  /\ WF_plantVars(PlantTick)
  /\ WF_plantVars(PlantWatchdog)
  /\ WF_plantVars(PlantRespawn)

PlantSpec == PlantInit /\ [][PlantNext]_plantVars /\ PlantFairness

\* The same while the odometry chain keeps publishing, however often wrongly.
OdomAliveSpec == PlantSpec /\ WF_plantVars(TrueOdom)

-----------------------------------------------------------------------------
\* With odometry, a stop command ends with a neutral ESC (physicar_driver_node
\* brakes against the rolling direction and lets go), whatever wrong readings
\* come in between, unless the driver is told to move again or dies first.
StopSettles ==
  alive /\ Idle(target) ~> esc = 0 \/ ~Idle(target) \/ ~alive

\* "if the last speed command has not been refreshed within cmd_timeout,
\* auto-stop.  Blocks the car from coasting at its last speed when the
\* publisher dies": once no command is younger than the window, the ESC
\* becomes neutral or a new command arrives.  A NaN command is the exception:
\* it is not Moving, and the watchdog leaves it alone.
AutoStopReachesEsc ==
  cmdAge > CmdTimeout /\ target # NaN ~> esc = 0 \/ cmdAge <= CmdTimeout

\* With odometry alive a stop reaches the ESC, be it a stop command or the
\* command window that ran out.
StopsReachEsc == StopSettles /\ AutoStopReachesEsc
=============================================================================
