---------------------------- MODULE TeleopDrive ----------------------------
(***************************************************************************)
(* The joystick node and the driver node together: /teleop/speed and       *)
(* /teleop/status between them, an autonomous publisher on /speed beside   *)
(* them, both processes free to die.  Each topic delivers in order, but    *)
(* nothing orders the two: the driver may take the status of a tick before *)
(* or after its speed.                                                     *)
(*                                                                         *)
(* Steering, the camera and odometry do not take part in what is asked     *)
(* here and stay as they are.  One tick is 0.1 s of the driver's watchdog; *)
(* a message is delivered within the tick in which it was sent.            *)
(***************************************************************************)
EXTENDS Driver, JoyTeleop

CONSTANT Joy    \* the source name of the node's status

\* The driver knows the messages of the node; a status is valid for 0.5 s.
ASSUME TeleopAssumption ==
  /\ Joy \in Sources /\ 0 < StatusTimeout
  /\ [drive : BOOLEAN, camera : BOOLEAN, estop : BOOLEAN,
      timeout : {StatusTimeout}] \subseteq Statuses
  /\ {0} \cup {r.speed : r \in Reports} \subseteq Commands

VARIABLES
  silence,    \* history: ticks since the controller last spoke
  estopFor    \* history: ticks through which the e-stop was held undisturbed

teleopDriveVars == <<driverVars, joyVars, silence, estopFor>>

SilenceCap ==
  JoyTimeout + 3 + (IF StatusTimeout > CmdTimeout THEN StatusTimeout ELSE CmdTimeout)
EstopCap == 2 * StatusTimeout + 1

\* set_mapping restarts the timer when it names the rate: a caller that keeps
\* doing so keeps the node from publishing.  And it takes any rate from 1 Hz,
\* at which a status times out before the next one is sent.
TimerOnTime ==
  up /\ timerAge <= mapping.period /\ mapping.period <= StatusTimeout

\* A live, enabled controller whose last report holds a bound e-stop.
EstopHeld ==
  TimerOnTime /\ alive /\ enabled /\ report # NoReport /\ joyAge <= JoyTimeout
     /\ report.estop /\ mapping.estop /\ estop

KeepHistory ==
  /\ estopFor' = IF EstopHeld' THEN estopFor ELSE 0
  /\ UNCHANGED silence

-----------------------------------------------------------------------------
TeleopDriveInit == DriverInit /\ JoyInit /\ silence = SilenceCap /\ estopFor = 0

\* A callback of the joystick node.
JoyStep ==
  /\ JoyCallback
  /\ UNCHANGED driverVars
  /\ silence' = IF joyAge' = 0 THEN 0 ELSE silence
  /\ estopFor' = IF EstopHeld' /\ mapping' = mapping THEN estopFor ELSE 0

\* The driver takes the next message of a topic.
TakeSpeed ==
  /\ speedTopic # <<>>
  /\ TeleopSpeed(Head(speedTopic))
  /\ speedTopic' = Tail(speedTopic)
  /\ UNCHANGED <<up, enabled, mapping, inputVars, claimVars, angle, due,
                 statusTopic, standing, claim, dropped, timerAge>>
  /\ KeepHistory

TakeStatus ==
  /\ statusTopic # <<>>
  /\ TeleopStatus(Joy, Head(statusTopic))
  /\ statusTopic' = Tail(statusTopic)
  /\ UNCHANGED <<up, enabled, mapping, inputVars, claimVars, angle, due,
                 speedTopic, standing, claim, dropped, timerAge>>
  /\ KeepHistory

\* A callback of the driver for the autonomous topic or its watchdog, or the
\* end or the start of its process.  The topics are volatile: what was not
\* delivered to a driver that died is gone.
DriverStep ==
  /\ \/ \E v \in Commands : SpeedMsg(v)
     \/ DriverWatchdog
     \/ \E graceful \in BOOLEAN : DriverDie(graceful)
     \/ DriverRespawn
  /\ IF alive /\ alive'
     THEN UNCHANGED joyVars
     ELSE /\ speedTopic' = <<>> /\ statusTopic' = <<>>
          /\ UNCHANGED <<up, enabled, mapping, inputVars, claimVars, angle, due,
                         standing, claim, dropped, timerAge>>
  /\ KeepHistory

\* Time passes for both nodes; what was sent has arrived.
TeleopElapse ==
  /\ alive => speedTopic = <<>> /\ statusTopic = <<>>
  /\ DriverTick /\ JoyElapse
  /\ silence' = OneOlder(silence, SilenceCap)
  /\ estopFor' = IF EstopHeld' THEN OneOlder(estopFor, EstopCap) ELSE 0

TeleopDriveNext == JoyStep \/ TakeSpeed \/ TakeStatus \/ DriverStep \/ TeleopElapse

TeleopDriveSpec == TeleopDriveInit /\ [][TeleopDriveNext]_teleopDriveVars

-----------------------------------------------------------------------------
\* From stick to ESC: when the controller falls silent, whatever the two
\* nodes were doing, the car is not moving on its last command after the
\* stale-joy guard, the command window and one tick of the driver's timer.
DropoutStopsCar ==
  CmdTimeout > 0 /\ silence > JoyTimeout + CmdTimeout + 1 =>
    ~(owner = "teleop" /\ Moving(target))

\* And the car is given back: the claim does not outlive the stale-joy guard
\* and one period of the node's timer (what was sent has arrived).
DropoutFreesCar ==
  silence > JoyTimeout + mapping.period /\ TimerOnTime /\ statusTopic = <<>> =>
    ~DriveEngaged

\* The joystick node may die instead: its claim dies with its status.
DeadNodeFreesCar == ~up /\ timerAge > StatusTimeout => ~DriveEngaged

\* Whichever of the two falls silent, controller or node, the car is free for
\* autonomous commands within a bounded time.
SilenceFreesCar == DropoutFreesCar /\ DeadNodeFreesCar

\* Held through two periods of the timer: one to claim the drive, and one to
\* stop what the driver may have taken between that zero and that claim.
HeldLong == estopFor > 2 * mapping.period

\* "held: zero speed and refuse drive" (joy_mapping.yaml), "drive will be
\* held at zero" (TeleopStatus.msg): while the operator holds the e-stop the
\* car is not moving, whoever else commands it.
EstopHoldsZero == HeldLong => ~Moving(target)

\* Without an engage button the e-stop itself claims the drive, and the car
\* is held at zero against every autonomous publisher.
EstopAloneHoldsZero == HeldLong /\ ~mapping.deadman => ~Moving(target)

\* What the operator does to stop the car stops it: letting go of the controller, or
\* holding an e-stop that needs no engage button.
OperatorStopsCar == DropoutStopsCar /\ EstopAloneHoldsZero

\* A claim is made by a controller that is there, and ends with it.
ClaimsAreLive == ClaimNeedsLiveController /\ SilenceFreesCar
=============================================================================
