------------------------------- MODULE Driver -------------------------------
(***************************************************************************)
(* The driver node's subscriptions: which publisher the speed loop, the    *)
(* steering and the camera listen to.  Autonomous publishers (REST, user   *)
(* programs, nav) use /speed, /steering, /cmd_vel and /camera/*; a teleop  *)
(* source uses /teleop/* and claims the car with a TeleopStatus, which is  *)
(* fresh for the timeout it carries.                                       *)
(*                                                                         *)
(* Pan and tilt are handled alike and are one camera axis here.  A message *)
(* a guard of the code drops changes nothing and is no action.             *)
(***************************************************************************)
EXTENDS DriveLoop

CONSTANTS
  Sources,          \* names of teleop sources
  Statuses,         \* TeleopStatus messages: [drive, camera, estop, timeout]
  Angles,           \* angles that may be requested, for steering and camera
  MaxAngle,         \* MAX_STEERING, MAX_PAN, MAX_TILT
  DefaultTimeout    \* 0.5 s in ticks

ASSUME AngleAssumption == Angles \subseteq Int /\ MaxAngle \in Nat

Timeout(t) == IF t <= 0 THEN DefaultTimeout ELSE t
Timeouts == {DefaultTimeout} \cup {Timeout(st.timeout) : st \in Statuses}

ASSUME StatusAssumption ==
  /\ DefaultTimeout \in Nat \ {0}
  /\ Statuses \subseteq [drive : BOOLEAN, camera : BOOLEAN, estop : BOOLEAN,
                         timeout : Int]
  /\ \E longest \in Timeouts : \A t \in Timeouts : longest >= t

VARIABLES
  teleop,     \* teleop_sources_, with age = now() - last_ns
  steering,   \* the steering servo
  camera,     \* the camera servo
  owner,      \* history: whose command set the target
  lockedFor   \* history: ticks for which some source has held the drive

arbiterVars == <<teleop, steering, camera, owner, lockedFor>>
driverVars == <<driveVars, arbiterVars>>

AgeCap == 1 + CHOOSE longest \in Timeouts : \A t \in Timeouts : longest >= t
LockCap == CmdTimeout + 3

Entry(st, age) == [drive |-> st.drive, camera |-> st.camera, estop |-> st.estop,
                   timeout |-> Timeout(st.timeout), age |-> age]
NoStatus == [drive |-> FALSE, camera |-> FALSE, estop |-> FALSE, timeout |-> 0]
NoSources == [s \in Sources |-> Entry(NoStatus, AgeCap)]

\* Mutant: the timeout of the status is not looked at.
EverFresh(e) == e.age <= AgeCap
Fresh(e) == e.age <= e.timeout

\* drive_engaged, camera_engaged
DriveEngaged  == \E s \in Sources : Fresh(teleop[s]) /\ teleop[s].drive
CameraEngaged == \E s \in Sources : Fresh(teleop[s]) /\ teleop[s].camera

\* Mutant: the lock is not looked at.
AnyoneMayDrive == TRUE
\* what the callbacks of /speed, /steering and /cmd_vel ask first
AutonomyMayDrive == ~DriveEngaged

\* set_steering_rad, apply_pan, apply_tilt
Limited(a) == Clamp(a, MaxAngle)

TrackLock == lockedFor' = IF DriveEngaged' THEN lockedFor ELSE 0

-----------------------------------------------------------------------------
DriverInit ==
  /\ DriveInit
  /\ teleop = NoSources
  /\ steering = 0 /\ camera = 0
  /\ owner = "none" /\ lockedFor = 0

\* /speed
SpeedMsg(v) ==
  /\ AutonomyMayDrive
  /\ Command(v)
  /\ owner' = "auto"
  /\ UNCHANGED <<teleop, steering, camera, lockedFor>>

\* /steering
SteeringMsg(a) ==
  /\ alive /\ AutonomyMayDrive
  /\ steering' = Limited(a)
  /\ UNCHANGED <<driveVars, teleop, camera, owner, lockedFor>>

\* cmd_vel_callback: the Ackermann angle of the twist is any angle in range.
CmdVel(v, a) ==
  /\ AutonomyMayDrive
  /\ Command(v)
  /\ steering' = Limited(a)
  /\ owner' = "auto"
  /\ UNCHANGED <<teleop, camera, lockedFor>>

\* /teleop/speed and /teleop/steering are obeyed whatever the status says.
TeleopSpeed(v) ==
  /\ Command(v)
  /\ owner' = "teleop"
  /\ UNCHANGED <<teleop, steering, camera, lockedFor>>

TeleopSteering(a) ==
  /\ alive
  /\ steering' = Limited(a)
  /\ UNCHANGED <<driveVars, teleop, camera, owner, lockedFor>>

\* /camera/pan and /camera/tilt
CameraMsg(a) ==
  /\ alive /\ ~CameraEngaged
  /\ camera' = Limited(a)
  /\ UNCHANGED <<driveVars, teleop, steering, owner, lockedFor>>

\* /teleop/camera/*
TeleopCamera(a) ==
  /\ alive
  /\ camera' = Limited(a)
  /\ UNCHANGED <<driveVars, teleop, steering, owner, lockedFor>>

\* /servo/commands: an angle of a channel of the serial board, past the claims,
\* the limits and the trim.  Motor and steering hang on the other board, so
\* that only pan and tilt follow it.
ServoCommands(a) ==
  /\ alive
  /\ camera' = a
  /\ UNCHANGED <<driveVars, teleop, steering, owner, lockedFor>>

\* teleop_status_callback
TeleopStatus(s, st) ==
  /\ alive
  /\ teleop' = [teleop EXCEPT ![s] = Entry(st, 0)]
  /\ TrackLock
  /\ UNCHANGED <<driveVars, steering, camera, owner>>

DriverOdom ==
  /\ \E v, p \in Speeds : Odom(v, p)
  /\ UNCHANGED arbiterVars

DriverWatchdog ==
  /\ CmdWatchdog
  /\ owner' = IF CommandStale THEN "none" ELSE owner
  /\ UNCHANGED <<teleop, steering, camera, lockedFor>>

DriverTick ==
  /\ Tick
  /\ teleop' = [s \in Sources |->
                  [teleop[s] EXCEPT !.age = OneOlder(@, AgeCap)]]
  /\ lockedFor' = IF DriveEngaged' THEN OneOlder(lockedFor, LockCap) ELSE 0
  /\ UNCHANGED <<steering, camera, owner>>

\* The destructor centres the servos; a crash leaves them where they are.
DriverDie(graceful) ==
  /\ Die(graceful)
  /\ teleop' = NoSources
  /\ owner' = "none" /\ lockedFor' = 0
  /\ IF graceful THEN steering' = 0 /\ camera' = 0
                 ELSE UNCHANGED <<steering, camera>>

\* initialize_esc centres every servo.
DriverRespawn ==
  /\ Respawn
  /\ steering' = 0 /\ camera' = 0
  /\ UNCHANGED <<teleop, owner, lockedFor>>

DriverNext ==
  \/ \E v \in Commands : SpeedMsg(v) \/ TeleopSpeed(v)
  \/ \E v \in Commands, a \in Angles : CmdVel(v, a)
  \/ \E a \in Angles : SteeringMsg(a) \/ TeleopSteering(a)
                       \/ CameraMsg(a) \/ TeleopCamera(a) \/ ServoCommands(a)
  \/ \E s \in Sources, st \in Statuses : TeleopStatus(s, st)
  \/ DriverOdom
  \/ DriverWatchdog
  \/ DriverTick
  \/ \E graceful \in BOOLEAN : DriverDie(graceful)
  \/ DriverRespawn

DriverSpec == DriverInit /\ [][DriverNext]_driverVars

-----------------------------------------------------------------------------
DriverTypeOK ==
  /\ DriveTypeOK
  /\ teleop \in [Sources -> [drive : BOOLEAN, camera : BOOLEAN, estop : BOOLEAN,
                             timeout : Nat, age : 0 .. AgeCap]]
  /\ steering \in -MaxAngle .. MaxAngle
  /\ camera \in (-MaxAngle .. MaxAngle) \cup Angles
  /\ owner \in {"none", "auto", "teleop"}
  /\ lockedFor \in 0 .. LockCap

\* A source that claims the drive stops what an autonomous publisher had set
\* in motion: the claim blocks its renewals, so the command window ends it.
\* After CmdTimeout ticks of an unbroken claim no autonomous motion is left.
ClaimEvictsAutonomy ==
  CmdTimeout > 0 /\ lockedFor > CmdTimeout + 1 =>
    ~(owner = "auto" /\ Moving(target))

=============================================================================
