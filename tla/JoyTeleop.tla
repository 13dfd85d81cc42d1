----------------------------- MODULE JoyTeleop -----------------------------
(***************************************************************************)
(* The joystick teleop node (joy_teleop_node.cpp): /joy reports come in, a *)
(* timer turns the last one into /teleop/speed, a camera position and a    *)
(* TeleopStatus that claims the drive, the camera or neither.  The node is *)
(* single-threaded, so a callback is one action.                           *)
(*                                                                         *)
(* A report says which buttons are held, whether the drive stick and the   *)
(* camera stick are outside the deadzone, and the speed and camera angle   *)
(* they ask for after scaling.  Steering is published exactly when speed   *)
(* is, save under the e-stop, and is left out.  A topic is the sequence of *)
(* its undelivered messages, of at most Depth: the publishers keep the     *)
(* last.  Delivery is the business of the module that composes this one.   *)
(***************************************************************************)
EXTENDS Integers, Sequences, Ages

CONSTANTS
  Reports,        \* /joy messages
  NoReport,       \* !has_joy_
  Mappings,       \* mapping_: which buttons are bound, and the timer's period
  BootMapping,    \* the mapping read from the file or the parameters
  Hold,           \* ENGAGE_HOLD_NS in ticks
  JoyTimeout,     \* the stale-joy guard in ticks
  StatusTimeout,  \* teleop_status_timeout_sec_ in ticks
  Depth           \* messages a topic keeps

ReportSet == [deadman : BOOLEAN, assist : BOOLEAN, estop : BOOLEAN,
              recenter : BOOLEAN, driving : BOOLEAN, aiming : BOOLEAN,
              speed : Int, angle : Int]
MappingSet == [deadman : BOOLEAN, assist : BOOLEAN, estop : BOOLEAN,
               recenter : BOOLEAN, period : Nat \ {0}]
ASSUME ReportAssumption ==
  /\ Reports \subseteq ReportSet /\ NoReport \notin ReportSet
  /\ \A r \in Reports : /\ r.speed # 0 => r.driving
                        /\ r.angle # 0 => r.aiming
ASSUME MappingAssumption == Mappings \subseteq MappingSet /\ BootMapping \in Mappings
ASSUME WindowAssumption ==
  {Hold, JoyTimeout, StatusTimeout} \subseteq Nat /\ Depth \in Nat \ {0}

VARIABLES
  up,           \* the node is running
  enabled,      \* enabled_
  mapping,      \* mapping_
  report,       \* last_joy_
  joyAge,       \* now - last_joy_time_
  driving,      \* drive_engaged_
  aiming,       \* camera_engaged_
  driveQuiet,   \* now - drive_input_ns_
  cameraQuiet,  \* now - camera_input_ns_
  estop,        \* estop_latched_
  recenter,     \* prev_center_
  angle,        \* pan_ and tilt_
  due,          \* ticks until the timer fires
  speedTopic,   \* undelivered /teleop/speed
  statusTopic,  \* undelivered /teleop/status
  standing,     \* history: the last speed published
  claim,        \* history: the last status published claims the drive
  dropped,      \* history: the claim ended without a release
  timerAge      \* history: ticks since the timer last fired, or the node died

inputVars == <<report, joyAge, estop, recenter>>
claimVars == <<driving, aiming, driveQuiet, cameraQuiet>>
topicVars == <<speedTopic, statusTopic, standing, claim>>
joyVars == <<up, enabled, mapping, inputVars, claimVars, angle, due, topicVars,
             dropped, timerAge>>

-----------------------------------------------------------------------------
QuietCap == Hold + 1
JoyCap == JoyTimeout + StatusTimeout + 1
TimerCap == StatusTimeout + 2

\* Keep the last Depth messages.
Queued(topic, m) ==
  LET all == Append(topic, m) IN
    IF Len(all) > Depth THEN Tail(all) ELSE all

PublishSpeed(v) == speedTopic' = Queued(speedTopic, v) /\ standing' = v
SilentSpeed == UNCHANGED <<speedTopic, standing>>

\* publish_status: the generic TeleopStatus, sent on every call.
PublishStatus(d, c, e) ==
  /\ statusTopic' = Queued(statusTopic,
       [drive |-> d, camera |-> c, estop |-> e, timeout |-> StatusTimeout])
  /\ claim' = d

\* engaged_by_input
EngagedByInput(quiet) == quiet <= Hold

\* tick's early returns: no report yet, switched off, controller dropped.
Unattended == report = NoReport \/ ~enabled \/ joyAge > JoyTimeout

FreshNode ==
  /\ report = NoReport /\ joyAge = JoyCap
  /\ driving = FALSE /\ aiming = FALSE
  /\ driveQuiet = QuietCap /\ cameraQuiet = QuietCap
  /\ estop = FALSE /\ recenter = FALSE /\ angle = 0
  /\ enabled = TRUE /\ mapping = BootMapping

\* The constructor emits a first status, here already delivered.
JoyInit ==
  /\ up = TRUE /\ FreshNode /\ due = BootMapping.period
  /\ speedTopic = <<>> /\ statusTopic = <<>>
  /\ standing = 0 /\ claim = FALSE /\ dropped = FALSE /\ timerAge = 0

-----------------------------------------------------------------------------
\* on_joy
OnJoy(r) ==
  LET center == mapping.recenter /\ r.recenter IN
  /\ up
  /\ report' = r /\ joyAge' = 0
  /\ estop' = (mapping.estop /\ r.estop)
  /\ recenter' = center
  /\ angle' = IF center /\ ~recenter THEN 0 ELSE angle
  /\ UNCHANGED <<up, enabled, mapping, claimVars, due, topicVars, dropped, timerAge>>

TimerFires == due' = mapping.period /\ timerAge' = 0

\* tick, when nobody holds the controller
TickUnattended ==
  /\ up /\ Unattended
  /\ driving' = FALSE /\ aiming' = FALSE
  /\ PublishStatus(FALSE, FALSE, estop)
  /\ dropped' = (dropped \/ (driving /\ enabled))
  /\ TimerFires
  /\ SilentSpeed
  /\ UNCHANGED <<up, enabled, mapping, inputVars, driveQuiet, cameraQuiet, angle>>

\* Mutant: the e-stop does not count as an operated input.
EngageBySticks ==
  LET operated == ~mapping.deadman /\ report.driving IN
  /\ driveQuiet' = IF operated THEN 0 ELSE driveQuiet
  /\ driving' = IF mapping.deadman THEN report.deadman
                ELSE EngagedByInput(driveQuiet')

\* tick's engagement decision for the drive and for the camera
EngageDrive ==
  LET operated == ~mapping.deadman /\ (report.driving \/ estop) IN
  /\ driveQuiet' = IF operated THEN 0 ELSE driveQuiet
  /\ driving' = IF mapping.deadman THEN report.deadman
                ELSE EngagedByInput(driveQuiet')

EngageCamera ==
  LET operated == ~mapping.assist /\ (report.aiming \/ recenter) IN
  /\ cameraQuiet' = IF operated THEN 0 ELSE cameraQuiet
  /\ aiming' = IF mapping.assist THEN report.assist
               ELSE EngagedByInput(cameraQuiet')

\* Mutant: no zero on a release while the e-stop is held.
SilentRelease ==
  \/ driving' /\ ~estop /\ PublishSpeed(report.speed)
  \/ ~driving' /\ driving /\ ~estop /\ PublishSpeed(0)
  \/ driving' /\ estop /\ PublishSpeed(0)
  \/ ~driving' /\ (~driving \/ estop) /\ SilentSpeed
\* tick's drive output: the stick, one zero on release, zeros under e-stop
DriveOutput ==
  \/ driving' /\ ~estop /\ PublishSpeed(report.speed)
  \/ ~driving' /\ driving /\ PublishSpeed(0)
  \/ driving' /\ estop /\ PublishSpeed(0)
  \/ ~driving' /\ ~driving /\ SilentSpeed

\* tick, with a live controller
TickAttended ==
  /\ up /\ ~Unattended
  /\ EngageDrive /\ EngageCamera
  /\ DriveOutput
  /\ angle' = IF aiming' THEN report.angle ELSE angle
  /\ PublishStatus(driving', aiming', estop)
  /\ dropped' = (dropped /\ ~driving' /\ ~driving)
  /\ TimerFires
  /\ UNCHANGED <<up, enabled, mapping, inputVars>>

\* on_param_set("enabled")
SetEnabled(on) ==
  /\ up
  /\ enabled' = on
  /\ IF enabled /\ ~on THEN PublishSpeed(0) /\ dropped' = FALSE
                       ELSE SilentSpeed /\ UNCHANGED dropped
  /\ PublishStatus(on /\ driving, on /\ aiming, estop)
  /\ UNCHANGED <<up, mapping, inputVars, claimVars, angle, due, timerAge>>

\* srv_set: an update that names "rate" restarts the timer.
SetMapping(m, namesRate) ==
  /\ up
  /\ m.period # mapping.period => namesRate
  /\ mapping' = m
  /\ due' = IF namesRate THEN m.period ELSE due
  /\ UNCHANGED <<up, enabled, inputVars, claimVars, angle, topicVars, dropped, timerAge>>

\* The node's process ends and its memory is gone; the launch file respawns
\* it, and its constructor emits a status.
JoyDie ==
  /\ up
  /\ up' = FALSE
  /\ report' = NoReport /\ joyAge' = JoyCap
  /\ driving' = FALSE /\ aiming' = FALSE
  /\ driveQuiet' = QuietCap /\ cameraQuiet' = QuietCap
  /\ estop' = FALSE /\ recenter' = FALSE /\ angle' = 0
  /\ enabled' = TRUE /\ mapping' = BootMapping /\ due' = BootMapping.period
  /\ dropped' = TRUE /\ timerAge' = 0
  /\ UNCHANGED topicVars

JoyRespawn ==
  /\ ~up
  /\ up' = TRUE
  /\ timerAge' = 0
  /\ PublishStatus(FALSE, FALSE, FALSE)
  /\ SilentSpeed
  /\ UNCHANGED <<enabled, mapping, inputVars, claimVars, angle, due, dropped>>

\* One tick of time; a timer that is due has fired.
JoyElapse ==
  /\ up => due > 0
  /\ due' = IF up THEN due - 1 ELSE due
  /\ joyAge' = OneOlder(joyAge, JoyCap)
  /\ driveQuiet' = OneOlder(driveQuiet, QuietCap)
  /\ cameraQuiet' = OneOlder(cameraQuiet, QuietCap)
  /\ timerAge' = OneOlder(timerAge, TimerCap)
  /\ UNCHANGED <<up, enabled, mapping, report, estop, recenter, driving, aiming,
                 angle, topicVars, dropped>>

JoyCallback ==
  \/ \E r \in Reports : OnJoy(r)
  \/ TickUnattended
  \/ TickAttended
  \/ \E on \in BOOLEAN : SetEnabled(on)
  \/ \E m \in Mappings, namesRate \in BOOLEAN : SetMapping(m, namesRate)
  \/ JoyDie
  \/ JoyRespawn

\* Delivery to whoever listens.
Deliver ==
  /\ \/ speedTopic # <<>> /\ speedTopic' = Tail(speedTopic) /\ UNCHANGED statusTopic
     \/ statusTopic # <<>> /\ statusTopic' = Tail(statusTopic) /\ UNCHANGED speedTopic
  /\ UNCHANGED <<up, enabled, mapping, inputVars, claimVars, angle, due, standing,
                 claim, dropped, timerAge>>

JoyNext == JoyCallback \/ JoyElapse \/ Deliver

JoySpec == JoyInit /\ [][JoyNext]_joyVars

-----------------------------------------------------------------------------
JoyTypeOK ==
  /\ {up, enabled, driving, aiming, estop, recenter, claim, dropped} \subseteq BOOLEAN
  /\ mapping \in Mappings
  /\ report \in Reports \cup {NoReport}
  /\ joyAge \in 0 .. JoyCap
  /\ driveQuiet \in 0 .. QuietCap /\ cameraQuiet \in 0 .. QuietCap
  /\ angle \in Int /\ standing \in Int
  /\ due \in Nat /\ timerAge \in 0 .. TimerCap
  /\ speedTopic \in Seq(Int) /\ Len(speedTopic) <= Depth
  /\ statusTopic \in Seq([drive : BOOLEAN, camera : BOOLEAN, estop : BOOLEAN,
                           timeout : {StatusTimeout}])
  /\ Len(statusTopic) <= Depth

\* However the operator lets go of the car (button released, sticks centred,
\* button rebound, node disabled, e-stop pressed meanwhile), the last speed
\* the node leaves behind is zero.  Only a controller or a node that drops
\* out leaves a moving one, which is the driver's command window to end.
ReleaseLeavesZero == standing # 0 => (driving /\ enabled) \/ dropped

\* The stale-joy guard: the node claims the drive for a silent controller no
\* longer than the guard plus the time its own timer has been late.
ClaimNeedsLiveController ==
  up /\ claim => enabled /\ joyAge <= JoyTimeout + timerAge
=============================================================================
