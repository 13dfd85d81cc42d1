# A TLA+ verification of the PhysiCar ROS 2 stack

This directory models the parts of `physicar-ros` that decide whether the car
moves, sees and comes up: the driver node with its calibration, its servos and its
serial board, the joystick node, the lidar node with the vendor's SDK below it,
the camera node, the laser odometry, the web server's speed commands, its event
streams and its evaluation runner, the wake tickets of the chat tools, the topic
watchdog of the simulation, and the updater with the boot script. Every definition
is a translation of source lines; the lines are named in the `map` of
`PROJECT.json`. TLC checks the models on small instances, TLAPS proves the central
theorems for all values of the constants.

    tlc -config MCTeleopDrive.cfg MCTeleopDrive      # one run
    tlapm TeleopDrive_proofs.tla                     # the proofs of one module

## 1. The system

| part | state | operations | talks to |
|---|---|---|---|
| driver node, speed loop (`physicar_driver_node.cpp`) | target speed, correction, brake flag, time stamps of the last command and reading; the PWM chip's duty, which outlives the process | `set_speed`, `odom_callback`, watchdog timer, destructor, constructor | speed commands in, `/odom` in, ESC duty out |
| driver node, arbitration (same file) | `teleop_sources_`, servo positions | `/speed`, `/steering`, `/cmd_vel`, `/camera/*`, `/teleop/*`, `/teleop/status` | everyone who drives |
| driver node, calibration and servos | values, `calibration.json`, trims, mounting, gain, battery voltage | `set_calibration`, save, load; `apply_angle`, `set_throttle_speed` | file system, PWM chip, serial board, `/calibration_status` |
| driver node, board protocol | receive buffer, IMU and battery values, low-voltage latch | receive thread, 1 Hz battery timer | UART, `/battery_state` |
| joystick node (`joy_teleop_node.cpp`) | last report, engagement, e-stop, mapping and `joy_mapping.json` | `on_joy`, timer, parameter `enabled`, `set_mapping`, migration of old files | `/joy` in, `/teleop/*` out |
| lidar node (`rplidar_node.cpp`) | scanning flag, tuning flag, scan mode | work loop, start and stop services, standby by listeners, `publish_scan` | the driver below, `/scan` |
| lidar SDK, driver and transport (`sl_lidar_driver.cpp`, `sl_async_transceiver.cpp`) | channel, waiter for an answer, receive queue, motor control, scan holder | queries, scan calls, receiving thread, decoder thread | the device, over a wire |
| lidar SDK, decoding (`sl_lidarprotocol_codec.cpp`, `dataunpacker/`) | codec state, capsule buffers of six formats, previous capsule | `onData`, `reset`, scan holder | the transceiver's decoder thread |
| camera node, frames (`CameraNode.cpp`) | requests, threads and their condition variables, undistortion maps | constructor, callback, threads, destructor | libcamera, `/image_raw` |
| camera node, controls (`ParameterHandler.cpp`, `ParameterConflictHandler.cpp`, `clamp.cpp`, `cv_to_pv.cpp`, `pv_to_cv.cpp`) | parameters, ranges, queued control values | declare, validate, apply, undeclare, hand over with a request | ROS parameters, libcamera |
| laser odometry, scan filter (`laser_odom_node.cpp`, `scan_matcher.hpp`, `scan_filter_node.cpp`) | last scan, pose | filter, match, grid search, reset | `/scan`, `/odom/laser`, the EKF |
| web server, `routers/hw.py` | `_speed_gen`, `_drive_gen`, tasks, `cmd_state` | `POST /speed` (with and without duration), WebSocket streams, dead-man zero | `/speed`, browsers |
| web server, event streams (`routers/joy.py`, `routers/kiosk.py`) | last payload, subscribers and their queues, wake-up flag, one polling task each | subscribe, bump, poll and emit, 1 Hz ticker | browser windows, services of the joystick and driver node |
| web server, `routers/evaluation.py` | `_proc`, `_exit_code`, pumps and backstop of a run | `POST /run` with its output stream, `/stop`, `/status` | the student's process group, the simulator's relay |
| web server, state manager, ROS bridge, audio, auth, pages | buffers, subscriptions, player | HTTP and WebSocket handlers | browsers, ROS services |
| tool server, `pcwake.py` | tickets, redeemed, cancelled, pending wakes | reserve, redeem, cancel, status, drain | chat long-polls, tool threads |
| tool server, `tools_server.py` | loaded modules | list, call, reload | tool scripts, REST |
| topic watchdog (`topic_watchdog_node.cpp`) | last message and last kill per topic | 1 Hz check, clock jump | kills nodes, the launch file respawns them |
| updater and boot script (`updater.sh`, `physicar.sh`) | git tree, marker files in `/tmp`, `install/`, `install.bak/` | boot update, resumed checkout, build, recovery, verification, launch loop | git remote, colcon, launch file |

Hard to test here: commands from five origins that overlap in the driver; time
stamps that decide whether a command, a reading or a claim still counts;
processes that die and are respawned while the PWM chip holds its duty and a file
is half written; tasks of one asyncio loop that sleep and wake in a world that has
changed; two critical sections in one `redeem`; two SDK threads between a call and
its answer; bytes lost inside a capsule; condition variables that are waited for
without a condition; and a power cut between any two commands of the updater.
`PROJECT.json` lists each such hazard at its line with the property that would
catch it, or the reason why none does.

What makes each part correct:

* **speed loop**: a command is a lease that must be renewed; feedback corrects a
  command but never reverses it; a stop ends in neutral.
* **arbitration**: a claim of the drive ends autonomous motion and keeps it out.
* **joystick node**: letting go leaves zero behind; no claim without a live
  controller.
* **both together**: silence of the controller or death of a node stops the car
  and gives it back, each in bounded time.
* **calibration, mapping**: what was reported as saved is what the next process
  works with; an old file is converted once.
* **servos**: a larger command moves a servo further, whatever the calibration, and
  a zero speed is neutral.
* **serial board**: after any noise the next frames are found again.
* **lidar**: what is published is of the scan that is under way, one revolution, at
  the angles it was measured at; an answer belongs to its question; node and
  device agree on whether it scans.
* **camera**: a buffer is with the camera or with its thread, never with both or
  neither; the maps are those of the parameters; what the camera works with in the
  end is what the parameters say, and never in conflict; every default a camera
  offers is accepted.
* **laser odometry**: the position is the way driven since the last reset, and the
  fused position does not stay apart from it.
* **speed commands**: the newest command wins over all scheduled work; a dead
  client's command does not outlive it.
* **wake tickets**: at most one wake per ticket, none after a successful cancel.
* **event streams**: every window that keeps listening ends with the newest
  state; no wake-up is lost.
* **evaluation**: one program at a time, every program ends and leaves its exit
  code, a stop that is answered has ended it or at least killed it.
* **topic watchdog**: a clock jump spares nobody, a silent node is dealt with, a
  node that is coming back is left alone.
* **updater**: every boot launches something, a whole installation of the revision
  that is checked out, and nothing moves under the running nodes.

## 2. The modules

| module | models | proofs |
|---|---|---|
| `Ages` | a time stamp as its saturating age | |
| `CommandLease` | abstract: motion is leased to the last command | |
| `DriveLoop` | the speed loop; refines `CommandLease` | `TeleopDrive_proofs` |
| `DrivePlant` | `DriveLoop` closed through a vehicle, for liveness | |
| `Driver` | `DriveLoop` and all subscriptions of the node | `TeleopDrive_proofs` |
| `Calibration` | `set_calibration`, `CalibrationData`, `calibration.json` | `Devices_proofs` |
| `Servos` | `ServoController`, `GpioPwmBoard`, the commands of `RosmasterBoard`, the battery timer | `Devices_proofs` |
| `Board` | the receive loop of `RosmasterBoard` | `Devices_proofs` |
| `JoyTeleop` | the joystick node | `TeleopDrive_proofs` |
| `JoyMapping` | its mapping file: load, migrate, save, reset | `Devices_proofs` |
| `TeleopDrive` | `Driver` and `JoyTeleop` with the two topics between them; implements `Driver` | `TeleopDrive_proofs` |
| `ScanDecoder` | the six capsule handlers and the scan holder, as operators | `Lidar_proofs` |
| `ScanStream` | device, wire, codec, unpacker, holder and reader of a scan over `ScanDecoder` | `Lidar_proofs` |
| `LidarCalls` | each call of `sl_lidar_driver.cpp` as a sequence of steps | `LidarNode_proofs` |
| `LidarLink` | the transceiver's two threads, locks and queues, and the waiter, over `LidarCalls` | `Lidar_proofs`, `LidarNode_proofs` |
| `LidarNode` | `rplidar_node.cpp` over `LidarLink` | `LidarNode_proofs` |
| `ScanShape` | `ascendScanData_`, angle compensation, `publish_scan` | `Devices_proofs` |
| `CameraFrames` | requests, threads and their waits, maps, shutdown of the camera node | `Camera_proofs` |
| `CameraControls` | controls as parameters, conflicts, the threads that take and queue them | `Camera_proofs` |
| `ControlValues` | the conversions between control and parameter values | `Camera_proofs` |
| `Odometry` | scan filter, laser odometry, EKF (external) and the two-service reset | `Upkeep_proofs` |
| `ScanGrid` | `GridIndex` of `scan_matcher.hpp` | `Lidar_proofs` |
| `SpeedControl` | `hw.py`'s speed commands over a `CommandLease` | `WebServer_proofs` |
| `WakeTickets` | `pcwake.py` | `WebServer_proofs` |
| `Feed` | what both event streams have: queues, bumps, the polled node | |
| `JoyFeed`, `CalibrationFeed` | `_JoyBroadcaster` and `_CalibrationBroadcaster`, which wake, sleep and drop frames in different ways | |
| `Feeds` | both over one set of variables, and their properties | `Feeds_proofs` |
| `Evaluation` | `routers/evaluation.py` and the process group it starts | `WebServer_proofs` |
| `TopicWatchdog` | `topic_watchdog_node.cpp`, the nodes it kills, their respawn | `Upkeep_proofs` |
| `Updater` | `updater.sh` and the launch loop of `physicar.sh` | `Upkeep_proofs` |

`MC*` modules give TLC the values of the constants. Some of them put several
models side by side that have no variable in common: `MCWebServer` (`SpeedControl`,
`WakeTickets`), `MCUpkeep` (`TopicWatchdog`, `Updater`, `Odometry`), `MCLidar`
(`ScanStream`, `LidarNode`) and `MCDevices` (the camera's, `Calibration`, `Board`,
`ScanGrid`, `ControlValues`, `JoyMapping`, `ScanShape`, `Servos`). In a behaviour one
of them moves and the others stay where they begin: their product would only
multiply the states, since the code of one never reads the state of another.
Operators marked "Mutant" are faulty variants of the definition that follows
them; no action uses one. They document which fault each property notices.

### Atomicity

* The driver's callbacks share one mutually exclusive callback group, the
  joystick node is spun by one thread: a callback is an action.
* `hw.py`, `joy.py`, `kiosk.py` and `evaluation.py` run on one asyncio loop: the
  code between two awaits is an action. Awaits are phases of the state: the
  service call of a poll (`loop = "asking"`), the start of a process under
  `_lock` (`starting`), the graces of `_kill` (`kills`).
* The topic watchdog is spun by one thread: a callback is an action. `Exit` is the
  end of a process it has sent SIGTERM, or of any other.
* The calibration service is one callback, but its save is not one step: the file
  is truncated when it is opened and written when it is closed, and the process
  may die between the two. `JoyMapping` saves to another file and renames it.
* The lidar SDK has two threads of its own; each step between two of its locks or
  queue operations is an action, and a call of the driver is a sequence of steps
  (`LidarCalls`). The lidar node has one thread: its call runs to the end before
  anything else of the node does.
* The camera's callback, every thread, the executor and the destructor interleave
  at their mutexes; `thread` says where a thread is in its turn. A wait for the
  condition variable ends when it is notified, and also unasked (`WakesUnasked`,
  `WakesByItself`), as the C++ standard allows. In `CameraControls` the way of a
  thread from its frame to the next is taken at its locks: looking for each undeclared
  parameter, declaring it, taking the controls, queueing the request.
* `pcwake.py` is called from many threads: each section under `_lock` is an
  action, and `redeem`, which has two, is `RedeemTake` and `RedeemEnqueue`.
* A shell command is an action of `Updater`; one that takes long (`rm -rf`,
  `git checkout`, `colcon build`) also has the half-done outcomes a crash can
  leave. The marker files are in `/tmp`: `Crash` keeps them (service restart) or
  loses them (reboot).

### Time

`DriveLoop`, `Driver`, `JoyTeleop` and `TeleopDrive` count ticks of the driver's
0.1 s watchdog; `SpeedControl` counts `_KEEPALIVE_PERIOD`s (0.2 s). Time stamps
are ages, saturated where no comparison can tell the difference. A timer that is
due runs before the next tick, and in `TeleopDrive` a message arrives in the
tick it was sent in: this is the assumption under which the bounds in ticks are
exact. It fails when an executor is blocked for longer than a period, when the
period of a configured rate is longer than the status time-out, or when
`set_mapping` requests that name the rate arrive faster than the period
(`restart_timer` starts anew each time); the latter is in the model, and the
properties about statuses are conditional on `TimerOnTime`.

`TopicWatchdog` counts runs of its check timer. A time-out of the lidar's driver or
of the EKF's service may end a wait at any moment before the answer. `Feed`, `Evaluation`, `WakeTickets`
and `Updater` have no clock: what they wait for may end at any moment.

### What is simplified

* In `DriveLoop` the ESC duty is kept as the signed speed it encodes; that the curve
  from one to the other keeps the order is `CommandsKeepOrder` of `Servos`, where
  the curve is a straight line with a dead band. NaN is a value of its own, because `std::clamp`
  lets it pass and every comparison with it is false.
* Odometry is arbitrary in `DriveLoop` and `DrivePlant` (any reading, any
  prediction), absent in `TeleopDrive`, where nothing asked depends on it.
* Steering is modelled in `Driver` and left out of `JoyTeleop`, where it is
  published exactly when speed is, save under the e-stop. Pan and tilt are one axis.
* A generation counter is modelled by the only question asked of it: has it moved
  since the task was created (`current`).
* The ROS bridge is always ready in `SpeedControl`.
* A payload of the event streams is one value of the polled node. `enabled` and
  `connected`, which the joystick payload also has, change as the node does.
* `Evaluation` has no log lines. A run's group is its leader and one child, which
  is enough to keep the output pipes open after the leader's exit.
* In `TopicWatchdog` a target is one process. The watchdog is modelled as the
  simulation runs it; `real.launch.py:297` disables it on the car.
* `Servos` is one servo: the four share nothing but the calibration. A steering
  command is counted by the servo angle its wheel angle needs.
* `Calibration` has integers of which `Grain` are what two decimals tell apart;
  `JoyMapping` has two of the limits, the one by which degrees are told from
  radians and one that only follows. An old file's limit is in the range of its
  unit.
* A byte of a scan is known by its capsule, its place and the sync pattern it shows;
  a checksum finds out every byte that does not belong. `ScanStream` leaves out time
  stamps, `LidarLink` the bytes: there a frame is one decoded message.
* `ScanShape` is the shape of a compensated scan, as `driver_params.yaml` asks for;
  `Odometry` has a line instead of a plane, and a match that finds the distance
  exactly or not at all. `ScanGrid` compares squared distances of integers.
* `CameraControls` has three controls, `ControlValues` one type of each kind of which
  the conversions tell apart; a float is handled as an integer is, and a default's
  number has no width but that of a rectangle's sums (`Word`).
* `CameraControls` has the pre-set and post-set callbacks of rclcpp
  (`RCLCPP_HAS_PARAM_EXT_CB`); the older way calls the same three functions from the
  one callback there is. An assertion that fails may end the node or, compiled out,
  do nothing.
* `Calibration` takes a gain for a number; a NaN, which the check of
  `set_calibration` lets through, is noted in section 5.
* `Driver` counts what `/servo/commands` sets as one more angle of the camera; the
  rest of the stack sends nothing there.
* A release is a number, tags come out in order; damage to git's objects and its
  repair (`check_repo_health`, `repair_repo`, `reinit_repo`) is left out, as are
  DEV mode, `safe_pip_upgrade` and `UPDATE_SIGNAL`, which nothing writes.

## 3. The runs

| run | asks | bounds |
|---|---|---|
| `speed_loop` | commands expire, the ESC obeys, the loop refines `CommandLease`, and with odometry alive a stop or an expired command reaches neutral | speeds up to 4, deadzone 2, out-of-range and NaN commands, any reading, window 2, feedback window 1 |
| `odom_lost` (violation) | the last promise when odometry may stop | as above |
| `teleop` | a claim evicts autonomy, a release leaves zero, claims need a live controller and are given up, drop-out and death stop the car, the e-stop without engage button holds it once it was held for two periods of the timer | hold 1, time-out of a report 1, of a status 2, command window 2; two mappings, changed at any time |
| `estop_with_deadman` (violation) | the e-stop with the default mapping | hold 1, both time-outs 2, window 3; the default mapping |
| `web_server` | newest command rules, dead clients stop; tickets wake once, cancels are final, status answers stay true | two streams, two tasks of a kind, grace 2, window 3, mirror 4; three ids, two sessions, two threads, room for two tickets and two messages |
| `feeds` | newest payload queued, no wake-up lost, windows converge | two windows, two values, room for two frames |
| `evaluation` | one program at a time, an answered stop has its program gone or killed and in the way of any other, everything ends and leaves its exit code | two runs, two stop requests |
| `upkeep` | watchdog: jumps spare nobody, kills are spaced, silence is answered. Updater: launches are sound, the running tree is left alone, every boot comes up. Odometry: it is the way driven, the fused position comes back | two topics and targets, grace and cool-down 3, guard and respawn delay 1, simulation time up to 2; three releases, three crashes; three places, sight 1, three events |
| `install_lost` (violation) | a complete installation is never lost to an update | three releases, three crashes |
| `lidar` | scans: nothing from before, one turn each, they keep coming, only neighbours are joined. Calls: answers match, node and device agree | six formats, capsules of three bytes, a turn of three capsules and a buffer of ten samples (a turn has 3 to 12), one lost or damaged byte, one imitated sync byte, two starts; three models, one lost and one late answer |
| `devices` | camera: buffers, frames, maps, controls; calibration and mapping are kept; servos keep the order of commands; the board resynchronises; scans show the room; the grid finds the nearest; only misfits among the defaults are rejected | two requests and buffers, two changes of parameters, one wait that ends unasked (in `CameraControls` those count among the changes), lists of at most two settings; numbers and corners from -1 to 1, sides 0 and 2, sums modulo 16; four centers, three gains; two faults on the line; two points; three nodes in a turn, one or two bins in a degree; eleven commands, three trims, three gains |
| `stale_maps` (violation) | maps follow the parameters, also those set while maps are built | as `devices` |

Several properties are conjunctions of named parts, one claim each, where the
parts say one thing together: `OperatorStopsCar`, `ClaimsAreLive`, `AnswersAreKept`,
`EverythingEnds`, `KillsAreTimely`, `LaunchIsSound`, `NodeAndLidarAgree`,
`FramesComeBack`, `ControlsAreSound`, `SettingsAreKept`, `EscObeys`.

The bounds keep the order of the real constants where the order decides the
outcome: engage hold 0.3 s and the time-out of a report 0.5 s against status
time-out 0.5 s and command window 1 s become 1 and 1 against 2 and 2 ticks in
`teleop`, where a report of the age of one tick may be met by the timer before or
after it turns stale, and 1 < 2 = 2 < 3 in `estop_with_deadman`; grace 0.4 s <
window < mirror time-out become 2 < 3 < 4. Two streams and two threads are the fewest that
overlap, two windows the fewest of which one can lag behind the other, two runs the
fewest of which an old one can outlive its stream; two tickets and two messages
the fewest with an order to evict in, and three ids the fewest that evict; three
crashes interrupt an update, the recovery from it, and the recovery from that.
Queues of the topics hold one message (the depth of the publishers is larger;
with delivery inside the tick only bursts could tell, and they carry the same
values). The numeric ranges of `DriveLoop` contain a correction larger than the
distance from deadzone to target, so that the floor matters. The respawn delay
(2 s), the time-outs of `SIM_WATCH_TOPICS` (5 s and 15 s) and the grace and
cool-down (30 s) become 1, 1 and 2, and 3 ticks.

A turn of the lidar has three capsules, so that a capsule has a neighbour before
and after the wrap; two starts are enough for a second scan to meet what is left
of the first, one late answer for it to meet the next question. The odometry's line
is longer than a match can see, and three events are a drive, a teleport and a
reset in any order. Requested centers lie on both sides of what a digit tells
apart and of the limit of a request; payloads of the board contain the head of a
frame, but not head and device, which would be a frame; queries of the grid lie
left of, below, in and beyond all cells; angles of `ScanShape` are at both ends of
the circle, on both sides of a bin's edge and of the half. The sum
of a rectangle's corner -1 and side 0 wraps around at 16, that with side 2 does not. The
lists of settings set each control to each kind of value, the
mode both ways at once, and a control twice, with and without a value; buffers and
requests are symmetric. A trim in `Servos` brings
the reach near an end, and a gain and a voltage take the ESC to its ends. The
bounds are lifted by the proofs for the properties they cover. The largest runs are
`lidar` (6.5 million states), `devices` (3.9 million) and `teleop` (1.8 million); each
ends within four minutes.

Deadlock is checked in every run but three. `Evaluation` has a finite set of runs,
and a behaviour that has used them up and whose programs are gone stops. In
`devices` and `stale_maps` the camera node really stops: its destructor is the end
of a behaviour, and a thread whose completion was signalled while it was at work
waits for ever (section 5).

### Fairness

Safety needs none. `DrivePlant` assumes that time passes, that the executor runs
the due timer, and that the launch file respawns the node (`respawn=True`);
`OdomAliveSpec` adds that true odometry keeps coming, with any number of wrong
readings in between; this is the condition of `StopsReachEsc` and deliberately
missing from `odom_lost`. A NaN target is excepted, see section 5. `Updater` assumes
that the boot script goes on (`WF(BootStep)`): every command in it that could hang
has a `timeout` or ends by itself. It assumes nothing of releases, the network, or
the outcome of any step.

`Feeds` assumes that the polling task and the windows go on, that a wait ends at
the latest by `POLL_INTERVAL`, and (strong fairness of the answer) that the node
does not fail every call for ever. `Evaluation` assumes that due steps of the loop
run, that wall limit and graces end, and that a process that got SIGKILL exits in the
end, though not within the second that `_kill` waits for it; a
program need not end by itself or by SIGTERM, a child need not end at all, a stop
need not come. `TopicWatchdog` assumes that time passes (strong fairness of the
tick, because deaths may interleave without bound), that timers and `/clock` are
served and that the launch file respawns what has died; it assumes neither a
message nor the end of any process. `Odometry` assumes that scans are taken, that
the filter, the odometry, the EKF and the callers of the reset run, and (strong
fairness) that not every scan is a poor one; the number of moves, teleports, resets
and respawns is bounded, so `FusedComesBack` is about a car that has come to rest.

## 4. What is proved

All proofs are for arbitrary constants satisfying the named `ASSUME`s of the modules;
TLC evaluates every one of them in a passing run. A theorem names its invariant, which
is a conjunction of named parts; the proof that a step preserves it has one step per
action. The theorems worth citing are listed in `PROJECT.json`.

**Speed loop** (`TeleopDrive_proofs`). `IInv` is the inductive invariant: the type, the
watchdog bound, the sign and distance of the duty from the target, the brake
discipline (so that the ESC is always one that obeys), and two facts the properties
themselves do not state but need: a dead process has its memory reset, and on stale
feedback since the last command the correction is zero. From it follow
`DriveTypeCorrect`, `CommandsAlwaysExpire`, `EscAlwaysFollowsTarget`,
`StopIsAlwaysNeutralOrBraking`, `EscAlwaysObeys` (both together) and
`StaleCorrectionAlwaysDropped`. `DriveImplementsLease` shows step by step that the
loop refines `CommandLease` (commands renew, the watchdog and death revoke, ticks
elapse, odometry stutters); it needs `CmdTimeout > 0`, for with 0 the code creates no
watchdog and there is no lease.

**Whole driver** (`TeleopDrive_proofs`). `DriverImplementsDrive`: every step of the node is
a step of the loop or leaves it alone, whatever the arbitration decides; so
`DriverCommandsExpire` and `DriverEscObeys` follow for the node with all its
subscriptions. `ClaimAlwaysEvictsAutonomy` needs `EvictInv`: a claim keeps an
autonomous publisher's renewals out, so it is never older than the last command that
publisher gave, and the window ends that one.

**Joystick node** (`TeleopDrive_proofs`). `ReleaseAlwaysLeavesZero` and
`ClaimAlwaysNeedsLiveController`, for any mapping set, hold time and time-outs. The
second needs the strengthening `ClaimInv`, which ties the claim to a report being
there and to the age it had when the timer last fired.

**Both nodes** (`TeleopDrive_proofs`). `TeleopImplementsDriver`: what the joystick
node and the two topics do to the driver is something its environment may do, so that
the theorems of the driver hold of the car with a controller. `OperatorAlwaysStopsCar`
and `ClaimsAlwaysLive` follow from `TeleopInv`, whose parts follow a message on its
way: `ClaimPath` (the newest status under way stands for the claim, only the joystick
node claims, a dead one is quiet), `SpeedsAreLive` (what is sent and what the car
drives on, a live controller has said) and `HoldInv`, the four stages of a held
e-stop: zero is all that is sent; the timer has claimed the drive; the claim is at the
driver; the first zero after that has stopped the car. `TeleopAssumption` says that
the node is one of the driver's sources and that its messages are among those the
driver is given.

**Event streams** (`Feeds_proofs`), for any windows, values and queue size.
`NewestAlwaysQueued`: the newest frame on its way to a window of the joystick stream
is the last payload; it is inductive with the types, because a queue without room
loses its subscription in the step that passes it over. `WakeupsNeverLost` needs two
more facts: only the joystick loop sleeps without a time-out, and in the calibration
stream a bump that no poll has seen is in the flag, which is cleared before the poll
and not after it. `FeedTypeCorrect` bounds the queues.

**Speed control** (`WebServer_proofs`), for any number of clients, tasks and
durations. `SpeedInv` has three parts. `StandsForNewest`: what is published is the
newest command's value or a stop. `HoldIsNewest`: a hold that is not superseded is the
newest command's and the only one, and the age of the car's lease and the time to the
hold's next turn never add up to more than one keep-alive period, so the lease cannot
run out between two turns. `Guarded`: if the stream of the newest command has closed
since its frame, the car has been told to stop, or a valid dead man's task will fire
before the grace is over; it is stated over the frames a stream has sent and not over
the open streams, because a client may reconnect and close again without a new frame.
`NewestCommandAlwaysRules` and `DeadClientAlwaysStops` follow. `StreamAssumption` says
that no stream has the name of another source.

**Wake tickets** (`WebServer_proofs`). `AnswersAlwaysKept`, for any number of
sessions, threads and ids and any size of the tables. `WakeInv` says that an id is at
one place at most, and once there: among the tickets, in the hand of one thread
between the two sections of `redeem`, pending in the queue of its session, delivered,
or withdrawn; and that only what was issued is anywhere. `NothingAssumption`: the
empty hand is no id.

**Evaluation** (`WebServer_proofs`), for any number of runs and stop requests.
`EvaluationInv` says that nobody starts a program while one is alive and that only the
run of `_proc` is alive; `AlwaysOneRunAtATime` follows. `StopAlwaysMeansKilled` rests
on `Signalled`: a `_kill` in its second round has sent SIGKILL to the group it was begun
for, and no later step takes that back; a program that still lives is the one of
`_proc`. So the second time-out, after which the stop is answered all the same, leaves
a program that can only end, and that keeps any other from being started meanwhile.

**Topic watchdog** (`Upkeep_proofs`). `JumpNeverSparesAnyone` needs that the guard is
no longer than the respawn delay and the cool-down (`WatchdogAssumption`). The
invariant is `PastGuard`: a running process without SIGTERM is past the guard, and one
that is gone will be when it comes back. `WatchdogTypeCorrect` is the type invariant.
`KillsAlwaysSpaced` is the safety half of `KillsAreTimely`: a node that was killed is
left alone for the cool-down.

**Odometry** (`Upkeep_proofs`). `OdometryIsTravel` is not inductive: the next match
adds up only if both scans are of the same side of a teleport. `ScansComparable` says
that of every scan in a queue, and `PoseBegins` that a pose without a reference scan
is zero. `OdometryAlwaysTravel` then holds for every reach of a match and every depth
of the queues, late requests of the reset included.

**Updater** (`Upkeep_proofs`), for any number of releases and crashes.
`LaunchIsAlwaysSound` needs to know, at every command a crash may leave off at, what
each part of the disk can be: `UpdaterInv` orders the revisions (`Numbers`), says
where the boot script and the background updater can be together (`Positions`), where
marker and backup may exist (`MarksAreGone`), that an installation is older than the
update under way and that a torn one cannot pass for HEAD's (`StampsAreOld`,
`NewBuild`), and that a working tree that is not HEAD's is an interrupted update to
which there is a newer tag (`TreeIsHeads`). `LiveTreeAlwaysUntouched` is the action
property, `UpdaterTypeCorrect` the type. `ContentAssumption`: a mixed tree is not a
revision.

**Camera frames** (`Camera_proofs`), for any number of requests and of waits that end
unasked. `FramesInv` says where each request is whose thread did not wake unasked
while the camera had it (`stray`): with the camera, with its own thread, or lost to a
completion that was signalled while the thread held nothing. `BufferAlwaysOurs` says
of these that a frame at work was completed and is not queued: a wake-up of one thread
never touches another's buffer. `FramesAlwaysComeBack` is about all requests. `MapsAlwaysFollowQuietParameters` has an invariant of
its own, `MapsInv`: a thread between reading the parameters and building from them has
read today's, unless they changed meanwhile.

**Camera controls** (`Camera_proofs`). `ControlsAlwaysSound`, for any lists of settings,
any number of requests and any order in which their threads take and queue. First, the
parameters never say automatic exposure and a fixed time at once, unless one list gave
the mode both ways (`muddled`: the check looks at the first entry, the last is stored).
Second, what the next request takes along is what the parameters say. Third, once
nothing of a control waits any more, the camera works with what its parameter says,
unless the value was given up in one of the three ways the code has for it (`lost`):
a later list that does not set the control, a thread that queues an older value after
a newer one, a cancelled request; or a thread reused a request that the camera had
(`reused`). The invariant follows a value on its way: `LastIsCurrent`
says that the thread which took the last value of a control is about to queue it, or
that its request is queued with it and none behind it carries another, or that the
camera works with it and nothing queued replaces it; `QueueInOrder` that a request
which is about to be queued is not in the queue yet. No step depends on how long a list
is.

**Control values** (`Camera_proofs`). `AlwaysOnlyMisfitsAreRejected`, for numbers,
Bools, Bytes and rectangles, any limits in order and any default: of what is declared,
exactly the misfits are rejected, and of the rectangles no other. A misfit is named
by what it is (`Misfit`), not by the path through the code: for a control with an
extent, a default of one element or one of another length, and an array of Bool or of
Byte; a Bool out of its range; a rectangle both of whose far sides have bounds that
wrap around out of order, which the clamp, undefined there, may or may not hit. The
proof takes a default through clamp, conversion, the node's range check, conversion
back and comparison, type by type.

**Board** (`Devices_proofs`). `AlwaysResyncsInTime`, for any radix, any reports and
any number of faults. Since the last fault the receiver is in one of three phases
(`BoardInv`): in a frame that is none, whose length is bounded; between frames,
looking for the next head; or in step with the frame on the wire. Each phase has its
bound on the bytes read, and none goes back. The theorem assumes nothing of the
payloads; the property itself has the condition (`Unmistakable`) that no report ends
in a head or shows head and device inside: others may keep a receiver out of step for
ever. `BoardAssumption` is the shape of a frame: a byte holds its length.

**Mapping and calibration** (`Devices_proofs`). `RestartAlwaysKeepsMapping`: what a
process that starts makes of the file (`Understood`) are the limits that were saved
last or that the old file meant, at every point where the last one may have died,
unless the disk was full. `RestartAlwaysKeepsCalibration` and `ToldSavedIsAlwaysSaved`
rest on `CalibrationInv`: the file is not there, empty, or exactly the text of what
was kept, and a status that says "saved" tells values that are multiples of the last
digit, so that the file holds them exactly. The lemma `RoundedIsNear` bounds what the
text loses. `CalibrationAssumption` holds of the code: the range on loading exceeds
the range of a request by at least a digit (else a center just within the limit would
be rounded out of it and dropped on loading), and limits and default of the gain have
two decimals. Together the three are what `SettingsAreKept` checks.

**Servos** (`Devices_proofs`). `CommandsAlwaysKeepOrder`: the invariant is that the pulse
is the one for the last command known, under the calibration and the voltage of now
(`ServosInv`); that of two commands the larger has the pulse further on is a lemma
for each board, along the divisions and clamps of the code. `SpeedIsFelt` says that
no division of the model rounds a whole unit of speed away: the code computes with
real numbers down to the nanosecond. `ServosAssumption` says that the reach of a servo,
trimmed either way, is within its 180 degrees, as it is with a reach and a trim of
30 degrees.

**Scan message** (`Devices_proofs`). `ScanAlwaysShowsTheRoom`: for any widths of angles
and bins, any turn and any mounting, a published scan shows every measurement within
two degrees of where it was made, and nothing else. `ShapeInv` says that sorting and
filling in angles leave the measurements what they were (`SameMeasurements`); an order
of the nodes reaches each of them, being one to one on a finite set. A bin is less than
a degree from the measurement that fills it (`BinIsNear`), the increments of lidar and
message differ by a bounded amount in each half of the circle (`StepsDiffer`), and
turning the message by half a circle stays within the bound (`ShownNearRoom`).
`ScanShapeAssumption` asks for an even number of degrees, as 360 is.

**Lidar, calls** (`Lidar_proofs`). `AnswersAlwaysMatch`, for every model and scan
mode. While a question is open, the decoder has matched only what answers it, and so
does an answer that is there (`MatchedForThis`), unless the match was made before the
question (`raced`).

**Lidar node** (`LidarNode_proofs`), for any models and scan modes and any number of
lost frames and late answers. `LidarAlwaysFollows`: whenever the node looks for a scan,
the lidar scans exactly if the node takes it for scanning, with the motor on, and the
way from the lidar to the holder is open unless a frame was lost.
`NodeAndLidarAlwaysAgree` adds that only scans of the last scan command are published,
and after a stop the one that was ready. This holds as long as at most three answers
came after their time-out (`FewAreLate`), because a start asks at least four questions
it cannot do without; the run lets one answer be late, and with six TLC finds a start
whose questions are all answered by old answers, so that a scan of before is published
(`PublishedIsCurrent`). The invariant, in order:

* `NodeTypes` and `ScriptInv`: what is left of a call is the rest of one that the node
  makes in that state. The shape of every script is proved of the operators of
  `LidarCalls` (`Prelude`, `Starting`): what a question that fails may leave out holds
  none that the call cannot do without, and a start has four of these (`Crucial`)
  before the scan command.
* `FollowInv`: before, between and within the calls, what the lidar does is what the
  steps made so far have told it (`NotYetInv`, `SettledInv`, `StartingInv`,
  `StoppingInv`).
* `DecInv` and `CountInv`: what the decoder may have in hand, and that no more answers
  are under way or taken than came late, and one for the question that is open.
* `ClearInv`, while `FewAreLate`: in a start, either a question it needs can no longer
  be answered, or nothing of the old scan is on its way, or fewer answers come before
  the old descriptor than the start still needs; so the last needed answer comes after
  all that was sent before it.
* `HolderInv`, while `FewAreLate`: the holder has nothing or the current scan, and no
  second one after a stop.

**Lidar, bytes** (`Lidar_proofs`), for six formats, any length of a capsule and any
number of starts. `NothingEverFromBefore`: nothing that the holder has is of an
earlier scan. `StreamInv` says that the codec is in step with the device when a scan
begins (`CodecInStep`), that a handler at rest has no bytes and, save for the dense
formats, no capsule (`HandlerSound`), and that a dense handler which still has one
sees a byte of the first capsule, unless all were lost (`FirstIsSeen`). The theorem
therefore assumes `FewLost`: fewer bytes are lost than a capsule has, or no format is
dense; without it the property is false (section 5). `OnlyNeighboursEverJoin`, under
the first half of that assumption, says in which order bytes reach a handler
(`InOrder`): the bytes of a message that ends where a capsule ends are of that capsule
or of the one before, and the capsule that was kept is followed by theirs.
`DecoderAssumption` asks for capsules of at least three bytes (two of sync and one
more) and an angle's unit; `StreamAssumption` says that the bounds are numbers.
`CleanScanIsAlwaysOneTurn`, for every format and wherever a scan begins: without noise
a scan that is ready is one revolution. The geometry is proved first. If the steps of
the device divide the turn into two capsules or more (`Whole`; a real one sends
dozens), then in each of the formats a turn has at most one sync bit, always in the
same place, and its angles rise everywhere else (`TurnHasOneWrap`). What is being
filled therefore began at the wrap, or late in the first turn, and holds the samples
since (`Grown`, `Collected`, `HolderAt`); no sample that comes at its place makes it
anything else (`PushKeeps`, `PublishKeeps`). The invariant `TurnInv` then says that the
codec has exactly what was sent of the capsule under way (`InStride`) and that handler
and holder are where its beginning found them (`Awaits`, `Between`), so a message is
read byte by byte into the samples of its capsule (`MessageKeeps`). The theorem
assumes `Whole`, without which the turns of the model are not of one length, and a
buffer of more than one sample (the code's holds 8192), without which a scan's last
sample takes the place of its first.

**Scan grid** (`Lidar_proofs`). `GridAlwaysFindsNearest`: for any points, cell size
and query, a point within the radius is in one of the nine cells searched, because it
is nearer than a cell is wide on each axis, clamping at the border included.

Induction over data is done where it is first order. The library's induction theorems
take an operator as a parameter and cannot be used; but a set of numbers that is not
empty has a least one (`LeastNatural`, from `WellFoundedInduction`), and from that
follow induction over a set of numbers (`CountsUp`), the existence of what is computed
step by step (`StepsExist`), least elements of a list and the last of some
(`LeastOfList`, `LastOfSome`). This is how a whole message is read byte by byte, a
revolution filled node by node, and a checksum summed: those definitions are recursive
functions. No module has a RECURSIVE operator.

Only model-checked:

* everything with fairness (`StopsReachEsc`, `BootComesUp`, `WindowsConverge`,
  `EverythingEnds`, `FusedComesBack`, and of `KillsAreTimely` that a silence is answered
  by a kill): liveness and ENABLED are beyond the prover;
* `ScansKeepComing`: it counts the capsules since the last scan under any noise, and how
  many of them each byte that was hit may cost in each format;
* `NodeAndLidarAgree` with more than three late answers, where it does not hold.

The violations of section 5 are of course not theorems.

## 5. What the runs found

1. `odom_lost`: after a stop at speed the ESC is left to the next `/odom`. If
   odometry ends there, the last duty stays, and the watchdog skips a target that
   is already zero.
2. `estop_with_deadman`: with an engage button bound, which is the default, the
   e-stop alone claims nothing; `/speed` drives on while it is held.
   `joy_mapping.yaml` and `TeleopStatus.msg` promise zero speed.
3. `install_lost`: `safe_build` writes its marker before there is a backup, and
   `recover_install` removes `install/` whenever there is a marker; a crash in
   between, or between the removal of the backup and that of the marker, costs
   the only installation. The boot script then builds a new one.
4. `stale_maps`: `build_undistort_maps` reads the parameters before it takes the
   mutex. A parameter set in between marks the maps as stale; the build that then
   finishes marks its maps of the old parameters as valid, and no later frame builds
   them again, against the comment at `CameraNode.cpp:852`.

Also met while modelling, visible in the models, without a run of their own:

* the calibration status is published before the values are saved and not again
  after: a save is first told with the next request (`physicar_driver_node.cpp:1034`,
  `:577`); only that a status never claims too much is a property;
* a frame of length 2 has no data, and its checksum is read before the start of an
  empty vector (`physicar_driver_node.cpp:245`);
* the percentage of a battery counts the cells anew for each value, so a three-cell
  pack that falls to 9.0 V is a full two-cell one (`physicar_driver_node.cpp:630`),
  while the warning keeps the first count;
* setting a center moves the servo but not `current_pan_` and its like: the joint
  states go on with the last command (`physicar_driver_node.cpp:1016`);
* a mapping file with an invalid value and without units is overwritten with the
  defaults at the next start (`joy_teleop_node.cpp:246`, `:260`), one that does not
  parse is left alone;
* whether the text of a saved file reached the disk is not looked at, neither for
  the calibration nor for the mapping: a full disk leaves a torn file that counts
  as saved (`hurt`, `cutShort`);
* the intensities of a scan are taken from the index they are written to, not from
  the node whose distance is there (`rplidar_node.cpp:280`): reversed or flipped,
  they belong to other distances;
* two nodes of a turn with a measurement in the same bin show the later one only;
  the message has 359 degrees between its first and last bin, so that a direction is
  up to a degree off, and a distance is shown within two;
* a camera thread waits for its condition variable without a condition, although
  the comment at `CameraNode.cpp:650` says "block until request is available": a
  completion signalled while the thread is between queueing and waiting is lost, its
  buffer with it, and the destructor may wait for it for ever (`missed` in
  `CameraFrames`); a wait that ends unasked sends the thread to work on, reuse and
  queue a request that the camera still has (`stray`, `reused`);
* `stop` answers a second after SIGKILL whether the process is gone or not, against
  its docstring, "Returns once the process is gone" (`evaluation.py:180`, `:71`); a
  program that is still there then keeps `/run` answering that one is running
  (`TimesOut` and `StopMeansKilled` in `Evaluation`);
* a list of settings may name a control twice: with "manual, automatic, exposure time
  7" the check finds the first mode and the last one is stored, so that "ExposureTime
  must not be set while AeEnable is true" (`ParameterConflictHandler.cpp:153`) does not
  hold (`muddled` in `CameraControls`); a list that sets and unsets a control leaves
  the camera with a value that is no parameter's;
* the exposure time put aside for a request that fails the node's own check stays in
  `tmp_store`, and the next request of any kind meets the assertion at
  `ParameterConflictHandler.cpp:169`, though "If checks fail, drop these temporary
  changes" (`:166`): a build that keeps assertions (`install-real.sh:817`,
  `physicar.sh:1269`) ends there, a Release build (`updater.sh:351`) goes on
  (`Asserts`);
* the controls of a request are taken under a lock and the request queued after it:
  of two threads the one with the older value may queue last, and the camera keeps
  that, against "only ever apply the most recent parameter values"
  (`ParameterHandler.cpp:275`). A list that does not set a control gives up the value
  of it that no request has taken yet, so that a parameter which was accepted never
  reaches the camera (`lost`);
* two threads that find the same parameter undeclared both declare it, and the
  second one's exception ends the node (`Declares`);
* the defaults of all controls are refused together for one of a kind that does not
  come back from its parameter: arrays of one element, of Bool or of Byte
  (`cv_to_pv.cpp:111`, `pv_to_cv.cpp:101`), and rectangles whose negative corner is
  added to an unsigned side (`clamp.cpp:85`, where the bounds of `std::clamp` can be
  out of order, which is undefined) (`Misfit` in `ControlValues`);
* a gain that is NaN passes the check of `set_calibration`
  (`physicar_driver_node.cpp:1082`) and is saved;
* `/servo/commands` turns pan or tilt by a raw angle, past claims, limits and trim, and
  no other node of the stack uses it (`physicar_driver_node.cpp:746`,
  `ServoCommands`);
* a control value of more than 32 bits passes a range that was declared anew and is
  narrowed on its way to the camera (`CameraControls`);
* a dense handler keeps its last capsule over a stop and a start (`reset` leaves
  `_is_previous_capsuledataRdy` alone) and forgets it with the first capsule of a scan:
  if all bytes of that one are lost, nodes are spread between capsules of two scans.
  `NothingFromBefore` is violated with `Kinds = {"dense"}` and three lost bytes, and its
  theorem excludes exactly that (`FewLost`). Nor does a handler notice that a whole
  capsule is missing between two (`OnlyNeighboursEverJoin` has the same limit);
* the ultra capsules round an angle such that the wrap between two capsules can be
  lost (the exception in `ScansKeepComing`); in the dense formats the first scan after a
  start may be a sample short, as the handlers take the second sample of the window in
  which they look for the wrap for its beginning (`BeginsLate`); a late answer that the decoder had
  already matched is taken for the answer to the next question (`AnswersMatch`);
* a reset of the odometry that is served before the last scan of the old place has
  left the queues counts the teleport as a drive (`fair` in `Odometry`);
* the dead-man zero takes the generation at the close of the stream, so a stream
  that was overruled before stops the command that overruled it (`hw.py:587`);
* a zero that the joystick node leaves behind may arrive after the status that
  frees the car, and then stops an autonomous command (`joy_teleop_node.cpp:516`);
* a long-poll drains its wakes before the answer is known to arrive
  (`pcwake.py:147`);
* `joy.py:210` clears the wake-up flag after the payload is built: a bump that
  falls into a poll is forgotten until the ticker (1 s) or the next poll, although
  the comment at `joy.py:58` counts on 50 ms; `kiosk.py` clears it before the poll
  and forgets nothing;
* a failed call hands every joystick window an empty mapping (`joy.py:155`), and a
  window whose queue overflowed is unsubscribed while its generator waits on;
* an error frame (`kiosk.py:316`), or a full queue, leaves a calibration window
  behind: the old payload is still `_last_payload` and is not sent again (`gap` in
  `Feed`, the exception in `WindowsConverge`); the payload lacks `speed_gain`, so its
  bump never reaches a window;
* `Evaluation`: a stop that comes while a program is being started finds nothing
  and succeeds; the backstop exists only once the relay has asked for the body
  (`Unheard`); a relay that leaves between the exit and the last output loses the
  exit code (`late`); a child that survives its leader keeps the stream open; and
  an old stream that ends after a new run began overwrites the new `_exit_code`;
* the watchdog never goes beyond SIGTERM, so that a node that ignores it is
  signalled again every cool-down and never replaced;
* a NaN command passes the clamp, drives at the deadzone and, not being `Moving`,
  never expires (`src/README.md:61` promises a stop);
* at the lowest configurable rate (1 Hz) the claim expires between two statuses,
  which time out after 0.5 s (`TeleopStatus.msg:8`);
* a stream's frame cancels the scheduled clearing of the displayed speed and
  schedules none (`hw.py:498`): the display may keep a stream's speed after the car
  has stopped;
* a cancel between the two sections of `redeem` finds nothing and answers that
  the ticket is gone while the wake is about to be queued (`pcwake.py:99`); an
  expired ticket is redeemed until somebody reserves another (`pcwake.py:84`);
* an interrupted `git checkout` leaves `index.lock`; the resumed one fails on it
  and the pending marker is deleted, so that the mixed working tree stays until a
  boot that finds the lock old and a newer tag.

## 6. Not modelled

* `tools_server.py` beyond `pcwake.py`: loading of modules is a cache keyed by a file's
  time, a call that timed out leaves a thread behind; both act on the car only
  through `POST /speed`, which is modelled.
* `state_manager.py`, `ros_bridge.py`, `audio_manager.py`, `auth.py`, `main.py`, the pages:
  HTTP plumbing and buffers, save for the odometry reset, which is in `Odometry`.
* The rest of the lidar SDK: the sockets and serial port of three operating systems
  below the channel, `negotiateSerialBaudRate`, `setLidarIpConf`, time stamps of
  samples, and scans without angle compensation, which the car does not use.
* The numerical part of the scan matcher (iterations of the least-squares step): real
  arithmetic, no discrete protocol.
* The IMU's values, the percentage of the battery and the joint states of the driver:
  computed and published, never read again.
* Repair of a damaged repository (`check_repo_health`, `repair_repo`, `reinit_repo`), DEV
  mode, the pip upgrade and the provisioning of packages and the desktop.
* Launch files beyond `respawn`, the description, the simulator, ROS discovery.
