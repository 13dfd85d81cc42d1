----------------------------- MODULE DriveLoop -----------------------------
(***************************************************************************)
(* The speed loop of the driver node (physicar_driver_node.cpp): a speed   *)
(* command becomes a target, the target becomes an ESC duty, odometry      *)
(* corrects the duty or brakes the car, and a watchdog timer withdraws a   *)
(* target nobody renews.                                                   *)
(*                                                                         *)
(* Every callback of the node runs in its one mutually exclusive callback  *)
(* group, so a callback is one action.  A speed is an integer number of    *)
(* speed units; the ESC duty is recorded as the signed speed it was        *)
(* computed from (the duty curve is strictly monotonic in it).  One tick   *)
(* is one period of the watchdog timer (0.1 s), and the code's time stamps *)
(* are kept as their age in ticks, saturated where no comparison can tell  *)
(* the difference.                                                         *)
(***************************************************************************)
EXTENDS Integers, Ages

CONSTANTS
  Commands,         \* values that may arrive on a speed topic
  NaN,              \* the IEEE not-a-number, which std::clamp passes through
  MaxSpeed, BrakeSpeed, Deadzone, MaxAdjust, PGain,
  CmdTimeout,       \* cmd_timeout in ticks; 0 = no watchdog
  FeedbackTimeout   \* FEEDBACK_TIMEOUT in ticks

ASSUME SpeedAssumption ==
  /\ MaxSpeed \in Nat /\ BrakeSpeed \in Nat /\ Deadzone \in Nat
  /\ 0 < Deadzone /\ Deadzone <= BrakeSpeed /\ BrakeSpeed < MaxSpeed
  /\ MaxAdjust \in Nat /\ PGain \in Nat
ASSUME TimeAssumption == CmdTimeout \in Nat /\ FeedbackTimeout \in Nat
ASSUME CommandAssumption == NaN \notin Int /\ Commands \subseteq Int \cup {NaN}

VARIABLES
  alive,        \* the driver process is running
  target,       \* target_speed_ (and current_throttle_, always its equal)
  esc,          \* what the ESC pin is emitting; it outlives the process
  adjust,       \* speed_adjust_
  actual,       \* actual_speed_, the last odometry reading
  brake,        \* brake_active_
  cmdAge,       \* now - last_drive_cmd_time_
  fbAge,        \* now - actual_speed_time_
  watchdogDue   \* the 0.1 s timer has not yet run in this tick

driveVars == <<alive, target, esc, adjust, actual, brake, cmdAge, fbAge,
               watchdogDue>>

-----------------------------------------------------------------------------
CmdCap == CmdTimeout + 1
FbCap  == FeedbackTimeout + CmdTimeout + 2

Abs(x) == IF x < 0 THEN -x ELSE x
Clamp(x, lim) == IF x > lim THEN lim ELSE IF x < -lim THEN -lim ELSE x

Speeds == -MaxSpeed .. MaxSpeed
Targets == Speeds \cup {NaN}

\* Every comparison with NaN is false: it is neither moving nor idle.
Moving(t) == t # NaN /\ Abs(t) >= Deadzone
Idle(t)   == t # NaN /\ Abs(t) < Deadzone

ClampCommand(v) == IF v = NaN THEN NaN ELSE Clamp(v, MaxSpeed)

Stale == fbAge > FeedbackTimeout

\* The reading is slow enough to let go of the brake.
Slow(v) == Abs(v) <= BrakeSpeed

\* Mutant: the sign of the target is forgotten.
ForwardCommandStale == Moving(target) /\ target > 0 /\ cmdAge > CmdTimeout
\* The watchdog's condition.
CommandStale == Moving(target) /\ cmdAge > CmdTimeout

\* Mutant: the correction may cross zero.
UnflooredAdjusted(t, a) == IF NaN \in {t, a} THEN Deadzone ELSE t + a
\* get_adjusted_speed for a target the callers know is not idle.  A NaN sum
\* loses the comparison inside std::max and std::min, which then return their
\* first argument, the deadzone; a NaN target is not > 0.
Adjusted(t, a) ==
  LET forward == t # NaN /\ t > 0
      finite  == t # NaN /\ a # NaN
  IN  IF forward
      THEN IF finite /\ t + a > Deadzone THEN t + a ELSE Deadzone
      ELSE IF finite /\ t + a < -Deadzone THEN t + a ELSE -Deadzone

\* The P correction towards the predicted speed; NaN spreads into it.
Correction(t, predicted) ==
  IF t = NaN THEN NaN ELSE Clamp(PGain * (t - predicted), MaxAdjust)

-----------------------------------------------------------------------------
\* The members' initialisers; the steady clock counts from boot, so the zero
\* time stamps are already stale.  The constructor emits neutral on both pins.
DriveInit ==
  /\ alive = TRUE
  /\ target = 0 /\ esc = 0 /\ adjust = 0 /\ actual = 0 /\ brake = FALSE
  /\ cmdAge = CmdCap /\ fbAge = FbCap
  /\ watchdogDue = FALSE

Neutral == esc' = 0 /\ adjust' = 0 /\ brake' = FALSE

\* Its beginning: the duty is left to the next odometry reading.
\* Mutant: the flag is forgotten.
CoastInstead == brake' = FALSE /\ UNCHANGED <<esc, adjust>>
StartBraking == brake' = TRUE /\ UNCHANGED <<esc, adjust>>

\* Mutant: the command is not time-stamped.
NoStamp == UNCHANGED cmdAge
StampCommand == cmdAge' = 0

\* set_speed
SetSpeed(v) ==
  LET s == ClampCommand(v) IN
  /\ target' = s
  /\ StampCommand
  /\ \/ /\ Idle(s)
        /\ Stale \/ Slow(actual)
        /\ Neutral
     \/ /\ Idle(s)
        /\ ~Stale /\ ~Slow(actual)
        /\ StartBraking
     \/ /\ ~Idle(s)
        /\ brake' = FALSE
        /\ adjust' = IF Stale THEN 0 ELSE adjust
        /\ esc' = Adjusted(s, adjust')
  /\ UNCHANGED <<actual, fbAge>>

\* A command that reached set_speed: /speed, /cmd_vel or /teleop/speed.
Command(v) ==
  /\ alive
  /\ SetSpeed(v)
  /\ UNCHANGED <<alive, watchdogDue>>

\* odom_callback.  The prediction extrapolates the last two readings over
\* FEEDBACK_LOOKAHEAD; any speed is a possible prediction.
Odom(v, predicted) ==
  /\ alive
  /\ actual' = v
  /\ fbAge' = 0
  /\ \/ Idle(target) /\ ~brake /\ UNCHANGED <<esc, adjust, brake>>
     \/ Idle(target) /\ brake /\ Slow(v) /\ Neutral
     \/ /\ Idle(target) /\ brake /\ ~Slow(v)
        /\ esc' = IF v > 0 THEN -BrakeSpeed ELSE BrakeSpeed
        /\ UNCHANGED <<adjust, brake>>
     \/ /\ ~Idle(target)
        /\ adjust' = Correction(target, predicted)
        /\ esc' = Adjusted(target, adjust')
        /\ UNCHANGED brake
  /\ UNCHANGED <<alive, target, cmdAge, watchdogDue>>

\* The command watchdog timer; the callback is created only when
\* cmd_timeout > 0.
CmdWatchdog ==
  /\ watchdogDue
  /\ watchdogDue' = FALSE
  /\ IF CommandStale
     THEN SetSpeed(0)
     ELSE UNCHANGED <<target, esc, adjust, actual, brake, cmdAge, fbAge>>
  /\ UNCHANGED alive

\* One timer period passes.  The executor has run the timer of the last one.
Tick ==
  /\ ~watchdogDue
  /\ watchdogDue' = (alive /\ CmdTimeout > 0)
  /\ cmdAge' = OneOlder(cmdAge, CmdCap)
  /\ fbAge' = OneOlder(fbAge, FbCap)
  /\ UNCHANGED <<alive, target, esc, adjust, actual, brake>>

\* The process dies and its memory is lost.  The destructor writes neutral;
\* a crash leaves the PWM chip emitting the last duty.
Die(graceful) ==
  /\ alive
  /\ alive' = FALSE
  /\ esc' = IF graceful THEN 0 ELSE esc
  /\ target' = 0 /\ adjust' = 0 /\ actual' = 0 /\ brake' = FALSE
  /\ cmdAge' = CmdCap /\ fbAge' = FbCap
  /\ watchdogDue' = FALSE

\* The launch file respawns the node; the constructor writes neutral.
Respawn ==
  /\ ~alive
  /\ alive' = TRUE
  /\ esc' = 0
  /\ UNCHANGED <<target, adjust, actual, brake, cmdAge, fbAge, watchdogDue>>

DriveNext ==
  \/ \E v \in Commands : Command(v)
  \/ \E v, p \in Speeds : Odom(v, p)
  \/ CmdWatchdog
  \/ Tick
  \/ \E graceful \in BOOLEAN : Die(graceful)
  \/ Respawn

DriveSpec == DriveInit /\ [][DriveNext]_driveVars

-----------------------------------------------------------------------------
DriveTypeOK ==
  /\ alive \in BOOLEAN
  /\ target \in Targets
  /\ esc \in Int
  /\ adjust \in (-MaxAdjust .. MaxAdjust) \cup {NaN}
  /\ actual \in Speeds
  /\ brake \in BOOLEAN
  /\ cmdAge \in 0 .. CmdCap
  /\ fbAge \in 0 .. FbCap
  /\ watchdogDue \in BOOLEAN

\* A moving target is never older than the command window: once the timer of
\* this period has run, the last command came within CmdTimeout ticks, and
\* between two runs of the timer it is at most one tick past it.
CommandsExpire ==
  CmdTimeout > 0 /\ Moving(target) =>
    cmdAge <= (IF watchdogDue THEN CmdTimeout + 1 ELSE CmdTimeout)

\* Whatever the feedback says, the corrected duty never drives against the
\* commanded direction or below the smallest duty that moves the car, and
\* stays within the correction's limit of the command.
EscFollowsTarget ==
  alive /\ Moving(target) =>
    /\ (esc > 0) <=> (target > 0)
    /\ Abs(esc) >= Deadzone
    /\ adjust # NaN => Abs(esc - target) <= MaxAdjust

\* A stopped car's ESC is neutral unless a braking episode is open, and an
\* episode is open only while the last reading says the car rolls faster than
\* the braking threshold.
StopIsNeutralOrBraking ==
  /\ alive /\ Idle(target) /\ ~brake => esc = 0
  /\ brake => Idle(target) /\ ~Slow(actual)

\* Driving or stopped, the ESC obeys the command.
EscObeys == EscFollowsTarget /\ StopIsNeutralOrBraking

\* A correction computed from feedback that stopped arriving does not outlive
\* the command it corrected: a command renewed on stale feedback drives open
\* loop, so FeedbackTimeout after the last reading every command since then
\* has put the plain target on the ESC.
StaleCorrectionDropped ==
  CmdTimeout > 0 /\ Moving(target) /\ fbAge - cmdAge > FeedbackTimeout =>
    esc = target /\ adjust = 0

\* What the loop promises its callers: the abstract lease of CommandLease,
\* renewed by commands only.  Odometry, braking and process deaths are
\* stuttering or revoking steps of it.
Lease == INSTANCE CommandLease
           WITH Window <- CmdTimeout, moving <- Moving(target), age <- cmdAge
ImplementsLease == Lease!LeaseSpec
=============================================================================
