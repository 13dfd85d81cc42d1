-------------------------------- MODULE Servos --------------------------------
(***************************************************************************)
(* One of the four servos of the driver node (ServoController,             *)
(* GpioPwmBoard and the commands of RosmasterBoard in                      *)
(* physicar_driver_node.cpp): what a command becomes as a pulse under the  *)
(* calibration and the battery voltage of the moment.  Throttle and        *)
(* steering are on the GPIO board, pan and tilt on the serial board, which *)
(* takes whole degrees.                                                    *)
(*                                                                         *)
(* An angle is an integer, of which Degree are one degree; a pulse on the  *)
(* GPIO board is an integer, Duty for each angle.  The constant 0.5 ms at  *)
(* the start of every pulse is left out.  Voltages, gains and the factors  *)
(* of the ESC's curve are ratios of integers; the curve is a straight line *)
(* instead of a power of the speed.                                        *)
(***************************************************************************)
EXTENDS Integers

CONSTANTS
  ServoChannels,   \* of "throttle", "steering", "pan", "tilt"
  Commands,     \* angles from the center, or speeds
  ServoCenter, Degree, Duty,
  Reach,        \* largest angle from the center that a channel is sent to
  Trims, SpeedGains,
  Voltages,     \* what the serial board reports
  RefVoltage, LeastVoltage, PackVoltage,   \* 7.4, 5.0, and 9.0: more is three cells
  LowTwoCells, LowThreeCells,
  Slope, DeadBand,   \* of the curve of either mounting of the motor
  UnitSpeedGain,     \* the gain that changes nothing
  Weak, Strong       \* the factor of the direction the motor is better in

Mountings == {"forward", "reversed"}

ASSUME ServosAssumption ==
  /\ ServoChannels \subseteq {"throttle", "steering", "pan", "tilt"}
  /\ Commands \subseteq Int /\ Trims \subseteq Int
  /\ SpeedGains \subseteq Nat \ {0} /\ Voltages \subseteq Nat
  /\ {ServoCenter, Degree, Duty, RefVoltage, LeastVoltage, UnitSpeedGain, Strong}
       \subseteq Nat \ {0}
  /\ Reach \in [ServoChannels -> Nat] /\ Weak \in Nat /\ Weak <= Strong
  /\ Slope \in [Mountings -> Nat] /\ DeadBand \in [Mountings -> Nat]
  /\ \A ch \in ServoChannels, t \in Trims :
       {t - Reach[ch], t + Reach[ch]} \subseteq -ServoCenter .. ServoCenter

\* A unit of speed is felt at any gain and voltage: no division rounds it away.
ASSUME SpeedIsFelt ==
  \A m \in Mountings, g \in SpeedGains, v \in Voltages \cup {RefVoltage} :
    LET felt == (((Slope[m] * g) \div UnitSpeedGain) * Weak) \div Strong IN
    felt * RefVoltage >= v /\ felt * RefVoltage >= LeastVoltage

VARIABLES
  channel,    \* the servo
  settings,   \* its trim; the mounting of the motor and the speed gain
  battery,    \* current_voltage_, the threshold once the cells are known, battery_low_warned_
  open,       \* the process, with its boards connected
  pulse,      \* what the servo is sent
  last        \* history: the command the pulse is for, or Unknown

servosVars == <<channel, settings, battery, open, pulse, last>>

Unknown == [known |-> FALSE, command |-> 0]
Of(command) == [known |-> TRUE, command |-> command]

Magnitude(v) == IF v < 0 THEN -v ELSE v
Within(v, lo, hi) == IF v < lo THEN lo ELSE IF v > hi THEN hi ELSE v

-----------------------------------------------------------------------------
(* apply_angle                                                             *)

OnGpio == channel \in {"throttle", "steering"}

WholeDegrees(a) == Degree * ((2 * a + Degree) \div (2 * Degree))

\* set_servo and set_pwm_servo clamp the angle once more.
PulseFor(a) ==
  LET b == Within(a, 0, 2 * ServoCenter) IN
  IF OnGpio THEN Duty * b ELSE Within(WholeDegrees(a), 0, 2 * ServoCenter)

Limited(a) == Within(a, ServoCenter - Reach[channel], ServoCenter + Reach[channel])

\* Mutant: the limits hold for the trimmed angle.
TrimmedFirst(a) == Limited(a + settings.trim)
Trimmed(a) == Limited(a) + settings.trim

AngleApplied(a) ==
  PulseFor(Trimmed(IF channel = "throttle" /\ settings.mounting = "reversed"
                   THEN 2 * ServoCenter - a ELSE a))

-----------------------------------------------------------------------------
(* set_throttle_speed                                                      *)

\* A voltage that is too low to be one is not made up for.
Effort(speed) ==
  LET weak == (speed > 0) = (settings.mounting = "reversed")
      curve == Slope[settings.mounting] * Magnitude(speed) + DeadBand[settings.mounting]
      gained == (curve * settings.gain) \div UnitSpeedGain
      volts == IF battery.voltage < LeastVoltage THEN LeastVoltage ELSE battery.voltage IN
  ((IF weak THEN (gained * Weak) \div Strong ELSE gained) * RefVoltage) \div volts

ThrottlePulse(speed) ==
  IF speed = 0 THEN Duty * ServoCenter
  ELSE LET back == (speed > 0) = (settings.mounting = "forward") IN
       Within(Duty * ServoCenter + (IF back THEN -Effort(speed) ELSE Effort(speed)),
              0, 2 * Duty * ServoCenter)

\* set_steering_wheel_angle: a command is counted by the servo angle its wheel angle needs.
\* apply_pan, apply_tilt: of the range, which is the reach; tilt is mounted the other way.
PulseOf(command) ==
  CASE channel = "throttle" -> ThrottlePulse(command)
    [] channel = "tilt" -> AngleApplied(ServoCenter
                             - Within(command, -Reach[channel], Reach[channel]))
    [] OTHER -> AngleApplied(ServoCenter + Within(command, -Reach[channel], Reach[channel]))

-----------------------------------------------------------------------------
SettingsOf(ch) ==
  [trim : IF ch = "throttle" THEN {0} ELSE Trims, mounting : Mountings, gain : SpeedGains]

FreshBattery == [voltage |-> RefVoltage, lowAt |-> 0, warned |-> FALSE]

ServosInit ==
  /\ channel \in ServoChannels
  /\ settings \in SettingsOf(channel)
  /\ battery = FreshBattery
  /\ open = FALSE /\ pulse = 0 /\ last = Unknown

\* GpioPwmBoard::connect, initialize_esc and center_all.
Opens ==
  /\ ~open /\ open' = TRUE
  /\ pulse' = AngleApplied(ServoCenter) /\ last' = Of(0)
  /\ battery' = FreshBattery
  /\ UNCHANGED <<channel, settings>>

\* A write that fails is not noticed.
Commanded == \E c \in Commands :
  /\ open
  /\ \/ pulse' = PulseOf(c) /\ last' = Of(c)
     \/ UNCHANGED <<pulse, last>>
  /\ UNCHANGED <<channel, settings, battery, open>>

\* /servo/commands goes to the serial board, past the limits.
RawCommand == \E a \in {Degree * d : d \in 0 .. (2 * ServoCenter) \div Degree} :
  /\ open /\ ~OnGpio
  /\ pulse' = a /\ last' = Unknown
  /\ UNCHANGED <<channel, settings, battery, open>>

\* apply_calibration leaves the pulse as it is, unless it moves the servo to its center.
Recalibrated == \E s \in SettingsOf(channel), move_to_center \in BOOLEAN :
  /\ open /\ settings' = s
  /\ IF move_to_center /\ channel # "throttle"
     THEN pulse' = PulseFor(ServoCenter + s.trim) /\ last' = Of(0)
     ELSE last' = Unknown /\ UNCHANGED pulse
  /\ UNCHANGED <<channel, battery, open>>

LowThreshold(voltage) == IF voltage > PackVoltage THEN LowThreeCells ELSE LowTwoCells

\* publish_battery: the cells are counted once; nothing is known of a silent board.
BatteryRead == \E v \in Voltages \ {0} :
  LET lowAt == IF battery.lowAt = 0 THEN LowThreshold(v) ELSE battery.lowAt IN
  /\ open
  /\ battery' = [voltage |-> v, lowAt |-> lowAt, warned |-> v < lowAt]
  /\ last' = IF channel = "throttle" /\ v # battery.voltage THEN Unknown ELSE last
  /\ UNCHANGED <<channel, settings, open, pulse>>

\* The destructor centers all servos, and then those on the GPIO board without their trim.
Closes ==
  /\ open /\ open' = FALSE
  /\ pulse' = IF OnGpio THEN Duty * ServoCenter ELSE AngleApplied(ServoCenter)
  /\ last' = Unknown
  /\ UNCHANGED <<channel, settings, battery>>

\* Killed: the boards go on with the pulses they have.
ServosAbandoned ==
  /\ open /\ open' = FALSE /\ last' = Unknown
  /\ UNCHANGED <<channel, settings, battery, pulse>>

ServosNext ==
  Opens \/ Commanded \/ RawCommand \/ Recalibrated \/ BatteryRead \/ Closes \/ ServosAbandoned

ServosSpec == ServosInit /\ [][ServosNext]_servosVars

-----------------------------------------------------------------------------
(* The sense in which a larger command moves the pulse.                    *)
Sense ==
  IF channel = "tilt" \/ (channel = "throttle" /\ settings.mounting = "forward") THEN -1 ELSE 1

Further(c, d) == d - c >= (IF channel = "throttle" THEN 1 ELSE Degree)

(* Under one calibration and one voltage commands keep their order: one    *)
(* that is larger by a degree, or by a speed, moves the servo further in   *)
(* the sense of its mounting, whatever the trim and the rounding, up to    *)
(* the servo's reach and the ends of the ESC's pulse; and a zero speed is  *)
(* neutral (apply_angle, set_throttle_speed, set_pwm_servo).               *)
OrderIsKept ==
  LET c == last.command
      d == last'.command
      within == channel = "throttle" \/ {c, d} \subseteq -Reach[channel] .. Reach[channel]
      atEnd == channel = "throttle" /\ pulse \in {0, 2 * Duty * ServoCenter} /\ pulse' = pulse
  IN
  last.known /\ last'.known /\ UNCHANGED settings /\ within =>
    /\ Further(c, d) => Sense * (pulse' - pulse) > 0 \/ atEnd
    /\ Further(d, c) => Sense * (pulse' - pulse) < 0 \/ atEnd
    /\ channel = "throttle" /\ d = 0 => pulse' = Duty * ServoCenter
CommandsKeepOrder == [][OrderIsKept]_servosVars
=============================================================================
